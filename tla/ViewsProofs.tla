---------------------------- MODULE ViewsProofs ----------------------------
(***************************************************************************)
(* That the page keeps its preferences, and that what it shows is true,    *)
(* for every menu and storage, every history and calendar, and any number  *)
(* of events.                                                              *)
(*                                                                         *)
(* The figures are computed anew from what the page holds whenever it is   *)
(* drawn, so their invariant (Typed) only says what it holds: a history    *)
(* that ends now, and prices that are numbers.  What is shown follows from *)
(* it by what the operators of Stats compute, whatever the history:        *)
(*   - buckets follow one another, so that an instant is in one of them    *)
(*     (BucketOf), as a day is in one place of the calendar (DayIs);       *)
(*   - numbers shared out by bucket, or by model, add up to those of the   *)
(*     events that have one (BucketsShareOut, RowsAddUp);                  *)
(*   - a bucket, and a figure beside the chart, are sums over the same     *)
(*     events (BucketIs);                                                  *)
(*   - a place in the order of the measurements is a rank among them       *)
(*     (RankIs), rounded up as the source does (CeilingIs).                *)
(***************************************************************************)
EXTENDS Views, SequenceLemmas

\* A menu with every view in it, once.
Complete(menu) ==
    /\ menu \in Seq(STRING)
    /\ Len(menu) = Len(Tabs)
    /\ \A t \in TabSet : \E i \in DOMAIN menu : menu[i] = t

Fields == {"works", "order", "folded", "grid"}

\* The inductive invariant: the menu can be read back, and the storage is one
\* whose fields can be written.
Kept ==
    /\ Complete(order)
    /\ dragIndex \in 0 .. Len(order)
    /\ expanded \in BOOLEAN
    /\ DOMAIN storage = Fields
    /\ storage.order \in Seq(STRING)
    /\ storage.folded \in BOOLEAN
    /\ storage.works =>
          /\ loadNavOrder(storage.order) = order
          /\ storage.folded = ~expanded
          /\ tab = "Schedule" => loadSchedule(storage.grid) = grid
---------------------------------------------------------------------------
\* Whatever was stored, what is loaded lists every view.
LEMMA LoadedIsComplete ==
    ASSUME NEW stored \in Seq(STRING)
    PROVE  Complete(loadNavOrder(stored))
<1>1. Complete(Tabs)
  BY PageAssumption DEF Complete, TabSet
<1>2. QED
  BY <1>1 DEF Complete, loadNavOrder

\* A complete menu that was stored is loaded as it is.
LEMMA CompleteIsLoaded ==
    ASSUME NEW menu, Complete(menu)
    PROVE  loadNavOrder(menu) = menu
BY DEF Complete, loadNavOrder

\* An entry that is moved takes the place it was dropped on; none is lost.
LEMMA MovedIsComplete ==
    ASSUME Complete(order), NEW from \in DOMAIN order, NEW to \in DOMAIN order
    PROVE  Complete(Moved(from, to))
<1>1. order \in Seq(STRING) /\ DOMAIN order = 1 .. Len(order)
  BY LenProperties DEF Complete
<1>2. /\ Moved(from, to) \in Seq(STRING) /\ Len(Moved(from, to)) = Len(order)
      /\ \A i \in 1 .. Len(order) : \E k \in 1 .. Len(order) : Moved(from, to)[k] = order[i]
  <2>1. Moved(from, to) \in Seq(STRING) /\ Len(Moved(from, to)) = Len(order)
    BY <1>1, MoveKeeps DEF Moved
  <2>2. ASSUME NEW S, NEW menu \in Seq(S), NEW a \in 1 .. Len(menu), NEW b \in 1 .. Len(menu),
               NEW i \in 1 .. Len(menu)
        PROVE  \E k \in 1 .. Len(menu) : InsertAt(RemoveAt(menu, a), b, menu[a])[k] = menu[i]
    BY ONLY MoveKeeps
  <2>3. ASSUME NEW i \in 1 .. Len(order)
        PROVE  \E k \in 1 .. Len(order) : Moved(from, to)[k] = order[i]
    <3>1. Moved(from, to) = InsertAt(RemoveAt(order, from), to, order[from])
      BY DEF Moved
    <3>2. \E k \in 1 .. Len(order) : InsertAt(RemoveAt(order, from), to, order[from])[k] = order[i]
      <4>1. from \in 1 .. Len(order) /\ to \in 1 .. Len(order)
        BY <1>1
      <4>2. QED
        BY ONLY <1>1, <2>2, <2>3, <4>1, Zenon
    <3>3. QED
      BY <3>1, <3>2
  <2>4. QED
    BY <2>1, <2>3
<1>3. DOMAIN Moved(from, to) = 1 .. Len(order)
  BY <1>2, LenProperties
<1>4. \A t \in TabSet : \E i \in DOMAIN order : order[i] = t
  BY DEF Complete
<1>5. QED
  BY <1>1, <1>2, <1>3, <1>4 DEF Complete
---------------------------------------------------------------------------
\* The first state, whatever the storage holds.
LEMMA KeptAtFirst == ASSUME Init PROVE Kept
<1>1. storage \in Storages /\ DOMAIN storage = Fields
      /\ storage.order \in Seq(STRING) /\ storage.folded \in BOOLEAN
  BY StorageAssumption DEF Init, Fields
<1>2. Complete(order) /\ dragIndex = 0 /\ expanded = ~storage.folded /\ tab = "Overview"
      /\ order = loadNavOrder(storage.order)
  BY <1>1, LoadedIsComplete DEF Init
<1>3. Len(order) \in Nat
  BY <1>2, LenProperties DEF Complete
<1>4. expanded \in BOOLEAN /\ storage.folded = ~expanded
  BY <1>1, <1>2
<1>5. dragIndex \in 0 .. Len(order)
  BY <1>2, <1>3
<1>6. tab # "Schedule"
  BY <1>2
<1>7. QED
  BY <1>1, <1>2, <1>4, <1>5, <1>6 DEF Kept

\* A write leaves the storage as it was but for its field, and only if it works.
LEMMA WriteIs ==
    ASSUME Kept, NEW field \in Fields, NEW value, Write(field, value)
    PROVE  /\ DOMAIN storage' = Fields
           /\ \A f \in Fields \ {field} : storage'[f] = storage[f]
           /\ storage.works => storage'[field] = value
           /\ ~storage.works => storage' = storage
BY DEF Write, Kept, Fields

\* The views.
LEMMA KeptByViews == ASSUME Kept, SelectTab \/ FollowAttention PROVE Kept'
<1>1. PICK t : Open(t)
  BY DEF SelectTab, FollowAttention
<1>2. UNCHANGED menuVars
  BY DEF SelectTab, FollowAttention
<1>3. CASE t # "Schedule"
  BY <1>1, <1>2, <1>3 DEF Kept, Complete, Open, menuVars
<1>4. CASE t = "Schedule"
  <2>1. Write("grid", Grid(loadSchedule(storage.grid))) /\ grid' = loadSchedule(storage.grid)
    BY <1>1, <1>4 DEF Open
  <2>2. loadSchedule(Grid(loadSchedule(storage.grid))) = loadSchedule(storage.grid)
    BY DEF loadSchedule, Grid
  <2>3. /\ DOMAIN storage' = Fields
        /\ storage'.order = storage.order /\ storage'.folded = storage.folded
        /\ storage'.works = storage.works
        /\ storage.works => storage'.grid = Grid(loadSchedule(storage.grid))
    BY <2>1, WriteIs DEF Fields
  <2>4. QED
    BY <1>2, <2>1, <2>2, <2>3 DEF Kept, Complete, menuVars, loadNavOrder
<1>5. QED
  BY <1>3, <1>4

\* The schedule.
LEMMA KeptBySchedule == ASSUME Kept, toggle \/ preset PROVE Kept'
<1>1. PICK cells : SetGrid(cells)
  BY DEF toggle, preset
<1>2. /\ DOMAIN storage' = Fields
      /\ storage'.order = storage.order /\ storage'.folded = storage.folded
      /\ storage'.works = storage.works
      /\ storage.works => storage'.grid = Grid(cells)
  BY <1>1, WriteIs DEF SetGrid, Fields
<1>3. loadSchedule(Grid(cells)) = cells
  BY DEF loadSchedule, Grid
<1>4. QED
  BY <1>1, <1>2, <1>3 DEF SetGrid, Kept, Complete, menuVars, loadNavOrder

\* The menu.
LEMMA KeptByDrop == ASSUME Kept, Drop PROVE Kept'
<1>1. PICK to \in DOMAIN order :
          IF dragIndex \in {0, to} THEN order' = order /\ storage' = storage
          ELSE order' = Moved(dragIndex, to) /\ Write("order", Moved(dragIndex, to))
  BY DEF Drop
<1>2. dragIndex' = 0 /\ UNCHANGED <<viewVars, expanded>>
  BY DEF Drop
<1>3. Len(order) \in Nat /\ DOMAIN order = 1 .. Len(order)
  BY LenProperties DEF Kept, Complete
<1>4. CASE dragIndex \in {0, to}
  BY <1>1, <1>2, <1>3, <1>4 DEF Kept, Complete, viewVars
<1>5. CASE dragIndex \notin {0, to}
  <2>1. Complete(Moved(dragIndex, to))
    <3>1. dragIndex \in DOMAIN order
      BY <1>3, <1>5 DEF Kept
    <3>2. QED
      BY <3>1, MovedIsComplete DEF Kept
  <2>2. Complete(order') /\ loadNavOrder(order') = order' /\ order' \in Seq(STRING) /\ Len(order') \in Nat
    BY <1>1, <1>5, <2>1, CompleteIsLoaded, LenProperties DEF Complete
  <2>3. /\ DOMAIN storage' = Fields
        /\ storage'.grid = storage.grid /\ storage'.folded = storage.folded
        /\ storage'.works = storage.works
        /\ storage'.order \in {storage.order, order'}
        /\ storage.works => storage'.order = order'
    BY <1>1, <1>5, WriteIs DEF Fields
  <2>4. Complete(order)'
    BY <2>2 DEF Complete, TabSet
  <2>5. (loadNavOrder(storage.order) = order)' <=> loadNavOrder(storage'.order) = order'
    BY DEF loadNavOrder, TabSet
  <2>6. QED
    BY <1>2, <2>2, <2>3, <2>4, <2>5 DEF Kept, viewVars, loadSchedule
<1>6. QED
  BY <1>4, <1>5

LEMMA KeptByFolding == ASSUME Kept, toggleSidebar PROVE Kept'
<1>1. /\ DOMAIN storage' = Fields
      /\ storage'.order = storage.order /\ storage'.grid = storage.grid
      /\ storage'.works = storage.works
      /\ storage'.folded \in BOOLEAN
      /\ storage.works => storage'.folded = expanded
  BY WriteIs DEF toggleSidebar, Fields, Kept
<1>2. expanded' = ~expanded /\ UNCHANGED <<viewVars, order, dragIndex>>
  BY DEF toggleSidebar
<1>3. QED
  BY <1>1, <1>2 DEF Kept, Complete, viewVars, loadNavOrder, loadSchedule

\* A step keeps the preferences.
LEMMA KeptByStep == ASSUME Kept, [Next]_vars PROVE Kept'
<1>1. CASE Refresh \/ ChooseRange
  BY <1>1 DEF Refresh, ChooseRange, Kept, Complete, menuVars, viewVars
<1>2. CASE SelectTab \/ FollowAttention
  BY <1>2, KeptByViews
<1>3. CASE DragStart
  <2>1. DOMAIN order = 1 .. Len(order)
    BY LenProperties DEF Kept, Complete
  <2>2. QED
    BY <1>3, <2>1 DEF DragStart, Kept, Complete, viewVars
<1>4. CASE DragEnd
  <2>1. Len(order) \in Nat
    BY LenProperties DEF Kept, Complete
  <2>2. QED
    BY <1>4, <2>1 DEF DragEnd, Kept, Complete, viewVars
<1>5. CASE Drop
  BY <1>5, KeptByDrop
<1>6. CASE toggleSidebar
  BY <1>6, KeptByFolding
<1>7. CASE toggle \/ preset
  BY <1>7, KeptBySchedule
<1>8. CASE Reload
  <2>1. Complete(order') /\ order' = loadNavOrder(storage.order)
    BY <1>8, LoadedIsComplete DEF Reload, Kept
  <2>2. Complete(order)' /\ Len(order') \in Nat
    BY <2>1, LenProperties DEF Complete, TabSet
  <2>3. expanded' = ~storage.folded /\ dragIndex' = 0 /\ storage' = storage /\ tab' = "Overview"
    BY <1>8 DEF Reload
  <2>4. QED
    BY <2>1, <2>2, <2>3 DEF Kept, loadNavOrder, TabSet
<1>9. CASE UNCHANGED vars
  BY <1>9 DEF vars, Kept, Complete
<1>10. QED
  BY <1>1, <1>2, <1>3, <1>4, <1>5, <1>6, <1>7, <1>8, <1>9 DEF Next, UserStep
---------------------------------------------------------------------------
\* main.tsx:116 and Schedule.tsx:7: in every state, whatever the storage held at
\* first and whatever was dragged, folded or clicked, the menu lists every view
\* once, and a page loaded again would show menu and schedule as they are now,
\* if the browser lets it keep them.
THEOREM PreferencesHold == Spec => []PreferencesKept
<1>1. Init => Kept
  BY KeptAtFirst
<1>2. Kept /\ [Next]_vars => Kept'
  BY KeptByStep
<1>3. Kept => PreferencesKept
  BY DEF Kept, Complete, PreferencesKept, MenuComplete
<1>4. QED
  BY <1>1, <1>2, <1>3, PTL DEF Spec
---------------------------------------------------------------------------
(* Buckets of time. *)

\* Each number is larger than those before it.
Increasing(b) == \A i, j \in DOMAIN b : i < j => b[i] < b[j]

\* Whether an instant is in a bucket.
InBucket(b, k, t) == b[k] <= t /\ (k = Len(b) \/ t < b[k + 1])

\* Buckets that follow one another divide time from the first on.
LEMMA BucketOf ==
    ASSUME NEW b \in Seq(Int), b # <<>>, Increasing(b), NEW t \in Int
    PROVE  /\ bucketIndex(b, t) \in 0 .. Len(b)
           /\ \A k \in 1 .. Len(b) : bucketIndex(b, t) = k <=> InBucket(b, k, t)
           /\ bucketIndex(b, t) = 0 <=> t < b[1]
<1> DEFINE n == Len(b)
           hits == {i \in DOMAIN b : t >= b[i] /\ (i = Len(b) \/ t < b[i + 1])}
<1>1. n \in Nat \ {0} /\ DOMAIN b = 1 .. n /\ \A i \in 1 .. n : b[i] \in Int
  BY LenProperties, ElementOfSeq, EmptySeq
<1>2. \A i, j \in 1 .. n : i < j => b[i] < b[j]
  BY <1>1 DEF Increasing
<1>3. \A k \in 1 .. n : k \in hits <=> InBucket(b, k, t)
  BY <1>1 DEF InBucket
<1>4. bucketIndex(b, t) = IF hits = {} THEN 0 ELSE Min(hits)
  BY DEF bucketIndex
<1>5. hits \subseteq 1 .. n
  BY <1>1
<1>6. ASSUME NEW i \in hits, NEW j \in hits PROVE i = j
  <2>1. ASSUME NEW x \in hits, NEW y \in hits, x < y PROVE FALSE
    <3> DEFINE z == x + 1
    <3>1. x \in 1 .. n /\ y \in 1 .. n /\ z \in 1 .. n /\ t < b[z] /\ b[y] <= t /\ (z = y \/ z < y)
      BY <1>1, <2>1
    <3> HIDE DEF z
    <3>2. b[z] <= b[y]
      BY <1>1, <1>2, <3>1
    <3> QED
      BY <1>1, <3>1, <3>2
  <2>2. i \in Int /\ j \in Int
    BY <1>5
  <2> HIDE DEF hits
  <2> QED
    BY <2>1, <2>2
<1>7. ASSUME t >= b[1] PROVE hits # {}
  <2> DEFINE later == {i \in 1 .. n : t < b[i]}
  <2>1. CASE later = {}
    <3>1. n \in hits
      BY <1>1, <2>1
    <3> QED
      BY <3>1
  <2>2. CASE later # {}
    <3>1. Nat \ (Nat \ later) # {}
      BY <2>2
    <3> DEFINE S == Nat \ later
    <3> HIDE DEF S
    <3>2. PICK m \in Nat \ S : \A k \in Nat \ S : m <= k
      BY <3>1, LeastOf DEF S
    <3>3. m \in 1 .. n /\ t < b[m] /\ \A i \in 1 .. n : t < b[i] => m <= i
      BY <3>2 DEF S
    <3>4. m # 1 /\ m - 1 \in 1 .. n
      BY <1>1, <1>7, <3>3
    <3>5. ~ (t < b[m - 1]) /\ b[m - 1] \in Int
      BY <1>1, <3>3, <3>4
    <3>6. m - 1 \in hits
      BY <1>1, <3>3, <3>4, <3>5
    <3> QED
      BY <3>6
  <2> QED
    BY <2>1, <2>2
<1>8. ASSUME t < b[1] PROVE hits = {}
  <2> SUFFICES ASSUME NEW i \in hits PROVE FALSE
    OBVIOUS
  <2>1. i \in 1 .. n /\ b[i] <= t /\ b[1] <= b[i]
    BY <1>1, <1>2
  <2> QED
    BY <1>1, <1>8, <2>1
<1>9. ASSUME NEW i \in hits PROVE Min(hits) = i
  <2>1. hits = {i} /\ i \in Int
    BY <1>5, <1>6, <1>9
  <2> QED
    BY <2>1 DEF Min
<1> HIDE DEF hits
<1>10. CASE hits = {}
  BY <1>1, <1>3, <1>4, <1>7, <1>10
<1>11. CASE hits # {}
  <2>1. PICK i \in hits : TRUE
    BY <1>11
  <2>2. bucketIndex(b, t) = i /\ i \in 1 .. n
    BY <1>4, <1>5, <1>9, <1>11, <2>1
  <2>3. ~ (t < b[1])
    BY <1>8, <1>11
  <2>4. \A k \in 1 .. n : i = k <=> k \in hits
    BY <1>6, <2>1
  <2> QED
    BY <1>1, <1>3, <2>2, <2>3, <2>4
<1> QED
  BY <1>10, <1>11
---------------------------------------------------------------------------
(* The calendar. *)

\* The calendar, as buckets of time.
LEMMA CalendarIs ==
    /\ Midnights \in Seq(Int) /\ Midnights # <<>> /\ Increasing(Midnights)
    /\ Len(Midnights) \in Nat /\ DOMAIN Midnights = 1 .. Len(Midnights)
    /\ \A d \in 1 .. Len(Midnights) : Midnights[d] \in Nat
    /\ \A d, e \in 1 .. Len(Midnights) : d <= e => Midnights[d] <= Midnights[e]
<1>1. Midnights \in Seq(Nat) /\ Midnights \in Seq(Int)
  BY CalendarAssumption, SeqMonotonic
<1>2. Len(Midnights) \in Nat /\ DOMAIN Midnights = 1 .. Len(Midnights)
      /\ \A d \in 1 .. Len(Midnights) : Midnights[d] \in Nat
  BY <1>1, LenProperties, ElementOfSeq
<1>3. Midnights # <<>>
  BY <1>2, InstantsAssumption, EmptySeq
<1>4. Increasing(Midnights)
  BY CalendarAssumption DEF Increasing
<1>5. ASSUME NEW d \in 1 .. Len(Midnights), NEW e \in 1 .. Len(Midnights), d <= e
      PROVE  Midnights[d] <= Midnights[e]
  BY <1>2, <1>4, <1>5 DEF Increasing
<1> QED
  BY <1>1, <1>2, <1>3, <1>4, <1>5

\* Every instant the calendar reaches is in one day.
LEMMA DayIs ==
    ASSUME NEW t \in Int, Midnights[1] <= t
    PROVE  /\ DayOf(t) \in 1 .. Len(Midnights) /\ InBucket(Midnights, DayOf(t), t)
           /\ \A d \in 1 .. Len(Midnights) : InBucket(Midnights, d, t) => d = DayOf(t)
<1> DEFINE k == bucketIndex(Midnights, t)
<1>1. /\ k \in 0 .. Len(Midnights) /\ (k = 0 <=> t < Midnights[1])
      /\ \A d \in 1 .. Len(Midnights) : k = d <=> InBucket(Midnights, d, t)
  BY CalendarIs, BucketOf
<1> HIDE DEF k
<1>2. Midnights[1] \in Int /\ Len(Midnights) \in Nat
  BY CalendarIs, InstantsAssumption
<1>3. k \in 1 .. Len(Midnights) /\ InBucket(Midnights, k, t)
  BY <1>1, <1>2
<1>4. DayOf(t) = CHOOSE d \in 1 .. Len(Midnights) : InBucket(Midnights, d, t)
  BY CalendarIs DEF DayOf, InBucket
<1>5. DayOf(t) \in 1 .. Len(Midnights) /\ InBucket(Midnights, DayOf(t), t)
  BY <1>3, <1>4, Zenon
<1> QED
  BY <1>1, <1>5

\* What the assumption on the instants says of one.
LEMMA InstantIs ==
    ASSUME NEW t \in Instants
    PROVE  /\ t \in Nat /\ Midnights[1] <= t
           /\ DayOf(t) \in 1 .. Len(Midnights) /\ InBucket(Midnights, DayOf(t), t)
           /\ \A d \in 1 .. Len(Midnights) : InBucket(Midnights, d, t) => d = DayOf(t)
<1>1. t \in Nat /\ t \in Int /\ Midnights[1] <= t
  BY InstantsAssumption
<1> QED
  BY <1>1, DayIs

\* An instant from which the page can look back.
LEMMA ReachedIs ==
    ASSUME NEW t \in Reached
    PROVE  /\ t \in Instants /\ t \in Nat
           /\ DayOf(t) \in 30 .. Len(Midnights)
           /\ Midnights[MonthFirst[1]] <= t
<1>1. t \in Instants /\ Midnights[30] <= t /\ Midnights[MonthFirst[1]] <= t
  BY DEF Reached
<1>2. t \in Nat /\ DayOf(t) \in 1 .. Len(Midnights) /\ InBucket(Midnights, DayOf(t), t)
  BY <1>1, InstantIs
<1>3. Len(Midnights) >= 30 /\ Len(Midnights) \in Nat
  BY InstantsAssumption, CalendarIs
<1>4. DayOf(t) >= 30
  <2> SUFFICES ASSUME ~ (DayOf(t) >= 30) PROVE FALSE
    OBVIOUS
  <2> DEFINE e == DayOf(t) + 1
  <2>1. e \in 1 .. Len(Midnights) /\ e <= 30 /\ t < Midnights[e]
    BY <1>2, <1>3 DEF InBucket
  <2>2. 30 \in 1 .. Len(Midnights)
    BY <1>3
  <2> HIDE DEF e
  <2>3. Midnights[e] <= Midnights[30] /\ Midnights[e] \in Nat /\ Midnights[30] \in Nat
    BY <2>1, <2>2, CalendarIs
  <2> QED
    BY <1>1, <1>2, <2>1, <2>3
<1> QED
  BY <1>1, <1>2, <1>3, <1>4

\* The last n days.
LEMMA LastDaysIs ==
    ASSUME NEW t \in Reached, NEW n \in 1 .. 30
    PROVE  /\ LastDays(t, n) \in Seq(Int) /\ Len(LastDays(t, n)) = n
           /\ \A i \in 1 .. n : LastDays(t, n)[i] = Midnights[DayOf(t) - n + i]
           /\ Increasing(LastDays(t, n))
<1> DEFINE d == DayOf(t)
           b == LastDays(t, n)
<1>1. d \in 30 .. Len(Midnights) /\ Len(Midnights) \in Nat
  BY ReachedIs, CalendarIs
<1>2. \A i \in d - n + 1 .. d : i \in 1 .. Len(Midnights) /\ Midnights[i] \in Int
  BY <1>1, CalendarIs
<1> HIDE DEF d
<1> DEFINE lo == d - n + 1
<1>3. lo \in Int /\ d \in Int /\ lo <= d /\ d - lo + 1 = n
  BY <1>1
<1>4. /\ SubSeq(Midnights, lo, d) \in Seq(Int)
      /\ Len(SubSeq(Midnights, lo, d)) = IF lo <= d THEN d - lo + 1 ELSE 0
      /\ \A i \in 1 .. d - lo + 1 : SubSeq(Midnights, lo, d)[i] = Midnights[lo + i - 1]
  <2>1. \A i \in lo .. d : Midnights[i] \in Int
    BY <1>2
  <2> HIDE DEF lo
  <2> QED
    BY <1>3, <2>1, CalendarIs, SubSeqProperties
<1>5. b = SubSeq(Midnights, lo, d)
  BY DEF LastDays, d
<1> HIDE DEF b
<1>6. b \in Seq(Int) /\ Len(b) = n
  BY <1>3, <1>4, <1>5
<1>7. \A i \in 1 .. n : b[i] = Midnights[d - n + i]
  <2> TAKE i \in 1 .. n
  <2>1. i \in 1 .. d - lo + 1 /\ lo + i - 1 = d - n + i
    BY <1>1, <1>3
  <2> QED
    BY <1>4, <1>5, <2>1
<1>8. Increasing(b)
  <2> SUFFICES ASSUME NEW i \in 1 .. n, NEW j \in 1 .. n, i < j PROVE b[i] < b[j]
    BY <1>6, LenProperties DEF Increasing
  <2> DEFINE k == d - n + i
             l == d - n + j
  <2>1. k \in 1 .. Len(Midnights) /\ l \in 1 .. Len(Midnights) /\ k < l
    BY <1>1
  <2>2. b[i] = Midnights[k] /\ b[j] = Midnights[l]
    BY <1>7
  <2> HIDE DEF k, l
  <2> QED
    BY <2>1, <2>2, CalendarIs DEF Increasing
<1> QED
  BY <1>6, <1>7, <1>8 DEF b, d

\* The first instants of the months.
Firsts == [m \in DOMAIN MonthFirst |-> Midnights[MonthFirst[m]]]

\* The months of the year, as buckets of time.
LEMMA FirstsIs ==
    /\ Firsts \in Seq(Int) /\ Firsts # <<>> /\ Increasing(Firsts)
    /\ Len(Firsts) = Len(MonthFirst) /\ Len(Firsts) \in Nat \ {0}
    /\ DOMAIN Firsts = 1 .. Len(Firsts) /\ DOMAIN MonthFirst = 1 .. Len(Firsts)
    /\ \A m \in 1 .. Len(Firsts) : Firsts[m] = startOfMonth(m) /\ Firsts[m] \in Nat
<1>1. MonthFirst \in Seq(1 .. Len(Midnights)) /\ MonthFirst # <<>>
  BY CalendarAssumption, InstantsAssumption, CalendarIs
<1>2. /\ Len(MonthFirst) \in Nat \ {0} /\ DOMAIN MonthFirst = 1 .. Len(MonthFirst)
      /\ \A m \in 1 .. Len(MonthFirst) : MonthFirst[m] \in 1 .. Len(Midnights)
  BY <1>1, LenProperties, ElementOfSeq, EmptySeq
<1>3. \A m \in 1 .. Len(MonthFirst) : Midnights[MonthFirst[m]] \in Nat
  BY <1>2, CalendarIs
<1>4. Firsts \in [1 .. Len(MonthFirst) -> Int]
  BY <1>2, <1>3 DEF Firsts
<1>5. Firsts \in Seq(Int) /\ Len(Firsts) = Len(MonthFirst)
  BY <1>2, <1>4, FunctionIsSeq
<1>6. Firsts # <<>>
  BY <1>2, <1>5, EmptySeq
<1>7. Increasing(Firsts)
  <2> SUFFICES ASSUME NEW i \in 1 .. Len(MonthFirst), NEW j \in 1 .. Len(MonthFirst), i < j
               PROVE  Firsts[i] < Firsts[j]
    BY <1>2 DEF Increasing, Firsts
  <2>1. MonthFirst[i] < MonthFirst[j]
    BY <1>2, CalendarAssumption
  <2>2. Midnights[MonthFirst[i]] < Midnights[MonthFirst[j]]
    BY <1>2, <2>1, CalendarIs DEF Increasing
  <2> QED
    BY <1>2, <2>2 DEF Firsts
<1> QED
  BY <1>2, <1>3, <1>5, <1>6, <1>7 DEF Firsts, startOfMonth

\* The months that have begun are the first ones of the year.
LEMMA MonthsIs ==
    ASSUME NEW t \in Reached
    PROVE  LET c == Cardinality(MonthsBegun(t))
           IN  c \in 1 .. Len(Firsts) /\ MonthsBegun(t) = 1 .. c
<1> DEFINE c == bucketIndex(Firsts, t)
<1>1. t \in Int /\ Firsts[1] <= t
  BY ReachedIs, FirstsIs DEF startOfMonth
<1>2. /\ c \in 0 .. Len(Firsts) /\ (c = 0 <=> t < Firsts[1])
      /\ \A m \in 1 .. Len(Firsts) : c = m <=> InBucket(Firsts, m, t)
  BY <1>1, FirstsIs, BucketOf
<1> HIDE DEF c
<1>3. c \in 1 .. Len(Firsts) /\ InBucket(Firsts, c, t) /\ Len(Firsts) \in Nat
  <2>1. Firsts[1] \in Nat
    BY FirstsIs
  <2> QED
    BY <1>1, <1>2, <2>1, FirstsIs
<1>8. \A m \in 1 .. Len(Firsts) : Firsts[m] \in Nat
  BY FirstsIs
<1>4. MonthsBegun(t) = {m \in 1 .. Len(Firsts) : Firsts[m] <= t}
  BY FirstsIs DEF MonthsBegun, Firsts
<1>9. \A i, j \in 1 .. Len(Firsts) : i < j => Firsts[i] < Firsts[j]
  BY FirstsIs DEF Increasing
<1>5. ASSUME NEW m \in 1 .. Len(Firsts) PROVE Firsts[m] <= t <=> m \in 1 .. c
  <2> USE <1>8
  <2>1. Firsts[m] \in Int /\ Firsts[c] \in Int /\ Firsts[c] <= t
    BY <1>3 DEF InBucket
  <2>2. CASE m <= c
    <3>1. m = c \/ Firsts[m] < Firsts[c]
      BY <1>3, <1>9, <2>2
    <3> QED
      BY <1>1, <1>3, <2>1, <2>2, <3>1
  <2>3. CASE c < m
    <3> DEFINE n == c + 1
    <3>1. n \in 1 .. Len(Firsts) /\ n <= m /\ t < Firsts[n] /\ Firsts[n] \in Int
      BY <1>3, <2>3 DEF InBucket
    <3> HIDE DEF n
    <3>2. n = m \/ Firsts[n] < Firsts[m]
      BY <1>9, <3>1
    <3> QED
      BY <1>1, <1>3, <2>1, <2>3, <3>1, <3>2
  <2> QED
    BY <1>3, <2>2, <2>3
<1>6. MonthsBegun(t) = 1 .. c
  BY <1>3, <1>4, <1>5
<1>7. Cardinality(1 .. c) = c
  BY <1>3, FS_Interval
<1> QED
  BY <1>3, <1>6, <1>7

\* The buckets of a chart follow one another.
LEMMA BucketsFollow ==
    ASSUME NEW r \in Ranges, NEW t \in Reached
    PROVE  /\ bucketsFor(r, t) \in Seq(Int) /\ bucketsFor(r, t) # <<>>
           /\ Increasing(bucketsFor(r, t))
<1>1. t \in Int /\ t % Quarter \in Int /\ t % Hour \in Int /\ Quarter \in Nat \ {0} /\ Hour \in Nat \ {0}
  BY ReachedIs, CalendarAssumption
<1>2. ASSUME NEW n \in Nat \ {0}, NEW w \in Nat \ {0}, NEW u \in Int, NEW b \in [1 .. n -> Int],
             \A i \in 1 .. n : b[i] = u - (n - i) * w
      PROVE  b \in Seq(Int) /\ b # <<>> /\ Increasing(b)
  <2>1. ASSUME NEW i \in 1 .. n, NEW j \in 1 .. n, i < j PROVE b[i] < b[j]
    <3>1. (n - j) * w < (n - i) * w
      BY <1>2, <2>1
    <3>2. b[i] = u - (n - i) * w /\ b[j] = u - (n - j) * w
      BY <1>2
    <3> QED
      BY <3>1, <3>2
  <2>2. b \in Seq(Int) /\ Len(b) = n /\ DOMAIN b = 1 .. n
    BY FunctionIsSeq
  <2>3. b # <<>>
    BY <2>2, EmptySeq
  <2> QED
    BY <2>1, <2>2, <2>3 DEF Increasing
<1>3. CASE r = "15m"
  <2> DEFINE b == bucketsFor(r, t)
             u == t - (t % Quarter)
  <2>1. b = [i \in 1 .. 8 |-> u - (8 - i) * Quarter]
    BY <1>3 DEF bucketsFor
  <2>2. u \in Int /\ 8 \in Nat \ {0}
    BY <1>1
  <2> HIDE DEF b, u
  <2>3. b \in [1 .. 8 -> Int] /\ \A i \in 1 .. 8 : b[i] = u - (8 - i) * Quarter
    BY <1>1, <2>1, <2>2
  <2>4. b \in Seq(Int) /\ b # <<>> /\ Increasing(b)
    BY <1>1, <1>2, <2>2, <2>3
  <2> QED
    BY <2>4 DEF b
<1>4. CASE r = "24h"
  <2> DEFINE b == bucketsFor(r, t)
             u == t - (t % Hour)
  <2>1. b = [i \in 1 .. 24 |-> u - (24 - i) * Hour]
    BY <1>4 DEF bucketsFor
  <2>2. u \in Int /\ 24 \in Nat \ {0}
    BY <1>1
  <2> HIDE DEF b, u
  <2>3. b \in [1 .. 24 -> Int] /\ \A i \in 1 .. 24 : b[i] = u - (24 - i) * Hour
    BY <1>1, <2>1, <2>2
  <2>4. b \in Seq(Int) /\ b # <<>> /\ Increasing(b)
    BY <1>1, <1>2, <2>2, <2>3
  <2> QED
    BY <2>4 DEF b
<1>5. ASSUME NEW n \in 1 .. 30, bucketsFor(r, t) = LastDays(t, n)
      PROVE  /\ bucketsFor(r, t) \in Seq(Int) /\ bucketsFor(r, t) # <<>>
             /\ Increasing(bucketsFor(r, t))
  <2>1. LastDays(t, n) \in Seq(Int) /\ Len(LastDays(t, n)) = n /\ Increasing(LastDays(t, n))
    BY LastDaysIs
  <2>2. LastDays(t, n) # <<>>
    BY <2>1, EmptySeq
  <2> QED
    BY <1>5, <2>1, <2>2
<1>6. CASE r = "7d"
  BY <1>5, <1>6 DEF bucketsFor
<1>7. CASE r = "30d"
  BY <1>5, <1>7 DEF bucketsFor
<1>8. CASE r = "ytd"
  <2> DEFINE c == Cardinality(MonthsBegun(t))
             b == [i \in 1 .. c |-> startOfMonth(i)]
  <2>1. c \in 1 .. Len(Firsts)
    BY MonthsIs
  <2>2. bucketsFor(r, t) = b
    BY <1>8 DEF bucketsFor
  <2> HIDE DEF c
  <2>3. \A i \in 1 .. c : b[i] = Firsts[i] /\ Firsts[i] \in Int
    BY <2>1, FirstsIs
  <2>4. c \in Nat \ {0} /\ b \in [1 .. c -> Int]
    BY <2>1, <2>3, FirstsIs
  <2>5. Increasing(b)
    BY <2>1, <2>3, FirstsIs DEF Increasing
  <2> HIDE DEF b
  <2>6. b \in Seq(Int) /\ Len(b) = c
    BY <2>4, FunctionIsSeq
  <2>7. b # <<>>
    BY <2>4, <2>6, EmptySeq
  <2> QED
    BY <2>2, <2>5, <2>6, <2>7
<1> QED
  BY <1>3, <1>4, <1>6, <1>7, <1>8 DEF Ranges
---------------------------------------------------------------------------
(* What the page holds. *)

\* The events a history may hold.
Recordable == {[e EXCEPT !.time = t] : e \in Templates, t \in Instants}

\* The asking prices a page may hold: numbers.
PriceTables == {prices \in PriceLists \cup {NoPrices} :
             \A m \in DOMAIN prices : prices[m].input \in Int /\ prices[m].output \in Int}

\* The inductive invariant of the figures: what was brought is a history up to
\* now, with prices that are numbers.
Typed ==
    /\ now \in Reached
    /\ data \in [events : Seq(Recordable), prices : PriceTables, backends : {{}, Backends},
                 ready : SUBSET Backends, offers : SUBSET Models, live : Nat]
    /\ \A i \in DOMAIN data.events : data.events[i].time <= now

\* The numbers of an event.
LEMMA RecordableIs ==
    ASSUME NEW e \in Recordable
    PROVE  /\ e.time \in Instants /\ e.time \in Nat
           /\ e.duration \in Nat /\ e.input \in Nat /\ e.output \in Nat /\ e.total \in Nat
<1>1. PICK x \in Templates, t \in Instants : e = [x EXCEPT !.time = t]
  BY DEF Recordable
<1>2. t \in Nat
  BY InstantIs
<1> QED
  BY <1>1, <1>2, HistoryAssumption

\* What the server may hold are such prices.
LEMMA PricesAreTables ==
    /\ \A prices \in PriceLists : prices \in PriceTables
    /\ NoPrices \in PriceTables
BY PricesAssumption DEF PriceTables, NoPrices

\* The first state.
LEMMA TypedAtFirst == ASSUME Init PROVE Typed
<1>1. NoPrices \in PriceTables
  BY PricesAreTables
<1> QED
  BY <1>1 DEF Init, Typed, emptyData

\* A refresh brings an event no older than those before it.
LEMMA TypedByRefresh == ASSUME Typed, Refresh PROVE Typed'
<1>1. now \in Nat /\ now' \in Reached /\ now' \in Nat /\ now <= now'
  <2>1. now \in Reached /\ now' \in Reached /\ now <= now'
    BY DEF Refresh, Draw, Typed
  <2> QED
    BY <2>1, ReachedIs
<1>2. \A i \in DOMAIN data.events : data.events[i].time <= now'
  <2> TAKE i \in DOMAIN data.events
  <2>1. data.events \in Seq(Recordable)
    BY DEF Typed
  <2>2. data.events[i].time \in Nat /\ data.events[i].time <= now
    BY <2>1, ElementOfSeq, RecordableIs DEF Typed
  <2> QED
    BY <1>1, <2>2
<1>3. ASSUME NEW e \in Recorded(now')
      PROVE  /\ <<e>> \o data.events \in Seq(Recordable)
             /\ \A i \in DOMAIN (<<e>> \o data.events) : (<<e>> \o data.events)[i].time <= now'
  <2>1. e \in Recordable /\ e.time <= now'
    <3>1. PICK x \in Templates, t \in Instants : e = [x EXCEPT !.time = t] /\ t <= now'
      BY DEF Recorded
    <3>2. e.time = t
      BY <3>1, HistoryAssumption
    <3> QED
      BY <3>1, <3>2 DEF Recordable
  <2>2. data.events \in Seq(Recordable) /\ <<e>> \in Seq(Recordable)
    BY <2>1 DEF Typed
  <2> DEFINE list == <<e>> \o data.events
  <2>3. list \in Seq(Recordable) /\ Len(list) = 1 + Len(data.events)
        /\ DOMAIN list = 1 .. Len(list) /\ DOMAIN data.events = 1 .. Len(data.events)
        /\ Len(data.events) \in Nat
    BY <2>2, ConcatProperties, LenProperties
  <2>4. \A i \in 1 .. Len(list) : list[i] = IF i = 1 THEN e ELSE data.events[i - 1]
    BY <2>2
  <2> HIDE DEF list
  <2>5. ASSUME NEW i \in 1 .. Len(list) PROVE list[i].time <= now'
    <3>1. CASE i = 1
      BY <2>1, <2>4, <3>1
    <3>2. CASE i # 1
      <4>1. i - 1 \in DOMAIN data.events
        BY <2>3, <3>2
      <4> QED
        BY <1>2, <2>4, <3>2, <4>1
    <3> QED
      BY <3>1, <3>2
  <2>6. list \in Seq(Recordable) /\ \A i \in DOMAIN list : list[i].time <= now'
    BY <2>3, <2>5
  <2> QED
    BY <2>6 DEF list
<1>4. ASSUME NEW history \in Histories(now')
      PROVE  history \in Seq(Recordable) /\ \A i \in DOMAIN history : history[i].time <= now'
  <2>1. CASE history = data.events
    BY <1>2, <2>1 DEF Typed
  <2>2. CASE history # data.events
    <3>1. PICK e \in Recorded(now') : history = <<e>> \o data.events
      BY <2>2 DEF Histories
    <3> QED
      BY <1>3, <3>1
  <2> QED
    BY <2>1, <2>2
<1>5. PICK history \in Histories(now'), prices \in PriceLists, l \in Listings :
          data' = [events |-> history, prices |-> prices, backends |-> Backends,
                   ready |-> l.ready, offers |-> l.offers, live |-> l.live]
  BY DEF Refresh
<1>6. prices \in PriceTables /\ l \in [ready : SUBSET Backends, offers : SUBSET Models, live : Nat]
  BY PricesAreTables, ListingsAssumption
<1> QED
  BY <1>1, <1>4, <1>5, <1>6 DEF Typed

\* Every step keeps the figures typed: time does not run backwards.
LEMMA TypedByStep == ASSUME Typed, [Next]_vars PROVE Typed'
<1>1. ASSUME UNCHANGED data, now' \in Reached, now <= now' PROVE Typed'
  <2>1. now \in Nat /\ now' \in Nat
    BY <1>1, ReachedIs DEF Typed
  <2>2. ASSUME NEW i \in DOMAIN data.events PROVE data.events[i].time <= now'
    <3>1. data.events \in Seq(Recordable)
      BY DEF Typed
    <3>2. data.events[i].time \in Nat /\ data.events[i].time <= now
      BY <3>1, ElementOfSeq, RecordableIs DEF Typed
    <3> QED
      BY <1>1, <2>1, <3>2
  <2> QED
    BY <1>1, <2>2 DEF Typed
<1>2. CASE Refresh
  BY <1>2, TypedByRefresh
<1>3. CASE SelectTab \/ FollowAttention \/ ChooseRange
  BY <1>1, <1>3 DEF SelectTab, FollowAttention, ChooseRange, Draw
<1>4. CASE DragStart \/ Drop \/ DragEnd \/ toggleSidebar \/ toggle \/ preset \/ UNCHANGED vars
  BY <1>4 DEF DragStart, Drop, DragEnd, toggleSidebar, toggle, preset, SetGrid, vars, Typed
<1>5. CASE Reload
  <2>1. now' \in Reached /\ data' = emptyData
    BY <1>5 DEF Reload, Draw
  <2> QED
    BY <2>1, PricesAreTables DEF Typed, emptyData
<1> QED
  BY <1>2, <1>3, <1>4, <1>5 DEF Next, UserStep

\* In every state, what the page computes with are numbers, and nothing it holds
\* was recorded after now.
THEOREM TypedHolds == Spec => []Typed
<1>1. Init => Typed
  BY TypedAtFirst
<1>2. Typed /\ [Next]_vars => Typed'
  BY TypedByStep
<1> QED
  BY <1>1, <1>2, PTL DEF Spec
---------------------------------------------------------------------------
(* The numbers of a history, and the buckets of a chart. *)

\* The functions that give an event one of its numbers.
RevenueBy(prices) == [e \in Recordable |-> revenueOf(e, prices)]
TokensBy == [e \in Recordable |-> tokensOf(e)]
InputBy == [e \in Recordable |-> InputOf(e)]
OutputBy == [e \in Recordable |-> OutputOf(e)]

\* No event earns or counts less than nothing.
LEMMA NumbersAre ==
    ASSUME NEW e \in Recordable
    PROVE  /\ tokensOf(e) \in Nat /\ InputOf(e) \in Nat /\ OutputOf(e) \in Nat
           /\ \A prices \in PriceTables : revenueOf(e, prices) \in Nat
<1>1. /\ e.time \in Nat /\ e.duration \in Nat /\ e.input \in Nat /\ e.output \in Nat /\ e.total \in Nat
  BY RecordableIs
<1>2. tokensOf(e) \in Nat /\ InputOf(e) \in Nat /\ OutputOf(e) \in Nat
  BY <1>1 DEF tokensOf, InputOf, OutputOf
<1>3. ASSUME NEW prices \in PriceTables PROVE revenueOf(e, prices) \in Nat
  <2> SUFFICES ASSUME isPriced(prices, e.model)
               PROVE  e.input * Larger(parsePrice(prices[e.model].input), 0)
                        + e.output * Larger(parsePrice(prices[e.model].output), 0) \in Nat
    BY DEF revenueOf
  <2> DEFINE p == Larger(parsePrice(prices[e.model].input), 0)
             q == Larger(parsePrice(prices[e.model].output), 0)
  <2>1. prices[e.model].input \in Int /\ prices[e.model].output \in Int
    BY DEF isPriced, PriceTables
  <2>2. p \in Nat /\ q \in Nat
    BY <2>1 DEF Larger, parsePrice, Null
  <2> HIDE DEF p, q
  <2>3. \A x, y \in Nat : x * y \in Nat
    OBVIOUS
  <2>4. e.input * p \in Nat /\ e.output * q \in Nat
    BY <1>1, <2>2, <2>3
  <2> QED
    BY <2>4 DEF p, q
<1> QED
  BY <1>2, <1>3

\* So do the functions that give the numbers.
LEMMA NumberFunctions ==
    /\ TokensBy \in [Recordable -> Nat] /\ InputBy \in [Recordable -> Nat]
    /\ OutputBy \in [Recordable -> Nat]
    /\ \A prices \in PriceTables : RevenueBy(prices) \in [Recordable -> Nat]
BY NumbersAre DEF TokensBy, InputBy, OutputBy, RevenueBy

\* The numbers of a history are the images of its events.
LEMMA NumbersOf ==
    ASSUME NEW list \in Seq(Recordable)
    PROVE  /\ Tokens(list) = Images(TokensBy, list)
           /\ Inputs(list) = Images(InputBy, list)
           /\ Outputs(list) = Images(OutputBy, list)
           /\ \A prices : Revenues(list, prices) = Images(RevenueBy(prices), list)
<1>1. \A i \in DOMAIN list : list[i] \in Recordable
  BY ElementOfSeq, LenProperties
<1> QED
  BY <1>1 DEF Tokens, Inputs, Outputs, Revenues, Images, TokensBy, InputBy, OutputBy, RevenueBy

\* The buckets of the events of a history.
Indexed(b, list) == [i \in DOMAIN list |-> bucketIndex(b, list[i].time)]

\* Each event is in the bucket of its time.
LEMMA IndexedIs ==
    ASSUME NEW b \in Seq(Int), b # <<>>, Increasing(b), NEW list \in Seq(Recordable)
    PROVE  /\ Len(b) \in Nat /\ DOMAIN list = 1 .. Len(list) /\ Len(list) \in Nat
           /\ Indexed(b, list) \in [1 .. Len(list) -> 0 .. Len(b)]
           /\ \A i \in 1 .. Len(list) :
                 /\ list[i] \in Recordable
                 /\ \A k \in 1 .. Len(b) : Indexed(b, list)[i] = k <=> InBucket(b, k, list[i].time)
                 /\ Indexed(b, list)[i] = 0 <=> list[i].time < b[1]
<1>1. Len(list) \in Nat /\ DOMAIN list = 1 .. Len(list) /\ Len(b) \in Nat
      /\ \A i \in 1 .. Len(list) : list[i] \in Recordable
  BY LenProperties, ElementOfSeq
<1>2. ASSUME NEW i \in 1 .. Len(list)
      PROVE  /\ bucketIndex(b, list[i].time) \in 0 .. Len(b)
             /\ \A k \in 1 .. Len(b) : bucketIndex(b, list[i].time) = k <=> InBucket(b, k, list[i].time)
             /\ bucketIndex(b, list[i].time) = 0 <=> list[i].time < b[1]
  <2>1. list[i].time \in Int
    BY <1>1, RecordableIs
  <2> QED
    BY <2>1, BucketOf
<1>3. \A i \in 1 .. Len(list) : Indexed(b, list)[i] = bucketIndex(b, list[i].time)
  BY <1>1 DEF Indexed
<1>4. Indexed(b, list) \in [1 .. Len(list) -> 0 .. Len(b)]
  BY <1>1, <1>2 DEF Indexed
<1> QED
  BY <1>1, <1>2, <1>3, <1>4

\* What a bucket shows is the sum over the events in it.
LEMMA BucketSum ==
    ASSUME NEW b \in Seq(Int), b # <<>>, Increasing(b),
           NEW list \in Seq(Recordable), NEW f \in [Recordable -> Int]
    PROVE  /\ Shared(Images(f, list), Indexed(b, list), Len(b)) \in [1 .. Len(b) -> Int]
           /\ \A k \in 1 .. Len(b) :
                 Shared(Images(f, list), Indexed(b, list), Len(b))[k]
                   = Total([i \in 1 .. Len(list) |-> IF Indexed(b, list)[i] = k THEN f[list[i]] ELSE 0])
<1> DEFINE m == Len(list)
           n == Len(b)
           index == Indexed(b, list)
           x == Images(f, list)
           T(k) == Total([i \in 1 .. m |-> IF index[i] = k THEN x[i] ELSE 0])
<1>1. m \in Nat /\ n \in Nat /\ index \in [1 .. m -> 0 .. n]
  BY IndexedIs
<1>2. x \in [1 .. m -> Int] /\ \A i \in 1 .. m : x[i] = f[list[i]]
  BY ImagesAre
<1> HIDE DEF m, n, index, x
<1>3. Shared(x, index, n) = [k \in 1 .. n |-> T(k)]
  BY <1>1, <1>2, SharedIs
<1>4. ASSUME NEW k \in 1 .. n PROVE T(k) \in Int
  <2>1. [i \in 1 .. m |-> IF index[i] = k THEN x[i] ELSE 0] \in [1 .. m -> Int]
    BY <1>2
  <2> QED
    BY <1>1, <2>1, TotalType
<1>5. \A k \in 1 .. n : [i \in 1 .. m |-> IF index[i] = k THEN x[i] ELSE 0]
                          = [i \in 1 .. m |-> IF index[i] = k THEN f[list[i]] ELSE 0]
  BY <1>2
<1> QED
  BY <1>3, <1>4, <1>5 DEF m, n, index, x

\* All buckets together show the events since the first.
LEMMA BucketsShareOut ==
    ASSUME NEW b \in Seq(Int), b # <<>>, Increasing(b),
           NEW list \in Seq(Recordable), NEW f \in [Recordable -> Int]
    PROVE  Total(Shared(Images(f, list), Indexed(b, list), Len(b)))
             = Total(Images(f, eventsSince(list, b[1], Forever)))
<1> DEFINE m == Len(list)
           n == Len(b)
           index == Indexed(b, list)
           x == Images(f, list)
           late == {i \in 1 .. m : index[i] # 0}
           since == {e \in Range(list) : e.time >= b[1] /\ (Forever = Forever \/ e.time < Forever)}
<1>1. /\ m \in Nat /\ n \in Nat /\ index \in [1 .. m -> 0 .. n] /\ DOMAIN list = 1 .. m
      /\ \A i \in 1 .. m : list[i] \in Recordable /\ (index[i] = 0 <=> list[i].time < b[1])
  BY IndexedIs
<1>2. x \in [1 .. m -> Int] /\ \A i \in 1 .. m : x[i] = f[list[i]]
  BY ImagesAre
<1>3. ASSUME NEW i \in 1 .. m PROVE list[i] \in since <=> i \in late
  <2>1. list[i].time \in Nat /\ list[i] \in Range(list)
    BY <1>1, RecordableIs DEF Range
  <2>2. b[1] \in Int
    BY EmptySeq, ElementOfSeq, LenProperties
  <2> QED
    BY <1>1, <2>1, <2>2
<1>4. eventsSince(list, b[1], Forever) = Where(list, since)
  BY DEF eventsSince
<1> HIDE DEF index, x, since
<1>6. Total(Images(f, Where(list, since))) = Total(Chosen(f, list, late))
  <2>1. \A i \in 1 .. Len(list) : list[i] \in since <=> i \in late
    BY <1>3
  <2> HIDE DEF late
  <2>2. list \in Seq(Recordable) /\ f \in [Recordable -> Int]
    OBVIOUS
  <2>3. ASSUME NEW T, NEW P, \A i \in 1 .. Len(list) : list[i] \in T <=> i \in P
        PROVE  Total(Images(f, Where(list, T))) = Total(Chosen(f, list, P))
    BY <2>2, <2>3, TotalOfKept
  <2> HIDE DEF m, n
  <2> QED
    BY <2>1, <2>3
<1>7. Chosen(f, list, late) = [i \in 1 .. m |-> IF index[i] # 0 THEN x[i] ELSE 0]
  BY <1>2 DEF Chosen
<1> HIDE DEF m, n, late
<1>8. Shared(x, index, n) = [k \in 1 .. n |-> Total([i \in 1 .. m |-> IF index[i] = k THEN x[i] ELSE 0])]
  BY <1>1, <1>2, SharedIs
<1>9. Total([k \in 1 .. n |-> Total([i \in 1 .. m |-> IF index[i] = k THEN x[i] ELSE 0])])
        = Total([i \in 1 .. m |-> IF index[i] # 0 THEN x[i] ELSE 0])
  BY <1>1, <1>2, SharedOut
<1> QED
  BY <1>4, <1>6, <1>7, <1>8, <1>9 DEF n, index, x
---------------------------------------------------------------------------
(* Charts. *)

\* What the buckets b of a chart show of the numbers f of a history.
InBuckets(f, list, b) == Shared(Images(f, list), Indexed(b, list), Len(b))

\* The rows of a chart.
LEMMA SeriesIs ==
    ASSUME NEW list \in Seq(Recordable), NEW prices \in PriceTables, NEW r, NEW t
    PROVE  LET c == series(list, prices, r, t)
               b == bucketsFor(r, t)
           IN  /\ c.revenue = InBuckets(RevenueBy(prices), list, b)
               /\ c.tokens = InBuckets(TokensBy, list, b)
               /\ c.inputTokens = InBuckets(InputBy, list, b)
               /\ c.outputTokens = InBuckets(OutputBy, list, b)
<1> DEFINE b == bucketsFor(r, t)
           index == [i \in DOMAIN list |-> bucketIndex(b, list[i].time)]
           c == series(list, prices, r, t)
<1>1. /\ c.revenue = Shared(Revenues(list, prices), index, Len(b))
      /\ c.tokens = Shared(Tokens(list), index, Len(b))
      /\ c.inputTokens = Shared(Inputs(list), index, Len(b))
      /\ c.outputTokens = Shared(Outputs(list), index, Len(b))
  BY DEF series
<1>2. index = Indexed(b, list)
  BY DEF Indexed
<1> HIDE DEF index, b, c
<1>3. /\ Tokens(list) = Images(TokensBy, list) /\ Inputs(list) = Images(InputBy, list)
      /\ Outputs(list) = Images(OutputBy, list)
      /\ Revenues(list, prices) = Images(RevenueBy(prices), list)
  BY NumbersOf
<1> QED
  BY <1>1, <1>2, <1>3 DEF InBuckets, b, c

\* The history the page holds, and what it keeps of it.
LEMMA EventsAre ==
    ASSUME Typed
    PROVE  /\ events \in Seq(Recordable) /\ data.prices \in PriceTables /\ now \in Reached
           /\ \A i \in DOMAIN events : events[i].time <= now
           /\ data.live \in Nat
<1>1. data.events \in Seq(Recordable) /\ data.prices \in PriceTables /\ now \in Reached /\ data.live \in Nat
  BY DEF Typed
<1> DEFINE T == {e \in Range(data.events) : e.kind = "request"}
<1>2. events = Where(data.events, T)
  BY DEF events, requestEvents
<1> HIDE DEF T
<1>3. events \in Seq(Recordable)
  BY <1>1, <1>2, KeptIsOf
<1>4. ASSUME NEW i \in DOMAIN events PROVE events[i].time <= now
  <2>1. PICK j \in DOMAIN data.events : events[i] = data.events[j]
    BY <1>1, <1>2, WhereFrom
  <2> QED
    BY <2>1 DEF Typed
<1> QED
  BY <1>1, <1>3, <1>4

\* The sums of what is kept, as images.
LEMMA SumsAre ==
    ASSUME NEW list \in Seq(Recordable), NEW prices \in PriceTables
    PROVE  /\ sumRevenue(list, prices) = Total(Images(RevenueBy(prices), list))
           /\ Total(Tokens(list)) = Total(Images(TokensBy, list))
           /\ Total(Inputs(list)) = Total(Images(InputBy, list))
           /\ Total(Outputs(list)) = Total(Images(OutputBy, list))
BY NumbersOf DEF sumRevenue

\* The functions, as numbers that can be added up.
LEMMA IntFunctions ==
    /\ TokensBy \in [Recordable -> Int] /\ InputBy \in [Recordable -> Int]
    /\ OutputBy \in [Recordable -> Int]
    /\ \A prices \in PriceTables : RevenueBy(prices) \in [Recordable -> Int]
BY NumberFunctions

\* All that is typed is partitioned.
LEMMA Partitioned == ASSUME Typed PROVE BucketsPartition
<1> SUFFICES ASSUME NEW r \in Ranges
             PROVE  LET c == chart(r)
                        since == eventsSince(events, bucketsFor(r, now)[1], Forever)
                    IN  /\ Total(c.revenue) = sumRevenue(since, data.prices)
                        /\ Total(c.tokens) = Total(Tokens(since))
                        /\ Total(c.inputTokens) = Total(Inputs(since))
                        /\ Total(c.outputTokens) = Total(Outputs(since))
  BY DEF BucketsPartition
<1> DEFINE b == bucketsFor(r, now)
           c == chart(r)
           since == eventsSince(events, b[1], Forever)
<1>1. events \in Seq(Recordable) /\ data.prices \in PriceTables /\ now \in Reached
  BY EventsAre
<1>2. b \in Seq(Int) /\ b # <<>> /\ Increasing(b)
  BY <1>1, BucketsFollow
<1>3. /\ c.revenue = InBuckets(RevenueBy(data.prices), events, b)
      /\ c.tokens = InBuckets(TokensBy, events, b)
      /\ c.inputTokens = InBuckets(InputBy, events, b)
      /\ c.outputTokens = InBuckets(OutputBy, events, b)
  BY <1>1, SeriesIs DEF chart
<1>4. since \in Seq(Recordable)
  BY <1>1, KeptIsOf DEF eventsSince
<1>5. /\ sumRevenue(since, data.prices) = Total(Images(RevenueBy(data.prices), since))
      /\ Total(Tokens(since)) = Total(Images(TokensBy, since))
      /\ Total(Inputs(since)) = Total(Images(InputBy, since))
      /\ Total(Outputs(since)) = Total(Images(OutputBy, since))
  BY <1>1, <1>4, SumsAre
<1> HIDE DEF b, c
<1>6. ASSUME NEW f \in [Recordable -> Int]
      PROVE  Total(InBuckets(f, events, b)) = Total(Images(f, since))
  BY <1>1, <1>2, BucketsShareOut DEF InBuckets
<1> HIDE DEF since
<1>7. /\ TokensBy \in [Recordable -> Int] /\ InputBy \in [Recordable -> Int]
      /\ OutputBy \in [Recordable -> Int] /\ RevenueBy(data.prices) \in [Recordable -> Int]
  BY <1>1, IntFunctions
<1> QED
  BY <1>3, <1>5, <1>6, <1>7 DEF b, c, since

\* stats.ts:94: in every state, whatever was recorded and whenever the page is
\* drawn, the buckets of each chart share out the requests since the first one.
THEOREM BucketsPartitionHolds == Spec => []BucketsPartition
<1>1. Typed => BucketsPartition
  BY Partitioned
<1> QED
  BY <1>1, TypedHolds, PTL
---------------------------------------------------------------------------
(* Percentiles. *)

\* A rank that is rounded up.
LEMMA CeilingIs ==
    ASSUME NEW n \in Nat \ {0}, NEW p \in 1 .. 100
    PROVE  LET k == Ceiling(p * n, 100)
           IN  k \in 1 .. n /\ 100 * k >= p * n /\ 100 * (k - 1) < p * n
<1> DEFINE q == p * n
<1>1. \A x, y, z \in Nat : x <= y => x * z <= y * z
  OBVIOUS
<1>2. q \in Int /\ 1 * n <= q /\ q <= 100 * n
  <2>1. q \in Int
    OBVIOUS
  <2>2. 1 \in Nat /\ 100 \in Nat /\ p \in Nat /\ n \in Nat /\ 1 <= p /\ p <= 100
    OBVIOUS
  <2> QED
    BY <1>1, <2>1, <2>2
<1> HIDE DEF q
<1>3. LET k == -((-q) \div 100)
      IN  k \in Int /\ 100 * k >= q /\ 100 * (k - 1) < q
  BY <1>2
<1>4. Ceiling(q, 100) = -((-q) \div 100)
  BY DEF Ceiling
<1> QED
  BY <1>2, <1>3, <1>4 DEF q

\* What a percentile of some measurements is.
LEMMA PercentileAt ==
    ASSUME NEW values \in Seq(Int), values # <<>>, NEW p \in 1 .. 100
    PROVE  /\ Len(values) \in Nat \ {0} /\ Ceiling(p * Len(values), 100) \in 1 .. Len(values)
           /\ percentile(values, p) = Ascending(values)[Ceiling(p * Len(values), 100)]
<1> DEFINE n == Len(values)
           k == Ceiling(p * n, 100)
<1>1. n \in Nat \ {0}
  BY EmptySeq, LenProperties
<1>2. k \in 1 .. n
  BY <1>1, CeilingIs
<1>3. Len(Ascending(values)) = n
  BY AscendingIs
<1>4. percentile(values, p)
        = Ascending(values)[Smaller(Len(Ascending(values)) - 1,
                                    Larger(0, Ceiling(p * Len(Ascending(values)), 100) - 1)) + 1]
  BY DEF percentile
<1> HIDE DEF k
<1>5. Smaller(n - 1, Larger(0, k - 1)) + 1 = k
  BY <1>1, <1>2 DEF Smaller, Larger
<1> QED
  BY <1>1, <1>2, <1>3, <1>4, <1>5 DEF k

\* A percentile is the nearest rank.
LEMMA PercentileIsNearestRank ==
    ASSUME NEW values \in Seq(Int), values # <<>>, NEW p \in 1 .. 100
    PROVE  IsNearestRank(percentile(values, p), values, p)
<1> DEFINE n == Len(values)
           k == Ceiling(p * n, 100)
           v == Ascending(values)[k]
           card(x) == Cardinality({i \in DOMAIN values : values[i] <= x})
           need == p * n
<1>1. n \in Nat \ {0} /\ k \in 1 .. n /\ percentile(values, p) = v
  BY PercentileAt
<1>2. 100 * k >= need /\ 100 * (k - 1) < need /\ need \in Int
  <2>1. need \in Int
    BY <1>1
  <2> QED
    BY <1>1, <2>1, CeilingIs
<1> HIDE DEF k
<1>3. /\ \E i \in DOMAIN values : values[i] = v
      /\ v \in Int /\ card(v) \in Nat /\ card(v) >= k
      /\ \A w \in Int : w < v => card(w) \in Nat /\ card(w) < k
  BY <1>1, RankIs
<1>4. \A i \in DOMAIN values : values[i] \in Int
  BY LenProperties, ElementOfSeq
<1> HIDE DEF card, v, need
<1>5. 100 * card(v) >= need
  BY <1>1, <1>2, <1>3
<1>6. ASSUME NEW i \in DOMAIN values, values[i] < v PROVE 100 * card(values[i]) < need
  <2>1. card(values[i]) \in Nat /\ card(values[i]) < k
    BY <1>3, <1>4, <1>6
  <2> QED
    BY <1>1, <1>2, <2>1
<1> QED
  BY <1>1, <1>3, <1>5, <1>6 DEF IsNearestRank, card, need

\* What was measured: numbers of milliseconds, and rates.
LEMMA MeasuredAre ==
    ASSUME NEW list \in Seq(Recordable)
    PROVE  /\ durationsOf(list) \in Seq(Nat \ {0}) /\ durationsOf(list) \in Seq(Int)
           /\ throughputsOf(list) \in Seq(Int)
<1> DEFINE kept == completed(list)
           times == [i \in DOMAIN kept |-> kept[i].duration]
           rates == [i \in DOMAIN list |-> throughputOf(list[i])]
<1>1. kept \in Seq(Recordable)
  BY KeptIsOf DEF completed
<1>2. Len(kept) \in Nat /\ DOMAIN kept = 1 .. Len(kept) /\ \A i \in 1 .. Len(kept) : kept[i] \in Recordable
  BY <1>1, LenProperties, ElementOfSeq
<1>3. Len(list) \in Nat /\ DOMAIN list = 1 .. Len(list) /\ \A i \in 1 .. Len(list) : list[i] \in Recordable
  BY LenProperties, ElementOfSeq
<1>4. durationsOf(list) = Where(times, Nat \ {0}) /\ throughputsOf(list) = Where(rates, Int \ {Null})
  BY DEF durationsOf, throughputsOf
<1> HIDE DEF kept
<1>5. times \in [1 .. Len(kept) -> Nat]
  BY <1>2, RecordableIs
<1>6. ASSUME NEW e \in Recordable PROVE throughputOf(e) \in Int
  <2>1. e.output \in Nat /\ e.duration \in Nat
    BY RecordableIs
  <2> QED
    BY <2>1 DEF throughputOf, HasThroughput, Null
<1>7. rates \in [1 .. Len(list) -> Int]
  BY <1>3, <1>6
<1> HIDE DEF times, rates
<1>8. times \in Seq(Nat) /\ rates \in Seq(Int)
  BY <1>2, <1>3, <1>5, <1>7, FunctionIsSeq
<1>9. Where(times, Nat \ {0}) \in Seq(Nat \cap (Nat \ {0})) /\ Where(rates, Int \ {Null}) \in Seq(Int)
  BY <1>8, WhereType, KeptIsOf
<1>10. Nat \cap (Nat \ {0}) = Nat \ {0} /\ Nat \ {0} \subseteq Int
  OBVIOUS
<1> QED
  BY <1>4, <1>9, <1>10, SeqMonotonic

\* So is every percentile the page shows.
LEMMA RanksAreNearest == ASSUME Typed PROVE NearestRank
<1>1. events \in Seq(Recordable)
  BY EventsAre
<1>2. ASSUME NEW values \in Seq(Int), NEW p \in {50, 95}
      PROVE  IF values = <<>> THEN percentile(values, p) = Null
             ELSE IsNearestRank(percentile(values, p), values, p)
  <2>1. values = <<>> => percentile(values, p) = Null
    BY DEF percentile
  <2>2. p \in 1 .. 100
    OBVIOUS
  <2> QED
    BY <2>1, <2>2, PercentileIsNearestRank
<1>3. durations \in Seq(Int) /\ throughputs \in Seq(Int)
  BY <1>1, MeasuredAre DEF durations, throughputs
<1>4. ASSUME NEW b PROVE durationsOf(own(b)) \in Seq(Int)
  <2>1. own(b) \in Seq(Recordable)
    BY <1>1, KeptIsOf DEF own
  <2> QED
    BY <2>1, MeasuredAre
<1>5. ASSUME NEW m PROVE durationsOf(listOf(events, m)) \in Seq(Int)
  <2>1. listOf(events, m) \in Seq(Recordable)
    BY <1>1, KeptIsOf DEF listOf
  <2> QED
    BY <2>1, MeasuredAre
<1>6. ASSUME NEW values \in {durations, throughputs} \cup
                    {durationsOf(own(b)) : b \in Backends} \cup
                    {durationsOf(listOf(events, m)) : m \in Range(ModelsOf(events))}
      PROVE  values \in Seq(Int)
  BY <1>3, <1>4, <1>5
<1> QED
  BY <1>2, <1>6 DEF NearestRank

\* stats.ts:21: in every state, each percentile the page shows is the least
\* recorded value that enough of the others do not exceed.
THEOREM NearestRankHolds == Spec => []NearestRank
<1>1. Typed => NearestRank
  BY RanksAreNearest
<1> QED
  BY <1>1, TypedHolds, PTL
---------------------------------------------------------------------------
(* The figures of days and months. *)

\* A bucket shows the sum over the events of its stretch of time.
LEMMA BucketIs ==
    ASSUME NEW b \in Seq(Int), b # <<>>, Increasing(b),
           NEW list \in Seq(Recordable), NEW f \in [Recordable -> Int],
           NEW k \in 1 .. Len(b), NEW T,
           \A e \in Range(list) : e \in T <=> InBucket(b, k, e.time)
    PROVE  InBuckets(f, list, b)[k] = Total(Images(f, Where(list, T)))
<1> DEFINE P == {i \in 1 .. Len(list) : Indexed(b, list)[i] = k}
<1>1. DOMAIN list = 1 .. Len(list)
      /\ \A i \in 1 .. Len(list) : Indexed(b, list)[i] = k <=> InBucket(b, k, list[i].time)
  BY IndexedIs
<1>2. \A i \in 1 .. Len(list) : list[i] \in T <=> i \in P
  BY <1>1 DEF Range
<1>3. InBuckets(f, list, b)[k]
        = Total([i \in 1 .. Len(list) |-> IF Indexed(b, list)[i] = k THEN f[list[i]] ELSE 0])
  BY BucketSum DEF InBuckets
<1>4. [i \in 1 .. Len(list) |-> IF Indexed(b, list)[i] = k THEN f[list[i]] ELSE 0] = Chosen(f, list, P)
  BY DEF Chosen
<1>5. ASSUME NEW Q, \A i \in 1 .. Len(list) : list[i] \in T <=> i \in Q
      PROVE  Total(Images(f, Where(list, T))) = Total(Chosen(f, list, Q))
  BY <1>5, TotalOfKept
<1> HIDE DEF P
<1>6. Total(Images(f, Where(list, T))) = Total(Chosen(f, list, P))
  BY <1>2, <1>5
<1> QED
  BY <1>3, <1>4, <1>6

\* The rows of a chart have one number per bucket.
LEMMA InBucketsType ==
    ASSUME NEW b \in Seq(Int), b # <<>>, Increasing(b),
           NEW list \in Seq(Recordable), NEW f \in [Recordable -> Nat]
    PROVE  /\ InBuckets(f, list, b) \in [1 .. Len(b) -> Nat]
           /\ Len(InBuckets(f, list, b)) = Len(b) /\ Len(b) \in Nat \ {0}
           /\ DOMAIN InBuckets(f, list, b) = 1 .. Len(b)
<1> DEFINE v == InBuckets(f, list, b)
<1>1. f \in [Recordable -> Int]
  OBVIOUS
<1>2. /\ v \in [1 .. Len(b) -> Int]
      /\ \A k \in 1 .. Len(b) :
           v[k] = Total([i \in 1 .. Len(list) |-> IF Indexed(b, list)[i] = k THEN f[list[i]] ELSE 0])
  BY <1>1, BucketSum DEF InBuckets
<1>3. Len(list) \in Nat /\ \A i \in 1 .. Len(list) : list[i] \in Recordable
  BY LenProperties, ElementOfSeq
<1> HIDE DEF v
<1>4. ASSUME NEW k \in 1 .. Len(b) PROVE v[k] \in Nat
  <2> DEFINE row == [i \in 1 .. Len(list) |-> IF Indexed(b, list)[i] = k THEN f[list[i]] ELSE 0]
  <2>1. row \in [1 .. Len(list) -> Int] /\ \A i \in 1 .. Len(list) : row[i] >= 0
    BY <1>3
  <2>2. v[k] = Total(row)
    BY <1>2
  <2> HIDE DEF row
  <2> QED
    BY <1>3, <2>1, <2>2, TotalNat
<1>5. v \in [1 .. Len(b) -> Nat]
  BY <1>2, <1>4
<1>6. Len(b) \in Nat \ {0}
  BY EmptySeq, LenProperties
<1>7. Len(v) = Len(b) /\ DOMAIN v = 1 .. Len(b)
  BY <1>5, <1>6, FunctionIsSeq
<1> QED
  BY <1>5, <1>6, <1>7 DEF v

\* The days of this week, and those of the events in it.
LEMMA WeekIs ==
    ASSUME NEW t \in Reached
    PROVE  LET b == LastDays(t, 7)
           IN  /\ b \in Seq(Int) /\ b # <<>> /\ Increasing(b) /\ Len(b) = 7
               /\ b[7] = startOfDay(t, 0) /\ b[6] = startOfDay(t, 1)
               /\ b[7] \in Nat /\ b[6] \in Nat
               /\ b = bucketsFor("7d", t)
<1> DEFINE b == LastDays(t, 7)
           d == DayOf(t)
<1>1. b \in Seq(Int) /\ Len(b) = 7 /\ (\A i \in 1 .. 7 : b[i] = Midnights[d - 7 + i]) /\ Increasing(b)
  BY LastDaysIs
<1>2. b # <<>>
  BY <1>1, EmptySeq
<1>3. d \in 30 .. Len(Midnights) /\ Len(Midnights) \in Nat
  BY ReachedIs, CalendarIs
<1>4. startOfDay(t, 0) = Midnights[d - 0] /\ startOfDay(t, 1) = Midnights[d - 1]
  BY DEF startOfDay
<1> HIDE DEF d, b
<1>5. d - 7 + 7 = d - 0 /\ d - 7 + 6 = d - 1 /\ d - 0 \in 1 .. Len(Midnights) /\ d - 1 \in 1 .. Len(Midnights)
  BY <1>3
<1>6. b[7] = startOfDay(t, 0) /\ b[6] = startOfDay(t, 1)
  BY <1>1, <1>4, <1>5
<1>7. b[7] \in Nat /\ b[6] \in Nat
  BY <1>4, <1>5, <1>6, CalendarIs
<1>8. b = bucketsFor("7d", t)
  BY DEF bucketsFor, b
<1> QED
  BY <1>1, <1>2, <1>6, <1>7, <1>8 DEF b

\* The revenue of a stretch of days, beside the chart and in it.
LEMMA RevenueOfDays ==
    ASSUME Typed
    PROVE  /\ revenueToday = chart("7d").revenue[7]
           /\ revenueYesterday = chart("7d").revenue[6]
           /\ revenueToday \in Nat /\ revenueYesterday \in Nat
<1> DEFINE b == LastDays(now, 7)
           f == RevenueBy(data.prices)
           v == InBuckets(f, events, b)
           start == startOfDay(now, 0)
           before == startOfDay(now, 1)
           today == {e \in Range(events) : e.time >= start /\ (Forever = Forever \/ e.time < Forever)}
           yesterday == {e \in Range(events) : e.time >= before /\ (start = Forever \/ e.time < start)}
<1>1. events \in Seq(Recordable) /\ data.prices \in PriceTables /\ now \in Reached
  BY EventsAre
<1>2. /\ b \in Seq(Int) /\ b # <<>> /\ Increasing(b) /\ Len(b) = 7
      /\ b[7] = start /\ b[6] = before /\ start \in Nat /\ before \in Nat
      /\ b = bucketsFor("7d", now)
  BY <1>1, WeekIs
<1>3. f \in [Recordable -> Int] /\ f \in [Recordable -> Nat]
  BY <1>1, NumberFunctions
<1>4. chart("7d").revenue = v
  BY <1>1, <1>2, SeriesIs DEF chart
<1>5. \A e \in Range(events) : e.time \in Nat
  BY <1>1, RecordableIs, ElementOfSeq, LenProperties DEF Range
<1> HIDE DEF b, f, start, before
<1>6. \A e \in Range(events) : e \in today <=> InBucket(b, 7, e.time)
  BY <1>2, <1>5 DEF InBucket
<1>7. \A e \in Range(events) : e \in yesterday <=> InBucket(b, 6, e.time)
  BY <1>2, <1>5 DEF InBucket, Forever
<1>8. todayEvents = Where(events, today) /\ yesterdayEvents = Where(events, yesterday)
  BY DEF todayEvents, yesterdayEvents, eventsSince, start, before
<1> HIDE DEF today, yesterday, v
<1>9. ASSUME NEW k \in 1 .. Len(b), NEW T, \A e \in Range(events) : e \in T <=> InBucket(b, k, e.time)
      PROVE  v[k] = Total(Images(f, Where(events, T)))
  <2>1. b \in Seq(Int) /\ b # <<>> /\ Increasing(b) /\ f \in [Recordable -> Int]
    BY <1>2, <1>3
  <2>2. events \in Seq(Recordable)
    BY <1>1
  <2> QED
    BY <2>1, <2>2, <1>9, BucketIs DEF v
<1>10. 7 \in 1 .. Len(b) /\ 6 \in 1 .. Len(b)
  BY <1>2
<1>11. v[7] = Total(Images(f, todayEvents)) /\ v[6] = Total(Images(f, yesterdayEvents))
  BY <1>6, <1>7, <1>8, <1>9, <1>10
<1>12. todayEvents \in Seq(Recordable) /\ yesterdayEvents \in Seq(Recordable)
  BY <1>1, <1>8, KeptIsOf
<1>13. sumRevenue(todayEvents, data.prices) = Total(Images(f, todayEvents))
       /\ sumRevenue(yesterdayEvents, data.prices) = Total(Images(f, yesterdayEvents))
  BY <1>1, <1>12, SumsAre DEF f
<1>14. v \in [1 .. Len(b) -> Nat]
  BY <1>1, <1>2, <1>3, InBucketsType DEF v
<1> QED
  BY <1>4, <1>10, <1>11, <1>13, <1>14 DEF revenueToday, revenueYesterday

\* The revenue of the month, beside the chart and in it.
LEMMA RevenueOfMonth ==
    ASSUME Typed
    PROVE  revenueMonth = chart("ytd").revenue[Len(chart("ytd").revenue)]
<1> DEFINE c == Cardinality(MonthsBegun(now))
           b == bucketsFor("ytd", now)
           f == RevenueBy(data.prices)
           v == InBuckets(f, events, b)
           start == startOfMonth(c)
           month == {e \in Range(events) : e.time >= start /\ (Forever = Forever \/ e.time < Forever)}
<1>1. events \in Seq(Recordable) /\ data.prices \in PriceTables /\ now \in Reached
  BY EventsAre
<1>2. c \in 1 .. Len(Firsts) /\ Len(Firsts) \in Nat
  BY <1>1, MonthsIs, FirstsIs
<1>3. b = [i \in 1 .. c |-> startOfMonth(i)]
  BY DEF bucketsFor
<1>4. "ytd" \in Ranges
  BY DEF Ranges
<1>5. b \in Seq(Int) /\ b # <<>> /\ Increasing(b)
  BY <1>1, <1>4, BucketsFollow
<1>6. f \in [Recordable -> Int] /\ f \in [Recordable -> Nat]
  BY <1>1, NumberFunctions
<1>7. chart("ytd").revenue = v
  BY <1>1, SeriesIs DEF chart
<1>8. monthEvents = Where(events, month)
  BY DEF monthEvents, eventsSince
<1> HIDE DEF c
<1>9. Len(b) = c /\ b[c] = start
  <2>1. DOMAIN b = 1 .. c
    BY <1>3
  <2>2. DOMAIN b = 1 .. Len(b) /\ Len(b) \in Nat
    BY <1>5, LenProperties
  <2>3. Len(b) = c
    <3> HIDE DEF b
    <3> QED
      BY <1>2, <2>1, <2>2
  <2> QED
    BY <1>2, <1>3, <2>3
<1> HIDE DEF b, f, start
<1>10. start \in Int
  BY <1>2, <1>5, <1>9, ElementOfSeq
<1>11. \A e \in Range(events) : e.time \in Nat
  BY <1>1, RecordableIs, ElementOfSeq, LenProperties DEF Range
<1>12. \A e \in Range(events) : e \in month <=> InBucket(b, c, e.time)
  BY <1>9, <1>10, <1>11 DEF InBucket
<1> HIDE DEF month, v
<1>13. ASSUME NEW k \in 1 .. Len(b), NEW T, \A e \in Range(events) : e \in T <=> InBucket(b, k, e.time)
      PROVE  v[k] = Total(Images(f, Where(events, T)))
  BY <1>1, <1>5, <1>6, <1>13, BucketIs DEF v
<1>14. c \in 1 .. Len(b)
  BY <1>2, <1>9
<1>15. v[c] = Total(Images(f, monthEvents))
  BY <1>8, <1>12, <1>13, <1>14
<1>16. monthEvents \in Seq(Recordable)
  BY <1>1, <1>8, KeptIsOf
<1>17. sumRevenue(monthEvents, data.prices) = Total(Images(f, monthEvents))
  BY <1>1, <1>16, SumsAre DEF f
<1>18. Len(v) = c
  BY <1>1, <1>5, <1>6, <1>9, InBucketsType DEF v
<1> QED
  BY <1>7, <1>15, <1>17, <1>18 DEF revenueMonth


\* A year of revenue, or a week of tokens: the change since yesterday.
LEMMA DeltaIs ==
    ASSUME Typed
    PROVE  LET week == chart("7d")
           IN  /\ Delta.is = "none" <=> week.revenue[6] = 0
               /\ Delta.is = "percent" => (Delta.value < 0 <=> week.revenue[7] < week.revenue[6])
<1> DEFINE c == revenueToday
           p == revenueYesterday
           change == percentChange(c, p)
<1>1. c = chart("7d").revenue[7] /\ p = chart("7d").revenue[6] /\ c \in Nat /\ p \in Nat
  BY RevenueOfDays
<1>2. Delta = change
  BY DEF Delta
<1>3. change = IF p <= 0 THEN [is |-> "none"]
               ELSE [is |-> "percent", value |-> (100 * (c - p)) \div p]
  BY DEF percentChange
<1> HIDE DEF c, p, change
<1>4. CASE p = 0
  <2>1. change = [is |-> "none"]
    BY <1>3, <1>4
  <2> QED
    BY <1>1, <1>2, <1>4, <2>1
<1>5. CASE p # 0
  <2>1. ~ (p <= 0)
    BY <1>1, <1>5
  <2>2. change.is = "percent" /\ change.value = (100 * (c - p)) \div p
    BY <1>3, <2>1
  <2>3. (100 * (c - p)) \div p < 0 <=> c < p
    <3>1. \A x \in Int, q \in Nat \ {0} : x \div q < 0 <=> x < 0
      OBVIOUS
    <3>2. 100 * (c - p) \in Int /\ p \in Nat \ {0}
      BY <1>1, <1>5
    <3>3. (100 * (c - p)) \div p < 0 <=> 100 * (c - p) < 0
      BY <3>1, <3>2
    <3> QED
      BY <1>1, <3>3
  <2> QED
    BY <1>1, <1>2, <1>5, <2>2, <2>3
<1> QED
  BY <1>4, <1>5

\* The place of the day of an event among those of the last week, and its bucket.
LEMMA DayFound ==
    ASSUME NEW at \in Reached, NEW t \in Instants, t <= at
    PROVE  LET b == LastDays(at, 7)
               hits == {k \in 1 .. 7 : b[k] = startOfDay(t, 0)}
           IN  bucketIndex(b, t) = IF hits = {} THEN 0 ELSE Min(hits)
<1> DEFINE b == LastDays(at, 7)
           hits == {k \in 1 .. 7 : b[k] = startOfDay(t, 0)}
           found == IF hits = {} THEN 0 ELSE Min(hits)
           d == DayOf(at)
           e == DayOf(t)
           n == Len(Midnights)
<1>1. b \in Seq(Int) /\ b # <<>> /\ Increasing(b) /\ Len(b) = 7
  BY WeekIs
<1>2. \A k \in 1 .. 7 : b[k] = Midnights[d - 7 + k]
  <2>1. 7 \in 1 .. 30
    OBVIOUS
  <2> QED
    BY <2>1, LastDaysIs
<1>3. /\ d \in 30 .. n /\ e \in 1 .. n /\ n \in Nat /\ t \in Nat /\ at \in Nat
      /\ InBucket(Midnights, d, at) /\ InBucket(Midnights, e, t)
      /\ \A x \in 1 .. n : InBucket(Midnights, x, t) => x = e
  <2>1. d \in 30 .. n /\ at \in Nat /\ at \in Instants
    BY ReachedIs
  <2> QED
    BY <2>1, InstantIs, CalendarIs
<1>4. startOfDay(t, 0) = Midnights[e]
  <2>1. startOfDay(t, 0) = Midnights[e - 0] /\ e - 0 = e
    BY <1>3 DEF startOfDay
  <2> QED
    BY <2>1
<1>5. /\ bucketIndex(b, t) \in 0 .. 7
      /\ \A k \in 1 .. 7 : bucketIndex(b, t) = k <=> InBucket(b, k, t)
  <2>1. t \in Int
    BY <1>3
  <2> HIDE DEF b
  <2> QED
    BY <1>1, <2>1, BucketOf
<1>6. \A x \in 1 .. n : Midnights[x] \in Nat
  BY CalendarIs
<1>7. \A x, y \in 1 .. n : x < y => Midnights[x] < Midnights[y]
  BY CalendarIs DEF Increasing
<1> HIDE DEF b, d, e, n
<1>8. ASSUME NEW k \in 1 .. 7 PROVE InBucket(b, k, t) <=> d - 7 + k = e
  <2> DEFINE x == d - 7 + k
  <2>1. x \in 1 .. n /\ b[k] = Midnights[x] /\ x \in Int
    BY <1>2, <1>3
  <2>2. CASE k = 7
    <3>1. x = d
      BY <1>3, <2>2
    <3>2. InBucket(b, k, t) <=> Midnights[d] <= t
      BY <1>1, <2>1, <2>2, <3>1 DEF InBucket
    <3>3. Midnights[d] <= t => InBucket(Midnights, d, t)
      <4>1. d = n \/ (at < Midnights[d + 1] /\ Midnights[d + 1] \in Nat)
        BY <1>3, <1>6 DEF InBucket, n
      <4> QED
        BY <1>3, <4>1 DEF InBucket, n
    <3>4. e = d => Midnights[d] <= t
      BY <1>3 DEF InBucket
    <3>5. d \in 1 .. n
      BY <1>3
    <3> QED
      BY <1>3, <3>1, <3>2, <3>3, <3>4, <3>5
  <2>3. CASE k # 7
    <3> DEFINE y == x + 1
    <3>1. k + 1 \in 1 .. 7 /\ d - 7 + (k + 1) = y /\ x # n
      BY <1>3, <2>1, <2>3
    <3>2. b[k + 1] = Midnights[y]
      BY <1>2, <3>1
    <3>3. InBucket(b, k, t) <=> InBucket(Midnights, x, t)
      BY <1>1, <2>1, <2>3, <3>1, <3>2 DEF InBucket, n
    <3> HIDE DEF x, y
    <3> QED
      BY <1>3, <2>1, <3>3 DEF x
  <2> QED
    BY <2>2, <2>3
<1>9. ASSUME NEW k \in 1 .. 7 PROVE k \in hits <=> d - 7 + k = e
  <2> DEFINE x == d - 7 + k
  <2>1. x \in 1 .. n /\ b[k] = Midnights[x] /\ x \in Int /\ e \in Int
    BY <1>2, <1>3
  <2>2. Midnights[x] = Midnights[e] <=> x = e
    <3> HIDE DEF x
    <3>1. x < e \/ e < x \/ x = e
      BY <2>1
    <3> QED
      BY <1>3, <1>6, <1>7, <2>1, <3>1
  <2> QED
    BY <1>4, <2>1, <2>2
<1>10. hits \subseteq 1 .. 7
  OBVIOUS
<1> HIDE DEF hits
<1>11. ASSUME hits = {} PROVE bucketIndex(b, t) = 0
  <2>1. \A k \in 1 .. 7 : bucketIndex(b, t) # k
    BY <1>5, <1>8, <1>9, <1>11
  <2> QED
    BY <1>5, <2>1
<1>12. ASSUME hits # {} PROVE bucketIndex(b, t) = Min(hits)
  <2>1. PICK k \in hits : TRUE
    BY <1>12
  <2>6. k \in 1 .. 7 /\ d - 7 + k = e /\ d \in Int /\ e \in Int
    BY <1>3, <1>9, <1>10
  <2>2. ASSUME NEW j \in hits PROVE j = k
    <3>1. j \in 1 .. 7 /\ d - 7 + j = e
      BY <1>9, <1>10
    <3> QED
      BY <2>6, <3>1
  <2>3. hits = {k} /\ k \in Int
    <3>1. k \in hits
      BY <2>1
    <3>2. hits = {k}
      BY <2>2, <3>1, Zenon
    <3> QED
      BY <2>6, <3>2
  <2>4. Min(hits) = k
    BY <2>3 DEF Min
  <2>5. bucketIndex(b, t) = k
    BY <1>5, <1>8, <2>6
  <2> QED
    BY <2>4, <2>5
<1> QED
  BY <1>11, <1>12 DEF hits, b

\* The table of days and the chart of the week count the same tokens.
LEMMA DaysAgree ==
    ASSUME Typed
    PROVE  /\ tokensPerDay(events, 7, now).input = chart("7d").inputTokens
           /\ tokensPerDay(events, 7, now).output = chart("7d").outputTokens
<1> DEFINE b == LastDays(now, 7)
           Found(date) == LET hits == {k \in 1 .. 7 : b[k] = date}
                          IN  IF hits = {} THEN 0 ELSE Min(hits)
           index == [i \in DOMAIN events |-> Found(startOfDay(events[i].time, 0))]
<1>1. /\ events \in Seq(Recordable) /\ data.prices \in PriceTables /\ now \in Reached
      /\ \A i \in DOMAIN events : events[i].time <= now
  BY EventsAre
<1>2. b = bucketsFor("7d", now) /\ Len(b) = 7
  BY <1>1, WeekIs
<1>3. tokensPerDay(events, 7, now).input = Shared(Inputs(events), index, 7)
      /\ tokensPerDay(events, 7, now).output = Shared(Outputs(events), index, 7)
  BY DEF tokensPerDay
<1>4. index = Indexed(b, events)
  <2>1. ASSUME NEW i \in DOMAIN events
        PROVE  Found(startOfDay(events[i].time, 0)) = bucketIndex(b, events[i].time)
    <3>1. events[i].time \in Instants
      BY <1>1, LenProperties, ElementOfSeq, RecordableIs
    <3> QED
      BY <1>1, <3>1, DayFound
  <2> HIDE DEF Found, b
  <2> QED
    BY <2>1 DEF Indexed
<1>5. Inputs(events) = Images(InputBy, events) /\ Outputs(events) = Images(OutputBy, events)
  BY <1>1, NumbersOf
<1>6. chart("7d").inputTokens = InBuckets(InputBy, events, bucketsFor("7d", now))
      /\ chart("7d").outputTokens = InBuckets(OutputBy, events, bucketsFor("7d", now))
  BY <1>1, SeriesIs DEF chart
<1> HIDE DEF b, index
<1> QED
  BY <1>2, <1>3, <1>4, <1>5, <1>6 DEF InBuckets

\* The figures beside the charts agree with the charts.
LEMMA TotalsDoAgree == ASSUME Typed PROVE TotalsAgree
BY RevenueOfDays, RevenueOfMonth, DeltaIs, DaysAgree DEF TotalsAgree
---------------------------------------------------------------------------
(* Models without a price. *)

\* Events each of which earns nothing earn nothing.
LEMMA NothingEarned ==
    ASSUME NEW list \in Seq(Recordable), NEW prices \in PriceTables,
           \A i \in DOMAIN list : revenueOf(list[i], prices) = 0
    PROVE  sumRevenue(list, prices) = 0
<1>1. Len(list) \in Nat /\ DOMAIN list = 1 .. Len(list)
  BY LenProperties
<1>2. Revenues(list, prices) = [i \in 1 .. Len(list) |-> 0]
  BY <1>1 DEF Revenues
<1> QED
  BY <1>1, <1>2, TotalZeros DEF sumRevenue

\* What the page says of models without a price is true.
LEMMA UnpricedDoEarnNothing == ASSUME Typed PROVE UnpricedEarnsNothing
<1> DEFINE T == {e \in Range(todayEvents) : e.model \in unpriced}
<1>1. data.prices \in PriceTables /\ todayEvents \in Seq(Recordable)
  BY EventsAre, KeptIsOf DEF todayEvents, eventsSince
<1>2. unpricedEvents = Where(todayEvents, T)
  BY DEF unpricedEvents
<1>3. \A m : ~isPriced(data.prices, m) => \A e : e.model = m => revenueOf(e, data.prices) = 0
  BY DEF revenueOf
<1>4. \A m \in unpriced : ~isPriced(data.prices, m)
  BY DEF unpriced
<1>5. sumRevenue(unpricedEvents, data.prices) = 0
  <2>1. unpricedEvents \in Seq(Recordable)
    BY <1>1, <1>2, KeptIsOf
  <2>2. \A i \in DOMAIN unpricedEvents : unpricedEvents[i] \in T
    <3> HIDE DEF T
    <3> QED
      BY <1>1, <1>2, WhereFrom
  <2>3. \A i \in DOMAIN unpricedEvents : revenueOf(unpricedEvents[i], data.prices) = 0
    BY <1>3, <1>4, <2>2
  <2> QED
    BY <1>1, <2>1, <2>3, NothingEarned
<1>6. ASSUME NEW m \in financeUnpriced PROVE revenueByModel(m) = 0
  <2> DEFINE list == listOf(todayEvents, m)
             M == {e \in Range(todayEvents) : e.model = m}
  <2>1. list = Where(todayEvents, M)
    BY DEF listOf
  <2>2. \A i \in DOMAIN list : list[i] \in M
    <3> HIDE DEF M, list
    <3> QED
      BY <1>1, <2>1, WhereFrom
  <2>3. ~isPriced(data.prices, m)
    BY DEF financeUnpriced
  <2>4. \A i \in DOMAIN list : revenueOf(list[i], data.prices) = 0
    BY <1>3, <2>2, <2>3
  <2>5. list \in Seq(Recordable)
    BY <1>1, <2>1, KeptIsOf
  <2> HIDE DEF list
  <2>6. sumRevenue(list, data.prices) = 0
    BY <1>1, <2>4, <2>5, NothingEarned
  <2> QED
    BY <2>6 DEF list, revenueByModel
<1> DEFINE V == {e \in Range(todayEvents) : e.model \in financeUnpriced}
<1>7. unpriced = unpricedOffered /\ unpriced \subseteq financeUnpriced
  BY DEF unpriced, unpricedOffered, financeUnpriced
<1>8. /\ unpricedTokens = Total(Images(TokensBy, Where(todayEvents, T)))
      /\ financeUnpricedTokens = Total(Images(TokensBy, Where(todayEvents, V)))
      /\ TokensBy \in [Recordable -> Nat]
  <2>1. unpricedEvents \in Seq(Recordable) /\ financeUnpricedEvents \in Seq(Recordable)
    BY <1>1, KeptIsOf DEF unpricedEvents, financeUnpricedEvents
  <2> QED
    BY <2>1, NumbersOf, NumberFunctions
       DEF unpricedTokens, financeUnpricedTokens, unpricedEvents, financeUnpricedEvents
<1>9. \A i \in 1 .. Len(todayEvents) : todayEvents[i] \in Range(todayEvents)
  BY <1>1, LenProperties DEF Range
<1>10. unpricedTokens <= financeUnpricedTokens
  <2>1. \A i \in 1 .. Len(todayEvents) : todayEvents[i] \in T => todayEvents[i] \in V
    BY <1>7
  <2> HIDE DEF T, V
  <2>2. Total(Images(TokensBy, Where(todayEvents, T))) <= Total(Images(TokensBy, Where(todayEvents, V)))
    BY <1>1, <1>8, <2>1, PartOfPart
  <2> QED
    BY <1>8, <2>2
<1>11. ASSUME \A e \in Range(financeUnpricedEvents) : e.model \in unpricedOffered
       PROVE  unpricedTokens = financeUnpricedTokens
  <2>1. financeUnpricedEvents = Where(todayEvents, V)
    BY DEF financeUnpricedEvents
  <2>2. \A i \in DOMAIN todayEvents : todayEvents[i] \in V =>
            \E j \in DOMAIN financeUnpricedEvents : financeUnpricedEvents[j] = todayEvents[i]
    <3> HIDE DEF V
    <3> QED
      BY <1>1, <2>1, WhereKeeps
  <2>3. ASSUME NEW i \in 1 .. Len(todayEvents), todayEvents[i] \in V PROVE todayEvents[i] \in T
    <3>1. i \in DOMAIN todayEvents
      BY <1>1, LenProperties
    <3>2. todayEvents[i] \in Range(financeUnpricedEvents)
      BY <2>2, <2>3, <3>1 DEF Range
    <3> QED
      BY <1>7, <1>9, <1>11, <3>2
  <2> HIDE DEF T, V
  <2>4. Total(Images(TokensBy, Where(todayEvents, V))) <= Total(Images(TokensBy, Where(todayEvents, T)))
    BY <1>1, <1>8, <2>3, PartOfPart
  <2>5. /\ Total(Images(TokensBy, Where(todayEvents, V))) \in Int
        /\ Total(Images(TokensBy, Where(todayEvents, T))) \in Int
    BY <1>1, <1>8, PartIs
  <2> QED
    BY <1>8, <1>10, <2>4, <2>5
<1> QED
  BY <1>5, <1>6, <1>10, <1>11 DEF UnpricedEarnsNothing

\* Today's volume is shared out, and what was served at a price earned it all.
LEMMA VolumeIsSharedOut == ASSUME Typed PROVE VolumeSharedOut
<1> DEFINE T == {e \in Range(todayEvents) : e.model # NoModel /\ isPriced(data.prices, e.model)}
           U == {e \in Range(todayEvents) : e.model \in financeUnpriced}
           V == {e \in Range(todayEvents) :
                    \/ e.model = NoModel
                    \/ e.model \notin Discovered /\ ~isPriced(data.prices, e.model)}
           elsewhere == Where(todayEvents, V)
<1>1. data.prices \in PriceTables /\ todayEvents \in Seq(Recordable)
  BY EventsAre, KeptIsOf DEF todayEvents, eventsSince
<1>2. pricedEvents = Where(todayEvents, T) /\ financeUnpricedEvents = Where(todayEvents, U)
  BY DEF pricedEvents, financeUnpricedEvents
<1>3. \A i \in 1 .. Len(todayEvents) : todayEvents[i] \in Range(todayEvents)
  BY <1>1, LenProperties DEF Range
<1>4. \A i \in 1 .. Len(todayEvents) :
         /\ todayEvents[i] \in T \/ todayEvents[i] \in U \/ todayEvents[i] \in V
         /\ ~(todayEvents[i] \in T /\ todayEvents[i] \in U)
         /\ ~(todayEvents[i] \in T /\ todayEvents[i] \in V)
         /\ ~(todayEvents[i] \in U /\ todayEvents[i] \in V)
  <2>1. NoModel \notin Discovered
    BY PageAssumption DEF Discovered
  <2> QED
    BY <1>3, <2>1 DEF financeUnpriced
<1>5. \A i \in 1 .. Len(todayEvents) :
         todayEvents[i] \notin T => RevenueBy(data.prices)[todayEvents[i]] = 0
  <2>1. \A i \in 1 .. Len(todayEvents) : todayEvents[i] \in Recordable
    BY <1>1, LenProperties, ElementOfSeq
  <2> QED
    BY <1>3, <2>1 DEF RevenueBy, revenueOf
<1> HIDE DEF T, U, V
<1>6. /\ pricedEvents \in Seq(Recordable) /\ financeUnpricedEvents \in Seq(Recordable)
      /\ elsewhere \in Seq(Recordable)
  BY <1>1, <1>2, KeptIsOf
<1>7. /\ Total(Tokens(pricedEvents)) = Total(Images(TokensBy, Where(todayEvents, T)))
      /\ Total(Tokens(financeUnpricedEvents)) = Total(Images(TokensBy, Where(todayEvents, U)))
      /\ Total(Tokens(elsewhere)) = Total(Images(TokensBy, Where(todayEvents, V)))
      /\ Total(Tokens(todayEvents)) = Total(Images(TokensBy, todayEvents))
  BY <1>1, <1>2, <1>6, NumbersOf
<1>8. TokensBy \in [Recordable -> Nat] /\ RevenueBy(data.prices) \in [Recordable -> Nat]
  BY <1>1, NumberFunctions
<1>9. Total(Images(TokensBy, Where(todayEvents, T))) + Total(Images(TokensBy, Where(todayEvents, U)))
        + Total(Images(TokensBy, Where(todayEvents, V))) = Total(Images(TokensBy, todayEvents))
  BY <1>1, <1>4, <1>8, ThreeParts
<1>10. sumRevenue(pricedEvents, data.prices) = revenueToday
  <2>1. Total(Images(RevenueBy(data.prices), Where(todayEvents, T)))
          = Total(Images(RevenueBy(data.prices), todayEvents))
    BY <1>1, <1>5, <1>8, AllInPart
  <2> QED
    BY <1>1, <1>2, <1>6, <2>1, SumsAre DEF revenueToday
<1> QED
  BY <1>7, <1>9, <1>10 DEF VolumeSharedOut, pricedTokens, financeUnpricedTokens, elsewhere, V
---------------------------------------------------------------------------
(* Tables: one row per model. *)

\* The models of a history: every model that is named, once.
LEMMA ModelsAre ==
    ASSUME NEW list \in Seq(Recordable)
    PROVE  LET models == ModelsOf(list)
               n == Len(models)
           IN  /\ n \in Nat /\ DOMAIN models = 1 .. n
               /\ \A j, k \in 1 .. n : models[j] = models[k] => j = k
               /\ \A k \in 1 .. n : models[k] # NoModel
               /\ \A i \in 1 .. Len(list) : list[i].model # NoModel =>
                     \E k \in 1 .. n : models[k] = list[i].model
<1> DEFINE m == Len(list)
           ids == [i \in DOMAIN list |-> i]
           first == {i \in DOMAIN list : /\ list[i].model # NoModel
                                         /\ \A j \in 1 .. i - 1 : list[j].model # list[i].model}
           at == Where(ids, first)
           models == ModelsOf(list)
           n == Len(at)
<1>1. m \in Nat /\ DOMAIN list = 1 .. m
  BY LenProperties
<1>2. ids \in [1 .. m -> Int] /\ \A i \in 1 .. m : ids[i] = i
  BY <1>1
<1>3. ids \in Seq(Int) /\ Len(ids) = m /\ DOMAIN ids = 1 .. m
  BY <1>1, <1>2, FunctionIsSeq
<1>4. models = [k \in DOMAIN at |-> list[at[k]].model]
  BY DEF ModelsOf
<1>5. \A i \in first : i \in 1 .. m
  BY <1>1
<1>6. \A i \in first : list[i].model # NoModel /\ \A j \in 1 .. m : j < i => list[j].model # list[i].model
  <2> TAKE i \in first
  <2>1. i \in 1 .. m /\ list[i].model # NoModel /\ \A j \in 1 .. i - 1 : list[j].model # list[i].model
    BY <1>1
  <2>2. ASSUME NEW j \in 1 .. m, j < i PROVE j \in 1 .. i - 1
    BY <1>1, <2>1, <2>2
  <2> QED
    BY <2>1, <2>2
<1>7. \A i \in 1 .. m : list[i].model # NoModel /\ (\A j \in 1 .. m : j < i => list[j].model # list[i].model)
                          => i \in first
  <2> SUFFICES ASSUME NEW i \in 1 .. m, list[i].model # NoModel,
                      \A j \in 1 .. m : j < i => list[j].model # list[i].model
               PROVE  i \in first
    OBVIOUS
  <2>1. ASSUME NEW j \in 1 .. i - 1 PROVE j \in 1 .. m /\ j < i
    BY <1>1
  <2> QED
    BY <1>1, <2>1
<1> HIDE DEF ids, first, models, at
<1>8. at \in Seq(Int)
  BY <1>3, KeptIsOf DEF at
<1>9. n \in Nat /\ DOMAIN at = 1 .. n
  BY <1>8, LenProperties
<1>10. \A k \in 1 .. n : at[k] \in first
  BY <1>3, <1>9, WhereFrom DEF at
<1>11. \A j, k \in 1 .. n : at[j] = at[k] => j = k
  <2>1. Distinct(ids)
    BY <1>2, <1>3 DEF Distinct
  <2>2. Distinct(at)
    BY <1>3, <2>1, WhereDistinct DEF at
  <2> QED
    BY <1>9, <2>2 DEF Distinct
<1>12. ASSUME NEW i \in first PROVE \E k \in 1 .. n : at[k] = i
  <2>1. i \in DOMAIN ids /\ ids[i] = i
    BY <1>2, <1>3, <1>5
  <2>2. \E k \in DOMAIN at : at[k] = ids[i]
    BY <1>3, <2>1, WhereKeeps DEF at
  <2> QED
    BY <1>9, <2>1, <2>2
<1>13. Len(models) = n /\ DOMAIN models = 1 .. n /\ \A k \in 1 .. n : models[k] = list[at[k]].model
  <2> DEFINE S == {list[at[k]].model : k \in 1 .. n}
  <2>1. models \in [1 .. n -> S]
    BY <1>4, <1>9
  <2> HIDE DEF n, S
  <2>2. Len(models) = n /\ DOMAIN models = 1 .. n
    BY <1>9, <2>1, FunctionIsSeq
  <2> QED
    BY <1>4, <1>9, <2>2
<1> HIDE DEF n, m
<1>14. ASSUME NEW j \in 1 .. n, NEW k \in 1 .. n, models[j] = models[k] PROVE j = k
  <2>1. at[j] \in first /\ at[k] \in first /\ at[j] \in 1 .. m /\ at[k] \in 1 .. m
    BY <1>5, <1>10
  <2>2. list[at[j]].model = list[at[k]].model
    BY <1>13, <1>14
  <2>3. ~ (at[j] < at[k]) /\ ~ (at[k] < at[j])
    BY <1>6, <2>1, <2>2
  <2>4. at[j] = at[k]
    BY <1>1, <2>1, <2>3
  <2> QED
    BY <1>11, <2>4
<1>15. \A k \in 1 .. n : models[k] # NoModel
  BY <1>6, <1>10, <1>13
<1>16. ASSUME NEW i \in 1 .. m, list[i].model # NoModel PROVE \E k \in 1 .. n : models[k] = list[i].model
  <2> DEFINE same == {j \in 1 .. m : list[j].model = list[i].model}
  <2>1. same \subseteq Nat /\ same # {}
    BY <1>1
  <2>2. PICK j \in same : \A l \in same : j <= l
    <3> HIDE DEF same
    <3> QED
      BY <2>1, LeastOf
  <2>3. j \in 1 .. m /\ list[j].model = list[i].model
    BY <2>2
  <2>4. \A l \in 1 .. m : l < j => list[l].model # list[j].model
    BY <1>1, <2>2, <2>3
  <2>5. j \in first
    BY <1>7, <1>16, <2>3, <2>4
  <2> QED
    BY <1>12, <1>13, <2>3, <2>5
<1> QED
  BY <1>9, <1>13, <1>14, <1>15, <1>16 DEF models, m

\* The row of each event of a history, 0 if it names no model.
RowOf(list, models) ==
    [i \in 1 .. Len(list) |->
        IF list[i].model = NoModel THEN 0
        ELSE CHOOSE k \in 1 .. Len(models) : models[k] = list[i].model]

\* What the rows of all models show adds up to what the named events show.
LEMMA RowsAddUp ==
    ASSUME NEW list \in Seq(Recordable), NEW f \in [Recordable -> Int], NEW rows,
           rows = [k \in 1 .. Len(ModelsOf(list)) |->
                      Total(Images(f, listOf(list, ModelsOf(list)[k])))]
    PROVE  Total(rows) = Total(Images(f, Where(list, {e \in Range(list) : e.model # NoModel})))
<1> DEFINE m == Len(list)
           models == ModelsOf(list)
           n == Len(models)
           row == RowOf(list, models)
           x == Images(f, list)
           named == {e \in Range(list) : e.model # NoModel}
           of(k) == {e \in Range(list) : e.model = models[k]}
           P(k) == {i \in 1 .. m : row[i] = k}
           Q == {i \in 1 .. m : row[i] # 0}
<1>1. /\ n \in Nat /\ DOMAIN models = 1 .. n
      /\ \A j, k \in 1 .. n : models[j] = models[k] => j = k
      /\ \A k \in 1 .. n : models[k] # NoModel
      /\ \A i \in 1 .. m : list[i].model # NoModel => \E k \in 1 .. n : models[k] = list[i].model
  BY ModelsAre
<1>2. /\ m \in Nat /\ DOMAIN list = 1 .. m /\ (\A i \in 1 .. m : list[i] \in Recordable)
      /\ x \in [1 .. m -> Int] /\ \A i \in 1 .. m : x[i] = f[list[i]]
  BY ImagesAre
<1>3. \A i \in 1 .. m : list[i] \in Range(list)
  BY <1>2 DEF Range
<1>4. rows = [k \in 1 .. n |-> Total(Images(f, Where(list, of(k))))]
  BY DEF listOf
<1> HIDE DEF models, x
<1>5. /\ \A i \in 1 .. m : row[i] \in 0 .. n
      /\ \A i \in 1 .. m : row[i] # 0 <=> list[i].model # NoModel
      /\ \A i \in 1 .. m : \A k \in 1 .. n : row[i] = k <=> list[i].model = models[k]
  <2> SUFFICES ASSUME NEW i \in 1 .. m
               PROVE  /\ row[i] \in 0 .. n
                      /\ row[i] # 0 <=> list[i].model # NoModel
                      /\ \A k \in 1 .. n : row[i] = k <=> list[i].model = models[k]
    OBVIOUS
  <2>1. CASE list[i].model = NoModel
    <3>1. row[i] = 0
      BY <2>1 DEF RowOf
    <3> HIDE DEF row
    <3> QED
      BY <1>1, <2>1, <3>1
  <2>2. CASE list[i].model # NoModel
    <3>1. row[i] = CHOOSE k \in 1 .. n : models[k] = list[i].model
      BY <2>2 DEF RowOf
    <3>2. \E k \in 1 .. n : models[k] = list[i].model
      BY <1>1, <2>2
    <3> HIDE DEF row, n
    <3>3. row[i] \in 1 .. n /\ models[row[i]] = list[i].model
      BY <3>1, <3>2, Zenon
    <3> QED
      BY <1>1, <2>2, <3>3
  <2> QED
    BY <2>1, <2>2
<1>6. row \in [1 .. m -> 0 .. n]
  BY <1>5 DEF RowOf
<1> HIDE DEF row
<1>7. ASSUME NEW T, NEW R, \A i \in 1 .. Len(list) : list[i] \in T <=> i \in R
      PROVE  Total(Images(f, Where(list, T))) = Total(Chosen(f, list, R))
  BY <1>7, TotalOfKept
<1>8. ASSUME NEW k \in 1 .. n
      PROVE  Total(Images(f, Where(list, of(k)))) = Total([i \in 1 .. m |-> IF row[i] = k THEN x[i] ELSE 0])
  <2>1. \A i \in 1 .. m : list[i] \in of(k) <=> i \in P(k)
    BY <1>3, <1>5
  <2>2. Chosen(f, list, P(k)) = [i \in 1 .. m |-> IF row[i] = k THEN x[i] ELSE 0]
    BY <1>2 DEF Chosen
  <2> HIDE DEF of, P
  <2>3. Total(Images(f, Where(list, of(k)))) = Total(Chosen(f, list, P(k)))
    BY <1>7, <2>1
  <2> QED
    BY <2>2, <2>3
<1>9. Total(Images(f, Where(list, named))) = Total([i \in 1 .. m |-> IF row[i] # 0 THEN x[i] ELSE 0])
  <2>1. \A i \in 1 .. m : list[i] \in named <=> i \in Q
    BY <1>3, <1>5
  <2>2. Chosen(f, list, Q) = [i \in 1 .. m |-> IF row[i] # 0 THEN x[i] ELSE 0]
    BY <1>2 DEF Chosen
  <2> HIDE DEF named, Q
  <2>3. Total(Images(f, Where(list, named))) = Total(Chosen(f, list, Q))
    BY <1>7, <2>1
  <2> QED
    BY <2>2, <2>3
<1>10. rows = [k \in 1 .. n |-> Total([i \in 1 .. m |-> IF row[i] = k THEN x[i] ELSE 0])]
  <2> HIDE DEF of
  <2> QED
    BY <1>4, <1>8
<1> HIDE DEF n, m, named
<1>11. Total([k \in 1 .. n |-> Total([i \in 1 .. m |-> IF row[i] = k THEN x[i] ELSE 0])])
         = Total([i \in 1 .. m |-> IF row[i] # 0 THEN x[i] ELSE 0])
  <2>1. n \in Nat /\ m \in Nat
    BY <1>1, <1>2
  <2>2. x \in [1 .. m -> Int]
    BY <1>2
  <2> QED
    BY <1>6, <2>1, <2>2, SharedOut
<1> QED
  BY <1>9, <1>10, <1>11 DEF named

\* Every event counts as one; one that was not completed as one failed.
OneBy == [e \in Recordable |-> 1]
FailedBy == [e \in Recordable |-> IF e.status # "completed" THEN 1 ELSE 0]

NotCompleted(list) == Where(list, {e \in Range(list) : e.status # "completed"})

\* The length of a history, and the number of its failed requests, as sums.
LEMMA CountsAre ==
    ASSUME NEW list \in Seq(Recordable)
    PROVE  /\ Len(list) = Total(Images(OneBy, list))
           /\ Len(NotCompleted(list)) = Total(Images(FailedBy, list))
           /\ Len(completed(list)) + Len(NotCompleted(list)) = Len(list)
<1> DEFINE m == Len(list)
           T == {e \in Range(list) : e.status # "completed"}
           U == {e \in Range(list) : e.status = "completed"}
           bad == [i \in DOMAIN list |-> IF list[i] \in T THEN 1 ELSE 0]
           good == [i \in DOMAIN list |-> IF list[i] \in U THEN 1 ELSE 0]
           one == [i \in 1 .. m |-> 1]
<1>1. m \in Nat /\ DOMAIN list = 1 .. m /\ \A i \in 1 .. m : list[i] \in Recordable
  BY LenProperties, ElementOfSeq
<1>2. \A i \in 1 .. m : list[i] \in Range(list)
  BY <1>1 DEF Range
<1>3. Images(OneBy, list) = one
  BY <1>1 DEF Images, OneBy
<1>4. Images(FailedBy, list) = bad
  BY <1>1, <1>2 DEF Images, FailedBy
<1>5. Len(Where(list, T)) = Total(bad) /\ Len(Where(list, U)) = Total(good)
  BY WhereLen
<1>6. \A i \in 1 .. m : one[i] = good[i] + bad[i]
  BY <1>1, <1>2
<1>7. good \in [1 .. m -> Int] /\ bad \in [1 .. m -> Int] /\ one \in [1 .. m -> Int]
  BY <1>1
<1>8. Total(one) = m
  BY <1>1, TotalOnes
<1>9. NotCompleted(list) = Where(list, T) /\ completed(list) = Where(list, U)
  BY DEF NotCompleted, completed
<1> HIDE DEF m, good, bad, one, T, U
<1>10. Total(one) = Total(good) + Total(bad)
  BY <1>1, <1>6, <1>7, TotalAdd
<1> QED
  BY <1>3, <1>4, <1>5, <1>8, <1>9, <1>10 DEF m

\* A row of the table.
LEMMA RowsAre ==
    ASSUME NEW list \in Seq(Recordable), NEW prices \in PriceTables
    PROVE  LET rows == perModel(list, prices)
               n == Len(ModelsOf(list))
               L(k) == listOf(list, ModelsOf(list)[k])
           IN  /\ DOMAIN rows = 1 .. n
               /\ \A k \in 1 .. n :
                     /\ rows[k].requests = Total(Images(OneBy, L(k)))
                     /\ rows[k].failed = Total(Images(FailedBy, L(k)))
                     /\ rows[k].tokens = Total(Images(TokensBy, L(k)))
                     /\ rows[k].revenue = Total(Images(RevenueBy(prices), L(k)))
                     /\ rows[k].durationP50 = percentile(durationsOf(L(k)), 50)
                     /\ rows[k].durationP95 = percentile(durationsOf(L(k)), 95)
<1> DEFINE rows == perModel(list, prices)
           n == Len(ModelsOf(list))
           L(k) == listOf(list, ModelsOf(list)[k])
<1>1. DOMAIN ModelsOf(list) = 1 .. n
  BY ModelsAre
<1>2. /\ DOMAIN rows = DOMAIN ModelsOf(list)
      /\ \A k \in DOMAIN ModelsOf(list) :
            /\ rows[k].requests = Len(L(k))
            /\ rows[k].failed = Len(NotCompleted(L(k)))
            /\ rows[k].tokens = Total(Tokens(L(k)))
            /\ rows[k].revenue = sumRevenue(L(k), prices)
            /\ rows[k].durationP50 = percentile(durationsOf(L(k)), 50)
            /\ rows[k].durationP95 = percentile(durationsOf(L(k)), 95)
  BY DEF perModel, NotCompleted
<1>3. ASSUME NEW k \in 1 .. n PROVE L(k) \in Seq(Recordable)
  BY KeptIsOf DEF listOf
<1> HIDE DEF rows, n, L
<1>4. ASSUME NEW k \in 1 .. n
      PROVE  /\ rows[k].requests = Total(Images(OneBy, L(k)))
             /\ rows[k].failed = Total(Images(FailedBy, L(k)))
             /\ rows[k].tokens = Total(Images(TokensBy, L(k)))
             /\ rows[k].revenue = Total(Images(RevenueBy(prices), L(k)))
             /\ rows[k].durationP50 = percentile(durationsOf(L(k)), 50)
             /\ rows[k].durationP95 = percentile(durationsOf(L(k)), 95)
  <2>1. L(k) \in Seq(Recordable)
    BY <1>3
  <2>2. Len(L(k)) = Total(Images(OneBy, L(k))) /\ Len(NotCompleted(L(k))) = Total(Images(FailedBy, L(k)))
    BY <2>1, CountsAre
  <2>3. sumRevenue(L(k), prices) = Total(Images(RevenueBy(prices), L(k)))
        /\ Total(Tokens(L(k))) = Total(Images(TokensBy, L(k)))
    BY <2>1, SumsAre
  <2> QED
    BY <1>1, <1>2, <2>2, <2>3
<1> QED
  BY <1>1, <1>2, <1>4 DEF rows, n, L

\* The median is no longer than the 95th percentile.
LEMMA MedianIsLess ==
    ASSUME NEW values \in Seq(Int)
    PROVE  /\ values # <<>> => /\ percentile(values, 50) \in Int /\ percentile(values, 95) \in Int
                               /\ \E i \in DOMAIN values : percentile(values, 50) = values[i]
                               /\ \E i \in DOMAIN values : percentile(values, 95) = values[i]
           /\ values = <<>> => percentile(values, 50) = Null /\ percentile(values, 95) = Null
           /\ percentile(values, 50) <= percentile(values, 95)
<1>1. CASE values = <<>>
  BY <1>1 DEF percentile, Null
<1>2. CASE values # <<>>
  <2> DEFINE n == Len(values)
             j == Ceiling(50 * n, 100)
             k == Ceiling(95 * n, 100)
  <2>1. n \in Nat \ {0} /\ j \in 1 .. n /\ percentile(values, 50) = Ascending(values)[j]
    BY <1>2, PercentileAt
  <2>2. k \in 1 .. n /\ percentile(values, 95) = Ascending(values)[k]
    BY <1>2, PercentileAt
  <2>3. j <= k
    <3>1. 100 * (j - 1) < 50 * n /\ 100 * k >= 95 * n
      BY <2>1, CeilingIs
    <3> QED
      BY <2>1, <2>2, <3>1
  <2> HIDE DEF j, k
  <2>4. Ascending(values)[j] \in Int /\ Ascending(values)[k] \in Int
        /\ Ascending(values)[j] <= Ascending(values)[k]
    BY <2>1, <2>2, <2>3, AscendingMono
  <2>5. IsNearestRank(percentile(values, 50), values, 50)
        /\ IsNearestRank(percentile(values, 95), values, 95)
    BY <1>2, PercentileIsNearestRank
  <2> QED
    BY <1>2, <2>1, <2>2, <2>4, <2>5 DEF IsNearestRank
<1> QED
  BY <1>1, <1>2

\* Failed requests are in a row or name no model.
LEMMA FailedAddUp ==
    ASSUME NEW list \in Seq(Recordable)
    PROVE  LET named == Where(list, {e \in Range(list) : e.model # NoModel})
               unnamed == Where(list, {e \in Range(list) : e.model = NoModel /\ e.status # "completed"})
           IN  Total(Images(FailedBy, named)) + Len(unnamed) = Total(Images(FailedBy, list))
<1> DEFINE m == Len(list)
           T == {e \in Range(list) : e.model # NoModel}
           U == {e \in Range(list) : e.model = NoModel /\ e.status # "completed"}
           x == ImagesIn(FailedBy, list, T)
           y == [i \in DOMAIN list |-> IF list[i] \in U THEN 1 ELSE 0]
           all == Images(FailedBy, list)
<1>1. m \in Nat /\ DOMAIN list = 1 .. m /\ \A i \in 1 .. m : list[i] \in Recordable
  BY LenProperties, ElementOfSeq
<1>2. \A i \in 1 .. m : list[i] \in Range(list)
  BY <1>1 DEF Range
<1>3. FailedBy \in [Recordable -> Int] /\ \A e \in Recordable : FailedBy[e] = IF e.status # "completed" THEN 1 ELSE 0
  BY DEF FailedBy
<1>4. Total(Images(FailedBy, Where(list, T))) = Total(x)
  BY <1>3, WhereTotal
<1>5. Len(Where(list, U)) = Total(y)
  <2>1. ASSUME NEW V
        PROVE  Len(Where(list, V)) = Total([i \in DOMAIN list |-> IF list[i] \in V THEN 1 ELSE 0])
    BY WhereLen
  <2> HIDE DEF U
  <2> QED
    BY <2>1
<1>6. /\ x \in [1 .. m -> Int] /\ y \in [1 .. m -> Int] /\ all \in [1 .. m -> Int]
      /\ \A i \in 1 .. m : all[i] = x[i] + y[i]
  BY <1>1, <1>2, <1>3 DEF ImagesIn, Images
<1> HIDE DEF m, x, y, all, T, U
<1>7. Total(all) = Total(x) + Total(y)
  BY <1>1, <1>6, TotalAdd
<1>8. Total(x) \in Int /\ Total(y) \in Int
  BY <1>1, <1>6, TotalType
<1> QED
  BY <1>4, <1>5, <1>7, <1>8 DEF T, U, all

\* The rows of the table add up.
LEMMA TableDoesAdd == ASSUME Typed PROVE TableAdds
<1> DEFINE rows == perModel(events, data.prices)
           models == ModelsOf(events)
           n == Len(models)
           L(k) == listOf(events, models[k])
           T == {e \in Range(events) : e.model # NoModel}
           named == Where(events, T)
           unnamedFailed == Where(events, {e \in Range(events) : e.model = NoModel /\ e.status # "completed"})
           price == RevenueBy(data.prices)
<1>1. events \in Seq(Recordable) /\ data.prices \in PriceTables
  BY EventsAre
<1>2. /\ DOMAIN rows = 1 .. n
      /\ \A k \in 1 .. n :
            /\ rows[k].requests = Total(Images(OneBy, L(k)))
            /\ rows[k].failed = Total(Images(FailedBy, L(k)))
            /\ rows[k].tokens = Total(Images(TokensBy, L(k)))
            /\ rows[k].revenue = Total(Images(price, L(k)))
            /\ rows[k].durationP50 = percentile(durationsOf(L(k)), 50)
            /\ rows[k].durationP95 = percentile(durationsOf(L(k)), 95)
  BY <1>1, RowsAre
<1>3. named \in Seq(Recordable)
  BY <1>1, KeptIsOf
<1>4. ASSUME NEW f \in [Recordable -> Int]
      PROVE  Total([k \in 1 .. n |-> Total(Images(f, L(k)))]) = Total(Images(f, named))
  BY <1>1, RowsAddUp
<1>5. /\ OneBy \in [Recordable -> Int] /\ FailedBy \in [Recordable -> Int]
      /\ TokensBy \in [Recordable -> Int] /\ price \in [Recordable -> Int]
  BY <1>1, IntFunctions DEF OneBy, FailedBy
<1>6. \A k \in 1 .. n : durationsOf(L(k)) \in Seq(Int)
  <2> TAKE k \in 1 .. n
  <2>1. L(k) \in Seq(Recordable)
    BY <1>1, KeptIsOf DEF listOf
  <2> HIDE DEF L
  <2> QED
    BY <2>1, MeasuredAre
<1>7. Len(named) = Total(Images(OneBy, named)) /\ Total(Tokens(named)) = Total(Images(TokensBy, named))
      /\ sumRevenue(named, data.prices) = Total(Images(price, named))
  BY <1>1, <1>3, CountsAre, SumsAre
<1>8. failed = Total(Images(FailedBy, events))
  <2>1. Len(NotCompleted(events)) = Total(Images(FailedBy, events))
        /\ Len(completed(events)) + Len(NotCompleted(events)) = Len(events)
    BY <1>1, CountsAre
  <2>2. completed(events) \in Seq(Recordable) /\ NotCompleted(events) \in Seq(Recordable)
    BY <1>1, KeptIsOf DEF completed, NotCompleted
  <2>3. Len(completed(events)) \in Nat /\ Len(NotCompleted(events)) \in Nat
    BY <2>2, LenProperties
  <2> QED
    BY <2>1, <2>3 DEF failed, done
<1>9. Total(Images(FailedBy, named)) + Len(unnamedFailed) = Total(Images(FailedBy, events))
  BY <1>1, FailedAddUp
<1> HIDE DEF rows, n, L, named, unnamedFailed, price
<1>10. /\ [k \in DOMAIN rows |-> rows[k].requests] = [k \in 1 .. n |-> Total(Images(OneBy, L(k)))]
       /\ [k \in DOMAIN rows |-> rows[k].failed] = [k \in 1 .. n |-> Total(Images(FailedBy, L(k)))]
       /\ [k \in DOMAIN rows |-> rows[k].tokens] = [k \in 1 .. n |-> Total(Images(TokensBy, L(k)))]
       /\ [k \in DOMAIN rows |-> rows[k].revenue] = [k \in 1 .. n |-> Total(Images(price, L(k)))]
  BY <1>2
<1>11. /\ Total([k \in DOMAIN rows |-> rows[k].requests]) = Len(named)
       /\ Total([k \in DOMAIN rows |-> rows[k].failed]) + Len(unnamedFailed) = failed
       /\ Total([k \in DOMAIN rows |-> rows[k].tokens]) = Total(Tokens(named))
       /\ Total([k \in DOMAIN rows |-> rows[k].revenue]) = sumRevenue(named, data.prices)
  BY <1>4, <1>5, <1>7, <1>8, <1>9, <1>10
<1>12. \A k \in DOMAIN rows : rows[k].durationP50 <= rows[k].durationP95
  BY <1>2, <1>6, MedianIsLess
<1> QED
  BY <1>11, <1>12 DEF TableAdds, rows, named, unnamedFailed

\* Overview.tsx:40 and Finance.tsx: in every state, the figures beside the charts,
\* the charts and the tables agree.
THEOREM FiguresAgreeHold == Spec => []FiguresAgree
<1>1. Typed => FiguresAgree
  BY TotalsDoAgree, TableDoesAdd, VolumeIsSharedOut, UnpricedDoEarnNothing DEF FiguresAgree
<1> QED
  BY <1>1, TypedHolds, PTL
---------------------------------------------------------------------------
(* Drawing. *)

\* The largest of finitely many numbers, and zero.
LEMMA MaxOfIs ==
    ASSUME NEW n \in Nat, NEW g \in [1 .. n -> Int], NEW values,
           \A x \in values : \E i \in 1 .. n : x = g[i],
           \A i \in 1 .. n : g[i] \in values \cup {0}
    PROVE  /\ MaxOf(values) \in Nat
           /\ MaxOf(values) \in values \cup {0}
           /\ \A x \in values : x <= MaxOf(values)
<1> DEFINE m == n + 1
           h == [i \in 1 .. m |-> IF i \in 1 .. n THEN g[i] ELSE 0]
           all == {0} \cup values
<1>1. m \in Nat \ {0} /\ h \in [1 .. m -> Int] /\ m \in 1 .. m /\ h[m] = 0
      /\ (\A i \in 1 .. n : i \in 1 .. m /\ h[i] = g[i])
      /\ \A i \in 1 .. m : h[i] \in all
  OBVIOUS
<1> HIDE DEF h, m, all
<1>2. PICK k \in 1 .. m : \A i \in 1 .. m : h[i] <= h[k]
  BY <1>1, LargestIn
<1>3. \A x \in all : \E i \in 1 .. m : x = h[i]
  BY <1>1 DEF all
<1>4. h[k] \in all /\ h[k] \in Int /\ \A x \in all : x <= h[k]
  <2>1. h[k] \in all /\ h[k] \in Int
    BY <1>1, <1>2
  <2>2. ASSUME NEW x \in all PROVE x <= h[k]
    <3>1. PICK i \in 1 .. m : x = h[i]
      BY <1>3
    <3>2. h[i] <= h[k]
      BY <1>2
    <3> QED
      BY <3>1, <3>2
  <2> QED
    BY <2>1, <2>2
<1>5. \A x \in all : x \in Int
  BY <1>1, <1>3
<1>6. MaxOf(values) = CHOOSE x \in all : \A y \in all : x >= y
  BY DEF MaxOf, Max, all
<1>7. \E x \in all : \A y \in all : x >= y
  BY <1>4, <1>5
<1>8. MaxOf(values) \in all /\ \A y \in all : MaxOf(values) >= y
  BY <1>6, <1>7, Zenon
<1> QED
  BY <1>5, <1>8 DEF all

\* What a share of the largest is: no more than all of it, and the larger the more.
LEMMA ShareIs ==
    ASSUME NEW x \in Nat, NEW y \in Nat, NEW max \in Nat \ {0}, NEW scale \in Nat
    PROVE  /\ (scale * x) \div max \in Nat
           /\ x <= max => (scale * x) \div max <= scale
           /\ x <= y => (scale * x) \div max <= (scale * y) \div max
<1>1. \A a, b, c \in Nat : a <= b => c * a <= c * b
  OBVIOUS
<1>2. scale * x \in Nat /\ scale * y \in Nat /\ scale * max \in Nat
  OBVIOUS
<1>3. \A a \in Nat : a \div max \in Nat
  OBVIOUS
<1>4. ASSUME NEW a \in Nat, NEW b \in Nat, a <= b PROVE a \div max <= b \div max
  <2> DEFINE q == a \div max
             r == b \div max
  <2>1. q \in Int /\ r \in Int /\ max * q <= a /\ b < max * (r + 1)
    OBVIOUS
  <2> HIDE DEF q, r
  <2>2. max * q < max * (r + 1)
    <3>1. max * q \in Int /\ max * (r + 1) \in Int
      BY <2>1
    <3> QED
      BY <1>4, <2>1, <3>1
  <2>3. q < r + 1
    BY <2>1, <2>2
  <2> QED
    BY <2>1, <2>3 DEF q, r
<1>5. (scale * max) \div max = scale
  OBVIOUS
<1>6. ASSUME x <= max PROVE (scale * x) \div max <= scale
  <2>1. scale * x <= scale * max
    BY <1>1, <1>6
  <2> QED
    BY <1>2, <1>4, <1>5, <2>1
<1>7. ASSUME x <= y PROVE (scale * x) \div max <= (scale * y) \div max
  <2>1. scale * x <= scale * y
    BY <1>1, <1>7
  <2> QED
    BY <1>2, <1>4, <2>1
<1> QED
  BY <1>2, <1>3, <1>6, <1>7

\* A tick is never left of the end of its bar.
LEMMA BarsAre == ASSUME Typed PROVE \A k \in DOMAIN DurationBars : DurationBars[k].bar <= DurationBars[k].tick
<1> DEFINE rows == perModel(events, data.prices)
           n == Len(ModelsOf(events))
           L(k) == listOf(events, ModelsOf(events)[k])
           D(k) == durationsOf(L(k))
           timed == {k \in DOMAIN rows : rows[k].durationP50 # Null}
           tops == {rows[k].durationP95 : k \in timed}
           max == MaxOf(tops)
           Bar(v) == Smaller(100, (100 * v) \div max)
           g == [k \in 1 .. n |-> IF k \in timed THEN rows[k].durationP95 ELSE 0]
<1>1. events \in Seq(Recordable) /\ data.prices \in PriceTables
  BY EventsAre
<1>2. n \in Nat
  BY <1>1, ModelsAre
<1>3. DOMAIN rows = 1 .. n /\ \A k \in 1 .. n : rows[k].durationP50 = percentile(D(k), 50)
                                             /\ rows[k].durationP95 = percentile(D(k), 95)
  BY <1>1, RowsAre
<1>4. ASSUME NEW k \in 1 .. n PROVE D(k) \in Seq(Nat \ {0}) /\ D(k) \in Seq(Int)
  <2>1. L(k) \in Seq(Recordable)
    BY <1>1, KeptIsOf DEF listOf
  <2> HIDE DEF L
  <2> QED
    BY <2>1, MeasuredAre
<1>5. DurationBars = [k \in timed |-> [bar |-> Bar(rows[k].durationP50), tick |-> Bar(rows[k].durationP95)]]
  BY DEF DurationBars
<1> HIDE DEF rows, n, D
<1>6. ASSUME NEW k \in timed
      PROVE  /\ k \in 1 .. n /\ rows[k].durationP50 \in Nat /\ rows[k].durationP95 \in Nat \ {0}
             /\ rows[k].durationP50 <= rows[k].durationP95
  <2>1. k \in 1 .. n /\ D(k) \in Seq(Nat \ {0}) /\ D(k) \in Seq(Int) /\ percentile(D(k), 50) # Null
    BY <1>3, <1>4
  <2>2. D(k) # <<>> /\ percentile(D(k), 50) <= percentile(D(k), 95)
    BY <2>1, MedianIsLess
  <2>3. PICK i \in DOMAIN D(k), j \in DOMAIN D(k) :
             percentile(D(k), 50) = D(k)[i] /\ percentile(D(k), 95) = D(k)[j]
    BY <2>1, <2>2, MedianIsLess
  <2>4. D(k)[i] \in Nat \ {0} /\ D(k)[j] \in Nat \ {0}
    BY <2>1, ElementOfSeq, LenProperties
  <2> QED
    BY <1>3, <2>1, <2>2, <2>3, <2>4
<1>7. g \in [1 .. n -> Int] /\ (\A x \in tops : \E i \in 1 .. n : x = g[i])
      /\ \A i \in 1 .. n : g[i] \in tops \cup {0}
  <2> HIDE DEF timed
  <2>1. \A k \in timed : k \in 1 .. n /\ rows[k].durationP95 \in Int
    BY <1>6
  <2> QED
    BY <2>1
<1> HIDE DEF timed, tops, g
<1>8. max \in Nat /\ \A x \in tops : x <= max
  BY <1>2, <1>7, MaxOfIs
<1> HIDE DEF max
<1>9. ASSUME NEW k \in timed PROVE Bar(rows[k].durationP50) <= Bar(rows[k].durationP95)
  <2> DEFINE x == rows[k].durationP50
             y == rows[k].durationP95
  <2>1. x \in Nat /\ y \in Nat \ {0} /\ x <= y
    BY <1>6
  <2>2. y \in tops
    BY DEF tops
  <2> HIDE DEF x, y
  <2>3. max \in Nat \ {0} /\ y \in Nat /\ 100 \in Nat
    BY <1>8, <2>1, <2>2
  <2>4. (100 * x) \div max \in Nat /\ (100 * y) \div max \in Nat
    BY <2>1, <2>3, ShareIs
  <2>5. (100 * x) \div max <= (100 * y) \div max
    BY <2>1, <2>3, ShareIs
  <2> QED
    BY <2>4, <2>5 DEF Smaller, x, y
<1> HIDE DEF Bar
<1> QED
  BY <1>5, <1>9

\* The bars of tokens.
LEMMA TokenBarsAre ==
    ASSUME NEW c, NEW n \in Nat, c.inputTokens \in [1 .. n -> Nat], c.outputTokens \in [1 .. n -> Nat],
           data.live \in Nat
    PROVE  LET bars == TokenBars(c)
           IN  \A i \in DOMAIN bars :
                  /\ bars[i].height \in 0 .. 100
                  /\ bars[i].parts[1] + bars[i].parts[2] + bars[i].parts[3] = bars[i].value
<1> DEFINE bars == TokenBars(c)
           g == [i \in 1 .. n |-> barValue(c, i)]
           values == {barValue(c, i) : i \in DOMAIN c.inputTokens}
           max == MaxOf(values)
<1>1. DOMAIN c.inputTokens = 1 .. n
  OBVIOUS
<1>2. \A i : liveOn(i, Len(c.tokens)) \in Nat
  BY DEF liveOn
<1>3. \A i \in 1 .. n : barValue(c, i) \in Nat
  BY <1>2 DEF barValue
<1>4. bars = [i \in 1 .. n |->
            [height |-> IF max = 0 THEN 0 ELSE (100 * barValue(c, i)) \div max,
             value |-> barValue(c, i),
             parts |-> <<c.inputTokens[i], c.outputTokens[i], liveOn(i, Len(c.tokens))>>]]
  BY <1>1 DEF TokenBars
<1>5. g \in [1 .. n -> Int] /\ (\A x \in values : \E i \in 1 .. n : x = g[i])
      /\ \A i \in 1 .. n : g[i] \in values \cup {0}
  BY <1>1, <1>3
<1>6. \A i \in 1 .. n : barValue(c, i) \in values
  BY <1>1
<1> HIDE DEF g, values, bars
<1>7. max \in Nat /\ \A x \in values : x <= max
  BY <1>5, MaxOfIs
<1> HIDE DEF max
<1>8. ASSUME NEW i \in 1 .. n PROVE bars[i].height \in 0 .. 100
  <2> DEFINE v == barValue(c, i)
  <2>1. v \in Nat /\ v <= max
    BY <1>3, <1>6, <1>7
  <2>2. bars[i].height = IF max = 0 THEN 0 ELSE (100 * v) \div max
    BY <1>4
  <2> HIDE DEF v
  <2>3. CASE max = 0
    BY <2>2, <2>3
  <2>4. CASE max # 0
    <3>1. max \in Nat \ {0} /\ 100 \in Nat
      BY <1>7, <2>4
    <3>2. (100 * v) \div max \in Nat /\ (100 * v) \div max <= 100
      BY <2>1, <3>1, ShareIs
    <3>3. bars[i].height = (100 * v) \div max
      BY <2>2, <2>4
    <3> DEFINE q == (100 * v) \div max
    <3> HIDE DEF q
    <3>4. q \in Nat /\ q <= 100 /\ bars[i].height = q
      BY <3>2, <3>3 DEF q
    <3> QED
      BY <3>4
  <2> QED
    BY <2>3, <2>4
<1>9. ASSUME NEW i \in 1 .. n
      PROVE  bars[i].parts[1] + bars[i].parts[2] + bars[i].parts[3] = bars[i].value
  <2>1. bars[i].value = barValue(c, i)
        /\ bars[i].parts = <<c.inputTokens[i], c.outputTokens[i], liveOn(i, Len(c.tokens))>>
    BY <1>4
  <2>2. barValue(c, i) = c.inputTokens[i] + c.outputTokens[i] + liveOn(i, Len(c.tokens))
    BY DEF barValue
  <2> QED
    BY <2>1, <2>2
<1>10. DOMAIN bars = 1 .. n
  BY <1>4
<1> QED
  BY <1>8, <1>9, <1>10 DEF bars

\* A line that spans the box of its chart, and bars that make one.
Drawn(line) ==
    /\ line[1].x = 0 /\ line[Len(line)].x = 720
    /\ \A i \in DOMAIN line : line[i].y \in 10 .. 210

Stacked(bars) ==
    \A i \in DOMAIN bars :
        /\ bars[i].height \in 0 .. 100
        /\ bars[i].parts[1] + bars[i].parts[2] + bars[i].parts[3] = bars[i].value

\* Every row of numbers makes a line that stays in its box.
LEMMA LineIs ==
    ASSUME NEW n \in Nat \ {0}, NEW values \in [1 .. n -> Nat]
    PROVE  Drawn(Line(values))
<1> DEFINE tens == [i \in DOMAIN values |-> 10 * values[i]]
           points == IF Len(tens) = 1 THEN <<tens[1], tens[1]>> ELSE tens
           top == MaxOf(Range(values))
           max == 11 * top
           scale == IF max > 0 THEN max ELSE 1
           m == Len(points)
           line == Line(values)
<1>1. values \in Seq(Nat) /\ Len(values) = n /\ DOMAIN values = 1 .. n
  BY FunctionIsSeq
<1>2. top \in Nat /\ \A i \in 1 .. n : values[i] <= top
  <2>1. \A x \in Range(values) : \E i \in 1 .. n : x = values[i]
    BY <1>1 DEF Range
  <2>2. \A i \in 1 .. n : values[i] \in Range(values) /\ values[i] \in Range(values) \cup {0}
    BY <1>1 DEF Range
  <2>3. values \in [1 .. n -> Int]
    OBVIOUS
  <2>4. top \in Nat /\ \A x \in Range(values) : x <= top
    BY <2>1, <2>2, <2>3, MaxOfIs
  <2> QED
    BY <2>2, <2>4
<1>3. tens \in [1 .. n -> Nat] /\ \A i \in 1 .. n : tens[i] = 10 * values[i]
  BY <1>1
<1>4. tens \in Seq(Nat) /\ Len(tens) = n /\ DOMAIN tens = 1 .. n
  BY <1>3, FunctionIsSeq
<1>5. line = [i \in DOMAIN points |->
                [x |-> ((i - 1) * 720) \div (m - 1), y |-> 210 - (points[i] * (210 - 10)) \div scale]]
  BY DEF Line, linePath
<1> HIDE DEF tens, top, line
<1>6. m \in Nat /\ m >= 2 /\ DOMAIN points = 1 .. m
      /\ \A i \in 1 .. m : \E v \in Nat : points[i] = 10 * v /\ v <= top
  <2>1. CASE n = 1
    <3>1. points = <<tens[1], tens[1]>>
      BY <1>4, <2>1
    <3>2. tens[1] = 10 * values[1] /\ values[1] <= top /\ values[1] \in Nat
      BY <1>2, <1>3, <2>1
    <3> HIDE DEF points
    <3> QED
      BY <3>1, <3>2
  <2>2. CASE n # 1
    <3>1. points = tens
      BY <1>4, <2>2
    <3> HIDE DEF points
    <3>2. m = n /\ DOMAIN points = 1 .. n
      BY <1>4, <3>1
    <3>3. \A i \in 1 .. n : points[i] = 10 * values[i] /\ values[i] <= top /\ values[i] \in Nat
      BY <1>2, <1>3, <3>1
    <3> QED
      BY <2>2, <3>2, <3>3
  <2> QED
    BY <2>1, <2>2
<1> HIDE DEF points, m
<1>7. DOMAIN line = 1 .. m /\ Len(line) = m
  <2> DEFINE Point(i) == [x |-> ((i - 1) * 720) \div (m - 1),
                          y |-> 210 - (points[i] * (210 - 10)) \div scale]
             S == {Point(i) : i \in 1 .. m}
  <2>1. line = [i \in 1 .. m |-> Point(i)]
    BY <1>5, <1>6
  <2> HIDE DEF Point
  <2>2. line \in [1 .. m -> S] /\ DOMAIN line = 1 .. m
    BY <2>1
  <2> HIDE DEF S
  <2> QED
    BY <1>6, <2>2, FunctionIsSeq
<1>8. line[1].x = 0
  <2>1. line[1].x = ((1 - 1) * 720) \div (m - 1)
    BY <1>5, <1>6
  <2>2. (1 - 1) * 720 = 0 /\ \A k \in Nat \ {0} : 0 \div k = 0
    OBVIOUS
  <2> QED
    BY <1>6, <2>1, <2>2
<1>9. line[m].x = 720
  <2> DEFINE l == m - 1
  <2>1. line[m].x = (l * 720) \div l
    BY <1>5, <1>6
  <2>2. \A k \in Nat \ {0} : (k * 720) \div k = 720
    OBVIOUS
  <2>3. l \in Nat \ {0}
    BY <1>6
  <2> HIDE DEF l
  <2> QED
    BY <2>1, <2>2, <2>3
<1>10. ASSUME NEW i \in 1 .. m PROVE line[i].y \in 10 .. 210
  <2>1. line[i].y = 210 - (points[i] * (210 - 10)) \div scale
    BY <1>5, <1>6
  <2>2. PICK v \in Nat : points[i] = 10 * v /\ v <= top
    BY <1>6
  <2>3. points[i] * (210 - 10) = 2000 * v
    BY <2>2
  <2> DEFINE q == (2000 * v) \div scale
  <2>4. line[i].y = 210 - q
    BY <2>1, <2>3
  <2>5. scale \in Nat \ {0} /\ 2000 * v <= 200 * scale
    BY <1>2, <2>2
  <2>6. 2000 * v \in Nat /\ 200 * scale \in Nat
    BY <2>2, <2>5
  <2> HIDE DEF scale
  <2>7. q \in 0 .. 200
    <3>1. \A a \in Nat, b \in Nat \ {0} : a <= 200 * b => a \div b \in 0 .. 200
      OBVIOUS
    <3> QED
      BY <2>5, <2>6, <3>1
  <2> HIDE DEF q
  <2> QED
    BY <2>4, <2>7
<1>11. Drawn(line)
  <2>1. line[Len(line)].x = 720
    BY <1>7, <1>9
  <2>2. \A i \in DOMAIN line : line[i].y \in 10 .. 210
    BY <1>7, <1>10
  <2> QED
    BY <1>8, <2>1, <2>2 DEF Drawn
<1> QED
  BY <1>11 DEF line

\* Output and time of the events that have a throughput.
TimedOutputBy == [e \in Recordable |-> IF HasThroughput(e) THEN e.output ELSE 0]
TimedDurationBy == [e \in Recordable |-> IF HasThroughput(e) THEN e.duration ELSE 0]

\* The throughput of a bucket is a number, also when nothing was measured in it.
LEMMA ThroughputIs ==
    ASSUME NEW list \in Seq(Recordable), NEW prices \in PriceTables, NEW r \in Ranges, NEW t \in Reached
    PROVE  LET c == series(list, prices, r, t)
               n == Len(bucketsFor(r, t))
           IN  c.throughput \in [1 .. n -> Nat]
<1> DEFINE b == bucketsFor(r, t)
           n == Len(b)
           index == [i \in DOMAIN list |-> bucketIndex(b, list[i].time)]
           outputs == [i \in DOMAIN list |-> list[i].output]
           times == [i \in DOMAIN list |-> list[i].duration]
           timedOutputs == [i \in DOMAIN list |-> IF HasThroughput(list[i]) THEN outputs[i] ELSE 0]
           timedTimes == [i \in DOMAIN list |-> IF HasThroughput(list[i]) THEN times[i] ELSE 0]
           output == Shared(timedOutputs, index, n)
           time == Shared(timedTimes, index, n)
           c == series(list, prices, r, t)
<1>1. c.throughput = [k \in DOMAIN b |-> IF time[k] > 0 THEN (1000 * output[k]) \div time[k] ELSE 0]
  BY DEF series
<1>2. b \in Seq(Int) /\ b # <<>> /\ Increasing(b)
  BY BucketsFollow
<1>3. DOMAIN b = 1 .. n
  BY <1>2, LenProperties
<1>4. \A i \in DOMAIN list : list[i] \in Recordable
  BY LenProperties, ElementOfSeq
<1>5. timedOutputs = Images(TimedOutputBy, list) /\ timedTimes = Images(TimedDurationBy, list)
  BY <1>4 DEF Images, TimedOutputBy, TimedDurationBy
<1>6. index = Indexed(b, list)
  BY DEF Indexed
<1>7. TimedOutputBy \in [Recordable -> Nat] /\ TimedDurationBy \in [Recordable -> Nat]
  BY RecordableIs DEF TimedOutputBy, TimedDurationBy
<1> HIDE DEF b, index, timedOutputs, timedTimes
<1>8. output = InBuckets(TimedOutputBy, list, b) /\ time = InBuckets(TimedDurationBy, list, b)
  BY <1>5, <1>6 DEF InBuckets
<1> HIDE DEF output, time
<1>9. output \in [1 .. n -> Nat] /\ time \in [1 .. n -> Nat]
  BY <1>2, <1>7, <1>8, InBucketsType
<1>10. ASSUME NEW k \in 1 .. n
       PROVE  (IF time[k] > 0 THEN (1000 * output[k]) \div time[k] ELSE 0) \in Nat
  <2>1. time[k] \in Nat /\ 1000 * output[k] \in Nat
    BY <1>9
  <2>2. \A x \in Nat, y \in Nat \ {0} : x \div y \in Nat
    OBVIOUS
  <2> QED
    BY <2>1, <2>2
<1> HIDE DEF n, c
<1> QED
  BY <1>1, <1>3, <1>10 DEF n, b, c

\* The placeholder of an empty chart hides no tokens.
LEMMA HasDataIs ==
    ASSUME NEW list, NEW prices, NEW r, NEW t
    PROVE  LET c == series(list, prices, r, t)
           IN  ~c.hasData => \A k \in DOMAIN bucketsFor(r, t) :
                                ~ (c.inputTokens[k] > 0) /\ ~ (c.outputTokens[k] > 0)
BY DEF series

\* Every chart of a typed state can be drawn.
LEMMA ChartsAreDrawable == ASSUME Typed PROVE ChartDrawable
<1>1. \A k \in DOMAIN DurationBars : DurationBars[k].bar <= DurationBars[k].tick
  BY BarsAre
<1>2. ASSUME NEW r \in Ranges
      PROVE  LET c == chart(r)
             IN  /\ Drawn(Line(c.revenue)) /\ Drawn(Line(c.throughput))
                 /\ ~c.hasData => \A i \in DOMAIN c.tokens : c.inputTokens[i] + c.outputTokens[i] = 0
                 /\ Stacked(TokenBars(c))
  <2> DEFINE c == chart(r)
             b == bucketsFor(r, now)
             n == Len(b)
  <2>1. events \in Seq(Recordable) /\ data.prices \in PriceTables /\ now \in Reached /\ data.live \in Nat
    BY EventsAre
  <2>2. b \in Seq(Int) /\ b # <<>> /\ Increasing(b)
    BY <2>1, BucketsFollow
  <2>3. /\ c.revenue = InBuckets(RevenueBy(data.prices), events, b)
        /\ c.tokens = InBuckets(TokensBy, events, b)
        /\ c.inputTokens = InBuckets(InputBy, events, b)
        /\ c.outputTokens = InBuckets(OutputBy, events, b)
    BY <2>1, SeriesIs DEF chart
  <2>4. c.throughput \in [1 .. n -> Nat]
    BY <2>1, ThroughputIs DEF chart
  <2>5. ~c.hasData => \A k \in DOMAIN b : ~ (c.inputTokens[k] > 0) /\ ~ (c.outputTokens[k] > 0)
    BY HasDataIs DEF chart
  <2>6. DOMAIN b = 1 .. n
    BY <2>2, LenProperties
  <2> HIDE DEF c, b
  <2>7. ASSUME NEW f \in [Recordable -> Nat]
        PROVE  InBuckets(f, events, b) \in [1 .. n -> Nat] /\ DOMAIN InBuckets(f, events, b) = 1 .. n
               /\ n \in Nat \ {0}
    BY <2>1, <2>2, InBucketsType
  <2>8. /\ TokensBy \in [Recordable -> Nat] /\ InputBy \in [Recordable -> Nat]
        /\ OutputBy \in [Recordable -> Nat] /\ RevenueBy(data.prices) \in [Recordable -> Nat]
    BY <2>1, NumberFunctions
  <2>9. /\ c.revenue \in [1 .. n -> Nat] /\ c.inputTokens \in [1 .. n -> Nat]
        /\ c.outputTokens \in [1 .. n -> Nat] /\ DOMAIN c.tokens = 1 .. n /\ n \in Nat \ {0}
    BY <2>3, <2>7, <2>8
  <2> HIDE DEF n
  <2>10. ASSUME NEW values \in [1 .. n -> Nat]
         PROVE  Drawn(Line(values))
    BY <2>9, LineIs
  <2>11. Stacked(TokenBars(c))
    BY <2>1, <2>9, TokenBarsAre DEF Stacked
  <2>12. ASSUME ~c.hasData, NEW i \in DOMAIN c.tokens PROVE c.inputTokens[i] + c.outputTokens[i] = 0
    <3>1. i \in 1 .. n /\ i \in DOMAIN b
      BY <2>6, <2>9
    <3>2. c.inputTokens[i] \in Nat /\ c.outputTokens[i] \in Nat
      BY <2>9, <3>1
    <3>3. ~ (c.inputTokens[i] > 0) /\ ~ (c.outputTokens[i] > 0)
      BY <2>5, <2>12, <3>1
    <3> QED
      BY <3>2, <3>3
  <2> QED
    BY <2>4, <2>9, <2>10, <2>11, <2>12 DEF c
<1>3. ASSUME NEW c \in Charts
      PROVE  /\ \A line \in {Line(c.revenue), Line(c.throughput)} : Drawn(line)
             /\ ~c.hasData => \A i \in DOMAIN c.tokens : c.inputTokens[i] + c.outputTokens[i] = 0
             /\ \A bars \in {TokenBars(c)} : Stacked(bars)
  BY <1>2 DEF Charts
<1>4. ChartDrawable <=>
        /\ \A bars \in {DurationBars} : \A k \in DOMAIN bars : bars[k].bar <= bars[k].tick
        /\ \A c \in Charts :
             /\ \A line \in {Line(c.revenue), Line(c.throughput)} : Drawn(line)
             /\ ~c.hasData => \A i \in DOMAIN c.tokens : c.inputTokens[i] + c.outputTokens[i] = 0
             /\ \A bars \in {TokenBars(c)} : Stacked(bars)
  BY DEF ChartDrawable, Drawn, Stacked
<1> QED
  BY <1>1, <1>3, <1>4

\* shared.tsx and Overview.tsx: in every state, every line and every bar can be
\* drawn in its box.
THEOREM ChartDrawableHolds == Spec => []ChartDrawable
<1>1. Typed => ChartDrawable
  BY ChartsAreDrawable
<1> QED
  BY <1>1, TypedHolds, PTL
=============================================================================
