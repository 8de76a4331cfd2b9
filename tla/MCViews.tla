------------------------------ MODULE MCViews ------------------------------
(***************************************************************************)
(* An instance of Views for TLC, in ticks of five minutes.  The calendar    *)
(* runs from 1 January to 3 February; 31 January has 23 hours.               *)
(***************************************************************************)
EXTENDS Views

MCTabs == <<"Overview", "Runtimes", "Models", "Performance", "Usage", "Finance", "Schedule", "Settings">>

Midnight(d) == 288 * d - (IF d > 31 THEN 12 ELSE 0)
MCMidnights == SubSeq([d \in 1 .. 34 |-> Midnight(d)], 1, 34)
MCMonthFirst == <<1, 32>>

NoModelId == <<"none", "none">>
Priced == <<"ollama", "m">>
Other == <<"proxy", "m">>

Request == [kind |-> "request", time |-> 0, model |-> Priced, status |-> "completed",
            duration |-> 1000, input |-> 4, output |-> 2, total |-> 0,
            usageReported |-> TRUE, totalReported |-> FALSE]
MCTemplates == {
    Request,
    [Request EXCEPT !.duration = 500, !.total = 9, !.totalReported = TRUE, !.model = Other],
    [Request EXCEPT !.status = "failed", !.duration = 2000, !.usageReported = FALSE,
                    !.input = 0, !.output = 0],
    [Request EXCEPT !.model = NoModelId],
    [Request EXCEPT !.kind = "pause", !.status = "pause", !.model = NoModelId, !.duration = 0,
                    !.input = 0, !.output = 0, !.usageReported = FALSE]}

\* 5 minutes before midnight at the end of January, and that midnight.
MCInstants == {Midnight(31), Midnight(32) - 1, Midnight(32)}

Rates(in, out) == [input |-> in, output |-> out]
BothPriced == [m \in {Priced, Other} |-> Rates(2, 5)]
OnePriced == [m \in {Priced, Other} |-> IF m = Priced THEN Rates(1, 3) ELSE Rates(2, Garbage)]
MCPriceLists == {
    BothPriced, OnePriced,
    [m \in {Priced} |-> Rates(Blank, 2)]}

Listing(ready, offers, live) == [ready |-> ready, offers |-> offers, live |-> live]
MCListings == {
    Listing({}, {Priced}, 0),
    Listing({"ollama", "proxy"}, {Other}, 5),
    Listing({"ollama", "proxy"}, {}, 0)}

MCCells == {<<1, 9>>}

Fresh == [works |-> TRUE, order |-> <<>>, folded |-> FALSE, grid |-> NoGrid]
MCStorages == {
    Fresh,
    [Fresh EXCEPT !.works = FALSE],
    [Fresh EXCEPT !.order = Append(SubSeq(MCTabs, 1, 7), "Overview"),
                  !.folded = TRUE, !.grid = [is |-> "junk"]],
    [Fresh EXCEPT !.order = Reverse(MCTabs)]}

\* The figures and the preferences share no variable, so they are explored
\* apart: history is recorded on a page whose menu and storage are untouched,
\* and the menu, the views and the storage are used before the first refresh.
\* Every refresh finds an event more, the third at the last midnight, with
\* one list of prices and one listing.  It keeps nothing of the last one but the
\* history, so one state of each history is continued.
Untouched ==
    /\ storage = Fresh /\ order = Tabs /\ expanded /\ dragIndex = 0
    /\ tab = "Overview" /\ range = "24h" /\ steps = Len(data.events)

NoHistory == data.events = <<>>

Telling ==
    /\ data = emptyData \/ (data.prices = BothPriced /\ data.live > 0)
    /\ Len(data'.events) > Len(data.events)
    /\ Len(data'.events) = MaxEvents =>
          data'.prices = OnePriced /\ data'.live > 0 /\ now' = Midnight(32)

MCInit == Init /\ (Untouched \/ now = Midnight(31))
MCNext ==
    \/ Untouched /\ Refresh /\ Telling
    \/ Untouched /\ FollowAttention /\ Len(data.events) <= 1 /\ now' = now
    \/ data = emptyData /\ now = Midnight(31) /\ UserStep /\ now' = now
MCSpec == MCInit /\ [][MCNext]_vars
=============================================================================
