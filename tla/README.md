# A TLA+ development of relay-local

relay-local lets people share local models. A **gateway** (`internal/coordinator`)
accepts WebSocket sessions of **host agents** (`internal/agent`) and serves buyers'
OpenAI-style chat completions by dispatching each to a host with a free slot, with at
most one retry. On a host, a **dashboard** (`internal/dashboard`) manages the agent's
life and configuration and keeps a **history** of requests. A web **page** (`frontend`)
polls the dashboard, derives figures and charts from the history, and sends what the user
asks for.

This directory models the part of that system where ordering, failure and concurrency
decide correctness, checks it with TLC on small instances, and proves every safety property
it checks of the code with TLAPS, for every instance.

## Inventory

| Component (code) | State | Operations | Talks to | What is hard | What makes it correct |
|---|---|---|---|---|---|
| Sessions (`coordinator.go` connect, remove, Close) | `s.hosts`, `s.closed`, per host the peer, catalog, `lastHeartbeat` | hello, welcome, heartbeat, catalog, eviction, shutdown | agents (frames), jobs (`j.failure`) | reconnection while the old session winds down; silent links; shutdown against hellos in flight | one live session per identity; silent hosts are evicted; shutdown drains |
| Jobs (`coordinator.go` selectJob, deliver, abandon) | `h.jobs`, per job `events`, `queued`, `failure`, `dropping`, `started`, `seq` | reserve, deliver a frame, abandon, cancel and wait | sessions, handlers, agents | three goroutines on one job; bounded queue; capacity held until the agent confirms | capacity never exceeded nor leaked; gapless delivery; nobody left waiting |
| Handlers (`chat.go` chat, forward) | attempt, context, start timer, commitment | select, send, forward, retry, fail | jobs, buyers | a failure racing queued data; contexts ending mid-send; one retry only before the first byte | the buyer sees a gapless prefix of one generation; every buyer is answered |
| Wire peer (`wire/peer.go`) | two write queues, context, the frame being written | Send, Read, Close | both ends | a send that times out after the frame left; blocked writers | control before data; each sender's frames in order, none twice; nil means written; no call waits for ever |
| Agent (`agent.go`) | slots, active attempts, seen ids, heartbeats | connect, session, reserve, execute | coordinator, backends | cancel racing completion; slot released before the terminal frame | a slot per attempt; exactly one terminal frame; never told busy by a conforming gateway |
| Stream observer (`usage.go`) | line and event buffers | Feed, Finish | agent | arbitrary cuts of the stream | the same verdict for every cut |
| Managed lifecycle (`dashboard.go`) | `running`, `cancel`, `runCtx`, agent | Start, Pause, Resume, Close, replaceConfig | agent | an old run's epilogue against a new run | at most one agent runs; enabled means running |
| Configuration store (`dashboard.go` save and handlers) | config in memory, file, temporary file | save, offers, prices, replace | lifecycle | concurrent saves and edits | no lost update, no torn file |
| History (`history/store.go`) | bbolt bucket keyed by time and kind | Record, Recent, Summary | dashboard | keys that collide or do not sort | every request counted once |
| Catalog, protocol (`protocol.go`), configuration (`config.go`) | none | validation | all | none | pure |
| Figures (`stats.ts` and the views that show them) | none; computed from the last refresh and the clock | buckets, totals, percentiles, rows per model, lines and bars | page | midnights, months, short days; absent usage and prices; one value, one bucket | figures, charts and tables agree; every percentile is one that was measured |
| Preferences (`main.tsx` Sidebar, `Schedule.tsx`) | menu order, folding, weekly grid; `localStorage` | drag and drop, toggle, presets, reload | browser | a storage that holds junk or refuses | every view reachable; a reload changes nothing |
| Page (`main.tsx` App and the views that call) | last data, error, gate, `busy`, the form of the open view | refresh every two seconds, session, availability, offers, prices, settings | dashboard API | polls, actions and answers overlap; torn and late refreshes; lost calls; ended sessions | actions exclude each other; an action is seen; forms keep what was typed; the page ends at the server's state |
| Installer, metrics, command lines, smoke test | none of interest | I/O and presentation | | | not modelled |

## Modules

| Module | Models | Uses |
|---|---|---|
| `Coordinator` | sessions, jobs, handlers and their environment | `Gateway` (refinement), `Lists` |
| `Gateway` | the promise to a buyer, abstractly | |
| `MCCoordinator` | instances for TLC | `Coordinator` |
| `CoordinatorProofs` | theorems | `Coordinator`, `SequenceLemmas` |
| `GatewayProofs` | theorems, among them the refinement | `CoordinatorProofs`, `Gateway` |
| `Agent` | a host agent: reconnection, session, slots, execution | |
| `MCAgent` | instances for TLC | `Agent` |
| `AgentProofs` | theorems | `Agent` |
| `Peer` | one end of a connection: the two write queues, `Send`, the write loop | |
| `MCPeer` | an instance for TLC | `Peer` |
| `PeerProofs` | theorems | `Peer` |
| `Managed` | the dashboard: lifecycle of the managed agent, configuration, its file | |
| `MCManaged` | instances for TLC | `Managed` |
| `ManagedProofs` | theorems | `Managed` |
| `Lists` | what the code does with a list in one pass: add up, share out by class, keep some, sort | |
| `Stats` | `stats.ts`: the pure functions of the page, as operators | `Lists` |
| `Views` | what the page shows of the last refresh, and the preferences it keeps | `Stats` |
| `MCViews` | an instance for TLC: calendar, events, prices, storages | `Views` |
| `Console` | the page as a client of the dashboard: polls, calls, forms | |
| `MCConsole` | an instance for TLC | `Console` |
| `SequenceLemmas` | lemmas: induction; elements moved, added up, shared out, kept, sorted | `Lists` |
| `ViewsProofs` | theorems | `Views`, `SequenceLemmas` |
| `ConsoleProofs` | theorems | `Console`, `SequenceLemmas` |

### How `Coordinator` corresponds to the code

Every goroutine of the gateway is a process with a control point, and a step is what runs
under `Coordinator.mu` or between two communications:

* `conn[s]` is where the `connect` of session `s` stands (`new`: hello not read;
  `registered`: in the map, welcome not sent; `reading`: in its read loop; `gone`:
  returned). `peer[s]` is the peer's context, `link[s]` the socket below it. They are two
  variables because `Peer.Close` cancels the context and the socket is closed later by an
  `AfterFunc`: in between frames are still read. `EndSession` is `remove` with the deferred
  `p.Close`.
* `jobs[s]` is `h.jobs`; `job[a]`, `events[a]`, `queued[a]`, `failure[a]`, `dropping[a]`,
  `started[a]`, `seq[a]` are the fields of the job of attempt `a = <<request, 0 or 1>>`.
  `deliver` is one of `DeliverViolation`, `DeliverDropped`, `DeliverQueued`,
  `DeliverOverflow`; its interleavings with `abandon` collapse to these, because a job's
  read loop is alone to touch `started`, `seq` and the deletion, and `dropping` only grows.
* `reaper[a]` is the goroutine `abandon` starts: writing `cancel`, then waiting.
* `pc[r]`, `attempt[r]`, `ctx[r]`, `starting[r]`, `out[r]`, `reply[r]` are `chat` and
  `forward` of request `r`. `out` is the body written so far, as attempt and sequence
  number; `reply` is how the response ended: an API error, complete, interrupted (the
  stream's error event, an aborted connection, or a write that failed), or abandoned
  (nothing can be written, the buyer is gone).
* `requested` records which request frames reached the socket. A failed `Send` may or may
  not have written the frame (`SendFails(r, written)`): the context ends while the frame
  is queued, or while `Write` runs.

What is abstracted: bodies are sizes and sequence numbers; HTTP statuses are the classes
`forward` distinguishes (ok, transient, other error, invalid); error codes are retryable or
final; the round-robin cursor is a free choice; credentials and TLS decide only who reaches
`connect`. `forward`'s check of a chunk before any status (`chat.go:160`) is unreachable by
`StreamGapless` (a chunk follows its start) and has no action. When `forward` returns, the job's
channels have lost their only reader, and the model resets them (`Leave`); likewise the catalog
and heartbeat of a session that ended.

The environment is any agent that speaks only of attempts it received, at any time and in
any order, including violations of the protocol; links that stall or break; buyers that
leave; deadlines that pass; an operator who closes the gateway.

### `Gateway`

A buyer's response comes from at most two generations, is a gapless prefix of one, is never
replaced once a byte was shown, and is presented as complete only if it was shown whole.
`GatewayPromise` is the refinement: `made` is `j.seq` (`madeOf`), `over` a queued `response_end`
(`overOf`), `phase` what the handler is at (`phaseOf`), `body` is `out`. The handler resets what
it maps when it leaves, so a retry is one `Regenerate` and an ending one `Conclude`.

### How `Agent` corresponds to the code

* `run` is where `Run` and `session` stand: `down` (between sessions), `dialing` (discovery,
  upgrade, hello), `up` (the read loop), `ending` (the deferred `cancel`, `Close`,
  `wg.Wait`), `stopped` (`Run` returned). Backoff is a free delay.
* `peer` has three values, because `Peer.Close` (`closed`) ends only the peer while the end
  of the session's context (`cancelled`) ends every attempt with it; the heartbeat and
  catalog goroutines turn one into the other (`PeerDone`, `Watchdog`).
* `active`, `seen`, `ready` are the slots, the id set and what discovery found. An attempt's
  goroutine stands at `step[i]`: `chat` (waiting for the backend), `starting` or `rejecting`
  (about to send `response_start` of a stream or of an error status), `streaming`, `finish`
  (about to return from `execute`), `released` (slot given back, terminal frame unsent).
  `Release` is the deferred function of `execute`, the release and the removal from the
  `active` map in one step.
* `wire[i]` is what the socket got of an attempt. A send that succeeds writes its frame; one
  that fails may have written it (`MaybeWritten`), and may have closed the peer: a context
  that ends during `conn.Write` closes the connection.
* With `Conforming` the gateway is the `selectJob` of the coordinator: fresh ids, and no
  more than `Capacity` attempts whose terminal frame it has not seen. Without it the
  gateway sends anything.

What is abstracted: bodies, statuses and error codes; why `reserve` refuses, except for
`busy`; which heartbeat an acknowledgement answers (`HeartbeatAck` is one that counts);
events for the dashboard.

### How `Peer` corresponds to the code

* A sender is a goroutine that calls `Send`, one call at a time: a read loop, the heartbeat, an
  attempt. `at[s]` is the `select` it stands at: `control` or `data`, at the first with the queue
  that its frame's type gives it, or `wait`, at the second. A frame is a sender and the number of
  its call.
* `ended[s]` is the context of the call, which five seconds or the caller end (`Expire`).
  `defer cancel()` ends it too, so a frame whose call has returned is `Dead`, which is what
  writeLoop finds at peer.go:81. `done[s]` is the channel of the call, `Say` the send to it: it has
  a slot of its own, and nobody reads that of a call that has returned.
* `loop` is where `writeLoop` stands: `poll`, the first `select`; `select`, the second; `check`,
  about to look at the frame it took; `write`, in `conn.Write`; `over`, returned. Whatever several
  ready cases of a `select` there are, any is taken.
* The socket is the environment: `up`, `stalled` (the other end does not read), `down`. A write on
  a stalled socket ends only with its context or with the socket; one that fails because its
  context ended may have reached the other end. `CloseNow` is the `AfterFunc`.
* `passed`, a history variable, counts the chunks taken in a row while a control frame waited.

`Coordinator` and `Agent` use of this what its properties say: a send writes its frame once, in
order, or fails and may have written it, and it ends. Encoding a frame, which cannot fail for the
messages the program builds, is left out.

### How `Managed` corresponds to the code

* A handler `w` is the goroutine of one HTTP request. `job[w].at` is the next region it will
  enter: `copy` and `install` (the second and third lock of a model offer, of which a
  configuration enters at `install`), `cancel` and `cancelOnly` (the call of a cancel
  function it read under the lock; `cancelOnly` returns afterwards, `agent.New` having
  failed), the steps of `save` (`snapshot`, `open`, `write`, `rename`), `start`.
* `current` is `m.cancel`, and also `m.running` and `m.runCtx`: the code sets and clears the
  three together, except in `Close`, after which the process ends. `run[r]` is one goroutine
  of `Start`: `live` in `agent.Run`, `over` before its epilogue.
* `config` copies by value the two flags of `Availability` (as `sharing`, the only thing the
  code asks of them) and by reference the backend lists and the price map: `lists` and `maps`
  are those objects. So a copy held by a handler sees an offer made meanwhile, but not a pause.
* `file` and `tmp` are contents: whole, empty after `O_TRUNC`, or torn (a write over longer
  content, or one that failed). `job[w].fd` follows the open file through renames: the file a
  handler writes may already be the configuration file (`path`), or replaced there (`lost`).
* `Exit` is an interrupt, a crash, or Go stopping the process for an unlocked map; `Boot`
  reads the file, and cannot if it is not whole or not valid.

What is abstracted: what lists and prices contain (the number of the edit that made them) and
what `Validate` objects to (a verdict per list: an offer reaches `agent.New` unchecked); offers
that change nothing; history events; requests that only read.

An offer edits a slice that the agent's copy of the configuration shares (dashboard.go:573); the
model keeps the lists of an agent as they were when it was made, which is what a replacement
through `PUT /config` gives it, since that brings lists of its own.

The history variables name what the properties except. `cleared` and `refused` are sets of runs:
those another's epilogue cleared, and those stopped for a configuration that `agent.New` refused.
`Controlled`, `OneRunPerAgent` and `OffersInForce` speak of every other run, also after such a
thing has happened, so they say that no other step of the code loses a run, doubles one or
leaves it behind. That the cleared run is lost is what the code does; `Allowlisted` is
`OffersInForce` without the exception, and does not hold (below). `overlapped` (two saves at once)
and `failed` (the last save) are facts of the whole process, for the file is one: overlapping
saves do tear it, and `FileWhole` and `Saved` say that nothing else does, a death at any step of
any save included.

### How `Stats` and `Views` correspond to the code

* `Stats` has one operator per function of `stats.ts`, named as there. Time is in ticks and
  the calendar is a constant: local midnights, and the days on which months begin, so that a
  day of 23 or 25 hours is an ordinary member of it. Money is in millionths of the unit of a
  rate and rates of change are rounded down, which drops floating point and nothing else: the
  properties compare sums and orders. A price field is a number, `Blank` or `Garbage`, the
  three things `parsePrice` tells apart. `reduce`, `filter`, `sort` and the loops that fill buckets
  are `Total`, `Where`, `Ascending` and `Shared` of `Lists`; `MaxOf` is `Math.max(0, ...)`. The
  rank of a percentile is the ceiling of the exact ratio; for the two percentages the page uses,
  `(p / 100) * n` in doubles rounds up to the same rank (0.5 is exact, and 0.95 is nearer to its
  double than half a unit in the last place of any product that is an integer).
* What the operators assume: midnights ascend and reach back to every instant, the page is drawn
  at moments from which 30 days and the beginning of the year are in the calendar (`Reached`;
  what was recorded may be older), and durations and counts are not negative (usage.go:97).
* `Views` adds the page. `data` is what the last refresh brought, `now` the clock when the
  page was last drawn (each view reads it then), and the figures are operators over the two:
  the constants of `Overview`, `Finance`, `Performance` and `Runtimes`, `TokenBars` and
  `Line` for what is drawn. A refresh replaces all of `data`: the prices, what the runtimes and
  the offers are (`Listings`) are any the server may hold, and the history is the last one or has
  one event more in front, newest first, as the API sends it. The volume without a price is two
  figures: Overview adds up what was served on the models on offer (`unpricedTokens`,
  Overview.tsx:20), Finance what was served on any discovered model (`financeUnpricedTokens`,
  Finance.tsx:25).
* `order`, `expanded`, `dragIndex`, `grid` are React state of the menu and the schedule,
  `storage` is `localStorage`. What it may hold at first is any member of `Storages`: nothing,
  an earlier order, an order of the right length with a view twice and another missing, a
  schedule that is none; or it refuses every access. `Drop` is `reorder` (two `splice`s), with
  a drop that comes from outside the menu and one onto itself.

### How `Console` corresponds to the code

* A member of `tasks` is one asynchronous function of the page under way: a poll, or a handler
  of a button. `phase` is the `await` it stands at: its call is `sent`, `answered` (served, the
  callback not yet run), or it is `refreshing`. The page runs one callback at a time, so a step
  is what runs between two `await`s.
* `log` holds every state the server was in. `refresh` asks for six parts in parallel, so its
  answer is torn: each part may be from any moment between the start (`since`) and the end of
  the refresh (`Answers`). What the server does with a call is `Apply`, one step here and many
  in `Managed`: an operator per handler (`Pause`, `Resume`, `models`, `prices`, `configuration`,
  `replaceConfig`). `Elsewhere` is another page, the command line, or the end of a stopped run.
* `draft` is the state of the form of the view that is mounted: `Mounted` its first value,
  `Adopted` the effects of `Finance.tsx:11` and `Settings.tsx:10`. `Draw` unmounts: a view that
  is left, or hidden by the gate, loses its form, and the answer of a call it made no longer
  reaches one (`live`). `edited` is history: the models whose price was typed in this form.
* `session` is the cookie. A call without it is refused; a part of a refresh that is refused
  shows the gate, while the parts before it may have been asked for with it (`auth`).

What is abstracted: the six parts are four (status, offers, prices, configuration: the two of
figures belong to `Views`); texts of errors (one is shown or not); the two rates of a price are one value, `None` when
both are blank, which is what Save posts of a model nobody has priced;
one field of the settings, and the state of sharing, offers and prices that a saved draft
carries along.

## Runs

| Run | Instance | Checks |
|---|---|---|
| `Stream` | 2 hosts, one with a second digest of the model, 1 request, up to 2 chunks of 2 bytes, queue of 2 slots and 3 bytes, 1 disruption | `TypeOK`, `RetryDiscipline`, `StreamGapless`, `QueueBounded`, `GatewayPromise` |
| `Contention` | 1 host that reconnects (2 sessions), 2 requests for its single slot, 1 disruption, requests symmetric | `Registration`, `CapacityRespected`, `NoLostWakeup`, `NoOrphan` |
| `Eventually` | 2 hosts, 1 request, 1 disruption, fairness | `SilentHostEvicted`, `ShutdownDrains`, `Answered`, `Reclaimed` |
| `Unruly` | an agent with 2 backends of one slot, 2 attempts, 2 chunks, 1 session, any gateway, attempts symmetric | `SlotsCounted`, `TerminalFreesSlot`, `WireOrdered` |
| `Obedient` | an agent with 1 backend of one slot, 2 attempts, 2 sessions of 2 ids, a conforming gateway, fairness | `NeverBusy`, `CleanStart`, `EveryAttemptEnds`, `SilentGatewayLeft`, `InterruptStops` |
| `Peer` | 2 senders of 2 frames each, queues of one slot, fairness | `SendOrder`, `SentIsWritten`, `ControlFirst`, `SendReturns`, `CloseCompletes` |
| `Dashboard` | 2 handlers (symmetric), 3 requests, 3 runs, crashes and failing saves | `Controlled`, `OneRunPerAgent`, `OffersInForce`, `FileWhole`, `Saved` |
| `Withdrawn` | 1 handler, 2 requests, 2 runs | a divergence, below |
| `WelcomeFirst` | 1 host, 1 request, 3 disruptions | a divergence, below |
| `Views` | 2 runtimes with a model each, 3 events (requests with and without a model, a pause), 3 lists of prices, 3 listings, 3 steps, around the midnight that ends a January whose last day has 23 hours | `NearestRank`, `BucketsPartition`, `FiguresAgree`, `ChartDrawable`, `PreferencesKept` |
| `Console` | 1 model, 2 changes of the server, 2 calls or refreshes at once, 1 fault, fairness | `BusyWhileActing`, `OwnActionShown`, `PollsKeepDrafts`, `Recovers` |
| `Finance` | as `Console` with 1 change | a divergence, below |

Deadlock is checked for the page (`Console`), which polls for ever, and not elsewhere: a closed
peer stops; requests are finite in number and each ends, so does every session; requests to a
dashboard are finite too, and a damaged configuration file stops a host for good; `Views` ends
with its bound.

**Bounds.** `MaxSeq` bounds the chunks of an attempt; `EventSlots` (10 in the code) and
`QueueBytes` (262144) are small so that both overflow: with 2 chunks of 2 bytes a queue of 2
slots and 3 bytes fills by count (start and a chunk, then the next frame) and by bytes (the
second chunk, the start having been read). `MaxDisruptions` bounds what comes from outside and is
not time: stalled and broken links, misbehaving agents, buyers that leave, a shutdown. Deadlines,
time-outs and evictions come on top of them and are not bounded; the proofs allow any number. Two
sessions are enough for a reconnection, two hosts for a retry (the code makes at most two
attempts), two requests and one slot for contention; a third of either adds no new pair of
processes. A host advertises the same catalog again in these runs, a larger one would not finish
in time; that it may change between two attempts is left to the theorems, which hold for any
catalogs. For the agent, two attempts compete for a slot and race each other's end; two chunks
are the first gap there can be; `SeenLimit` (100000 in the code) is 2, so a session is ended by
it; a second session shows what the first leaves behind. For a peer, one slot (64 in the code) is
full with one sender's frame and keeps the other waiting; a second frame is what a sender sends
after one it gave up. For the dashboard, two handlers race at every pair of steps, a third
request finds what two left; three runs are the first, one that replaced it and one more. The
proofs lift these bounds for the properties they are about.

For the page's figures, an instant is one of three in ticks of five minutes: a midnight, the
last tick before the next one, which is the first of a month, and that midnight. Three events
are the least for which a median, a 95th percentile and a mean differ, and fill two buckets or
a bucket twice. Figures and preferences share no variable, so `MCNext` explores them apart: all
histories on an untouched page, all uses of menu, views and storage on an empty one. Three
steps are a drag, a drop and a reload, or three refreshes of which each brings an event, prices
and a listing: every history of one or two events comes with every pair of the latter two, every
history of three with a list that prices one model of two, the other being on offer, at the last
of the three instants. The listings have a model on offer whose runtime is gone, one on offer
without a price, and one withdrawn. The proofs are for histories of any length, any calendar
and any instants. For `Console`, two calls or refreshes at once are every
pair that can overlap and overtake one another; two changes are the page's own and a foreign
one, before or after it; one fault is a lost call, a wrong token or an ended session.

**Fairness** (`Liveness`). Steps of goroutines that can run are taken: the read loop's exit on a
dead socket, the ticker, the `AfterFunc` that closes the socket, the welcome, handlers, reapers.
Each wait in the code has a timer: `WriteTimeout` for a send, five seconds for a reaper, the
request's deadline for a handler (`Expire`). The heartbeat of a stalled link ages. In `Agent` the
job's deadline passes (`Expire`), a dead context ends `Chat` and the body's reads, and a
handshake ends. In `Peer` the five seconds of a call pass, a `select` with a ready case goes on,
and the `AfterFunc` runs; the other end need never read. In `Console` the interval fires for
ever, and the oldest call or refresh ends, which a browser sees to: a call is answered or fails.
The user is under no obligation, not even to unlock the gate, so `Recovers` speaks of behaviours
in which the browser keeps its session from some time on. Nothing is assumed of agents, gateways,
backends or buyers: they may stay silent for ever. One condition covers all such steps of a
session, an attempt or a request, which is weaker than one each.

## Divergences from the documentation

1. `WelcomeFirst`: docs/protocol.md:23 "No work is assigned before `welcome` is sent."
   `connect` registers the host (coordinator.go:164) and then sends welcome (:167); a
   concurrent `selectJob` can send a request first, which the agent takes for an invalid
   welcome.
2. `Allowlisted`: README.md:23 "only allowlisted models are advertised to the coordinator." When a
   replacement starts a new run before the old one has returned, the old one's epilogue
   (dashboard.go:141) clears the cancel function of the new one. The next change of the offers
   finds none (:683, :696), installs a new agent and leaves the run at work with the lists of the
   agent it was made from: a withdrawn model is advertised and served until the process ends.
3. `AdoptsUnedited`: frontend/src/views/Finance.tsx:10 "Adopt server prices for any model the
   user has not started editing." The effect (Finance.tsx:11) lets what is in the form win, and
   what it adopted once is in the form: a price changed elsewhere is never adopted again, and
   Save posts the old one.

Divergences that need no run, each plain from a line or two of the code:
frontend/src/main.tsx:86 shows `sharing paused` after a Pause, but `Pause(false)` (dashboard.go:149)
changes only the configuration in memory and on disk, and the agent that runs has a copy, stays
connected and takes new requests; frontend/src/views/Finance.tsx:45 labels the unpriced volume
"tokens on N offered models", N being `unpricedOffered`, but the figure (:25) counts what was
served today on any discovered model without a price, also one that has been withdrawn since (what
`UnpricedEarnsNothing` says of the two figures is the most that holds);
frontend/src/views/Settings.tsx:59 says "Unsaved changes are kept until you leave this page.", but
a refused poll puts the gate in place of the view (main.tsx:97), and the form starts anew after it,
which is why `PollsKeepDrafts` speaks of refreshes that leave the view in place.

Behaviour of the coordinator seen without a run, in which text and code may be reconciled: if
the buyer's context ends during `Send`, chat.go:59 closes the peer, and every other buyer of
that host loses its attempt (docs/protocol.md:107 speaks of a `cancel`); a job abandoned before
its request was sent (chat.go:52) is cancelled at an agent that does not know it, which does not
acknowledge and so loses its session (coordinator.go:315; docs/protocol.md:110 calls unknown
cancellations harmless).

Behaviour of the page that no text contradicts: between two refreshes an older state may be
shown, because an answer overtaken by a newer one is not discarded (main.tsx:34); saving the
settings writes the whole configuration the form took when it was opened, and undoes a pause, a
price or an offer made since (Settings.tsx:22).

Behaviour seen while modelling `Managed` that no text of the repository contradicts, so that
no run claims one: a Resume right after a Stop starts nothing (dashboard.go:131, the
old run is still current) and the host stays off; a model offer undoes a pause that came between its copy and its installation (dashboard.go:590); a
configuration that `agent.New` refused stays in memory (dashboard.go:686), the next save
writes it, and no later start accepts the file; a replacement whose save failed leaves the
host off (dashboard.go:702); two saves at once can leave the file empty or torn
(dashboard.go:193).

## Proofs

`CoordinatorProofs` proves, for every set of hosts, sessions and requests, every catalog,
capacity, queue limit and bound, from the assumptions named in `Coordinator`:

* `TypeCorrect`: `Spec => []TypeOK`, inductive as it stands, one lemma per group of actions.
* `RegistrationHolds`: `Spec => []Registration`, inductive with `TypeOK`. `ConnSteps`
  reduces a step to the few that touch the registry.
* `NoOrphanHolds`: `Spec => []NoOrphan`. Not inductive: `NoOrphan` allows an abandoned
  attempt whose handler still stands at `selected`. The strengthening is `Placement` (an
  attempt is placed by the handler that is at it, before anything abandons it; a reservation
  is where the job says) and `Custody` (a reservation is its handler's exactly until it is
  abandoned, from then on the reaper's or the end of the session's). `CustodySteps` reduces
  a step to four shapes: a selection, a handler leaving, a frame taken, a reaper's step.
* `CapacityHolds`: `Spec => []CapacityRespected`, with `Placement`: a selection adds one
  attempt to a backend that had room, no other step adds any (`ActiveShrinks`).
* `QueueBoundedHolds`: `Spec => []QueueBounded`: the slots of a queue, the bytes in it, and that
  the counter `queued` is the sum of the sizes of what is queued.
  `QueueSteps` reduces a step to a frame put in, a frame taken out, and a queue reset;
  `SizesAppend` and `SizesTail` say what the first two do to the sum.

`GatewayProofs` proves what a buyer is promised, on the same assumptions. One inductive
invariant, `IInv`, carries all four theorems: `TypeOK`, `Placement` and `Registration` with

* `Unread`: of an attempt that no handler reads nothing is kept, and its late frames are
  dropped. Without it a retry could start on what an earlier attempt left.
* `Body`: what was shown is chunks 1, 2, 3, ... of the current attempt, and nothing before one
  is forwarded.
* `Reception`: the queue of the attempt that is read is `Sound`: in order, `response_start` in
  front unless it was read, a terminal frame only at the end, and as many chunks shown and
  queued as were received, unless one was lost, in which case the failure is recorded. This is
  where `OutOfOrder`, the queue's limits and `forward`'s reads meet. Four lemmas on queues as
  data (`SoundAppend`, `SoundLose`, `SoundStart`, `SoundChunk`) say that each way a queue
  changes keeps it so.
* `Disconnected`: `host_disconnected` is told only of a session that is gone, which keeps the
  retry away from the host it fled.
* `Succession`: how a second attempt relates to the first one.
* `Awake`: a handler whose session or reservation is gone has been told.

`FlowSteps` reduces a step to ten shapes (selections, frames recorded, ignored and taken, the
end of a session, a handler that leaves), and each part has one lemma over them. From `IInv`
follow `StreamGaplessHolds`, `RetryDisciplineHolds` and `NoLostWakeupHolds`, and
`GatewayHolds`: `Spec => GatewayPromise`, where `LeavesRefines`, `RecordsRefines` and
`TakesRefines` map the steps of a generation, and a step that is neither one of these nor the
acceptance or refusal of a request stutters.

`AgentProofs` proves, for every set of backends and attempts and every concurrency:

* `TypeCorrect`, `SlotsHold`, `CleanStartHolds` from one inductive invariant: the types, the
  slot count (`active[b]` is the number of attempts executing on `b`, which is why it never
  goes below zero), `Unseen` (an id not seen has no goroutine and no frame) and `NoneLeft`
  (a session that is over has no goroutine, so that `Welcome` forgets nothing).
  `SlotSteps` reduces a step to three shapes: slots kept, one taken, one freed.
* `TerminalFreesSlotHolds`, by the four shapes of `WireSteps`: nothing written, a new
  session, an attempt begun, one frame written.
* `NeverBusyHolds`: whoever executes has no terminal frame on the wire, so it is outstanding
  for the gateway too, and a backend full for the agent is full for the gateway
  (`FullForBoth`).
* `WireOrderedHolds`, from `Staging`: what an attempt has on the wire is determined, as far as
  order goes, by where its goroutine stands (nothing before `response_start`, a start and `seq`
  chunks while streaming, nothing terminal until the last frame). A frame that may follow keeps
  the frames in order (`OrderedAppend`); `ExecuteStaged` checks each send, failed ones included.

`PeerProofs` proves every invariant of `Peer`, for any set of senders, any number of frames and
queues of any length:

* `TypeCorrect`, from `Typed`: a sender that is in `Send` has a frame.
* `ControlFirstHolds`, from `Rested`: the loop has looked for a control frame since the last chunk.
* `SendOrderHolds`, from `Tidy`: every frame is of a call that was made (`Known`) and nowhere before
  it is queued (`Fresh`), it is at one place only (`Apart`), and what is being written is later than
  all its sender has on the wire (`Latest`). The last is why the check at peer.go:81 matters: the
  queues say nothing of the order of two frames of one sender, but only the frame of a call that has
  not returned is written. `OrderSteps` reduces a step to six shapes.
* `SentIsWrittenHolds`, from `Reported`: what the loop has said of a call, and what the last one
  returned, is on the wire, which only grows.

`ManagedProofs` proves every invariant of `Managed`, for any number of concurrent requests, runs
and restarts:

* `TypeCorrect`, from `Typed`, which adds that a handler that is to cancel has a run in hand.
* `ControlledHolds` and `OneRunPerAgentHolds`. `RunSteps` reduces a step to five shapes: nothing
  changes for the runs, one is started, one returns or has its epilogue, the agent is replaced,
  the process starts or ends. `AgentsDiffer` is the strengthening of the second: of the runs that
  were neither cleared nor stopped for a refused configuration, only the current one has the
  newest agent, so the next start, which needs that no run is current, gets an agent that none of
  them has. Each exception is of single runs: the proof shows that the damage does not spread.
* `OffersInForceHolds`, from `OffersFit` (until every edit of the lists is installed, a handler
  stands before its installation) with `Controlled` and `AgentRuns` (the current run has the newest
  agent): with no request in progress, a run that works is the current one, and so of the agent made
  from the lists in memory.
* `FileWholeHolds` and `SavedHolds`. `SaveSteps` reduces a step to those of a save, those beside
  it, and the process's. `Unbroken`: while no saves overlapped, the one that saves has the
  temporary file for itself. `InStep`: what is about to be put in place is the configuration in
  memory, or another save is to follow; every edit leaves such a handler behind.

`ViewsProofs` proves every invariant of `Views`, for any menu, storages, calendar, history and
prices that satisfy the assumptions named in `Stats` and `Views`:

* `PreferencesHold`: `Spec => []PreferencesKept`. The invariant `Kept` adds to the property that
  the menu always shows every tab (so that what `load` makes of the stored order is that order,
  `CompleteIsLoaded`) and that the storage has the page's fields. A move keeps the menu complete
  because taking a tab out and putting it in elsewhere loses none (`MoveKeeps`).
* `TypedHolds`: what the page holds is a history of recordable events none of which is later than
  the clock, prices that are numbers, and a moment in reach of the calendar. The figures are
  computed from these whenever the page is drawn, so what follows is shown of any such page.
* `BucketsPartitionHolds`. `BucketsFollow`: the buckets of each range ascend and begin no later
  than now. `BucketOf`: in such a list an instant is in exactly one bucket, or older than all.
  `BucketsShareOut`: the sums of the buckets add up to the sum over the events that have one,
  from `SharedIs` (what is shared out over classes adds up to what is left in).
* `NearestRankHolds`. `RankIs`: at place k of the numbers in order, fewer than k are smaller and
  at least k are not larger; `CeilingIs` fixes k. That the order exists at all is `SortsExists`.
* `FiguresAgreeHold`: the revenue of a day or month beside the chart is that of its bucket
  (`BucketIs`: both are sums over the same events), the tokens of the week are the same in two
  views (`DaysAgree`, from `DayFound`), the rows per model add up to the totals (`RowsAddUp`:
  every event is in the row of its model and in no other), today's volume is shared out between
  what has a price, what has none and the rest, the first having earned everything
  (`VolumeIsSharedOut`, from `ThreeParts` and `AllInPart`), and Overview's unpriced volume is
  within Finance's, and equal to it but for withdrawn models (`PartOfPart`).
* `ChartDrawableHolds`: bars stay in their boxes and lines in theirs (`ShareIs`, `LineIs`), the
  median is no longer than the 95th percentile (`MedianIsLess`), and a chart said to be empty is.

`ConsoleProofs` proves, for any models, prices, addresses and bounds on calls and faults:

* `BusyHolds` and `OwnActionHolds` from the invariant `Orderly`: at most one task is an action
  and the buttons are disabled while it is there (`Exclusive`); the effect of an accepted call
  is a state the server has been in, and the refresh that follows started no earlier (`Ordered`).
  Neither property is inductive: that an answer shows nothing older than the call rests on when
  its refresh was started, several steps before. Three lemmas say what adding a task, going on
  with one and ending one do to the invariant; each step of the page is one of them.
* `DraftsHold`, with `Forms`: the form knows every price edited in it, and only the form of the
  settings waits for an answer. `OrderlyByStep` shows that only the end of a refresh takes a
  task away and touches a view.

`SequenceLemmas` holds what these proofs need of data. The library's induction theorems take an
operator as a parameter, which no installed prover instantiates, so `Induction` is derived from
the well-foundedness of the naturals, with a set in place of the operator, and from it
`Recursion` (what a function defined by recursion on an interval is) and `SequenceInduction`. The
lists of `Lists` are recursive functions for this reason; each has a lemma per step of the list
and lemmas on the whole (sums of sums, sums of what is kept, sums over classes).

The `TypeOK` of `Agent`, `Peer` and `Managed` is proved and needs no run. Only model-checked are
the liveness properties (`SilentHostEvicted`, `ShutdownDrains`, `Answered`, `Reclaimed`,
`EveryAttemptEnds`, `SilentGatewayLeft`, `InterruptStops`, `SendReturns`, `CloseCompletes`,
`Recovers`), which rest on fairness and so on ENABLED, for which the prover has no rules. The
three divergences that have a run are counterexamples, and TLC's.

## Plan

1. `Coordinator`, `Gateway`, `Agent`, `Peer`, `Managed`, `Stats`, `Views`, `Console`: done,
   and their safety proved.
2. `Relay`, composing agent and coordinator over FIFO links, would show that the agent's frames
   are ones `deliver` takes (`WireOrdered` states that side by side) and that an attempt
   executes at most once.
3. `History` (keys and totals), `Observer` (stream cuts, against
   a reference parse), `Selection` (round robin).

## Not modelled

Installer, metrics, command lines and the fake backend (I/O and wiring), the model listing
(presentation), configuration validation (pure), backends (HTTP services), TLS and credential
checks (they guard the entry and keep no state). Of the page: markup, number and date formats,
names of runtimes and models, the removal of a model and the form that installs one, the built
asset and its build file. Of the Go code: history, stream observer and the
round-robin cursor, as planned above.
