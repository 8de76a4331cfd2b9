------------------------------ MODULE Console ------------------------------
(***************************************************************************)
(* The dashboard page as a client of the managed host (main.tsx and the    *)
(* views that call it): it polls the server every two seconds, keeps what  *)
(* the last refresh brought, and sends what the user asks for.             *)
(*                                                                         *)
(* A step is one callback of the page (an interval, a click, the answer to *)
(* a call) or one event on the server.  A refresh asks for its six parts   *)
(* in parallel, so each part of its answer may show another moment between *)
(* its start and its end, and several refreshes may overlap.  Another page *)
(* or the host itself may change the server at any time (Managed says how  *)
(* the server does it).  Calls may be lost before or after they took       *)
(* effect, and the session of the browser may end.                         *)
(***************************************************************************)
EXTENDS Integers, Sequences, SequencesExt

CONSTANTS
    Names,       \* models
    PriceValues, \* what can be typed as a price
    Urls,        \* what can be typed as the coordinator's address
    FirstConfig, \* the configuration when the page is opened
    None,        \* no value; a price of which nothing was typed
    MaxChanges,  \* bound on the changes of the server
    MaxTasks,    \* bound on the calls and refreshes that overlap
    MaxFaults    \* bound on lost calls, wrong tokens and ended sessions

Configs == [sharing : BOOLEAN, offers : SUBSET Names, url : Urls \cup {FirstConfig.url},
            prices : UNION {[S -> PriceValues \cup {None} \cup Range(FirstConfig.prices)] :
                               S \in SUBSET Names}]

ASSUME ConsoleAssumption ==
    /\ MaxChanges \in Nat /\ MaxTasks \in Nat \ {0} /\ MaxFaults \in Nat
    /\ FirstConfig \in Configs /\ FirstConfig.sharing

VARIABLES
    log,          \* the states the server has been in, the current one last
    session,      \* the browser holds the session's cookie
    tasks,        \* what the page waits for, in the order it was started
    data,         \* what the last refresh brought
    error,        \* an error is shown
    authRequired, \* the gate is shown instead of the views
    busy,         \* the availability buttons are disabled
    tab,          \* the view chosen in the menu
    draft,        \* the form of the view, None when it has none
    edited,       \* the models whose price the user has edited in this form
    faults        \* faults so far

vars == <<log, session, tasks, data, error, authRequired, busy, tab, draft, edited, faults>>
serverVars == <<log, session, faults>>
viewVars == <<data, authRequired, tab, draft, edited>>

Tabs == {"Overview", "Models", "Finance", "Settings"}
---------------------------------------------------------------------------
(* The server. *)

server == Last(log)

Spread(f, g) == [x \in DOMAIN f \cup DOMAIN g |-> IF x \in DOMAIN g THEN g[x] ELSE f[x]]

\* A new agent replaces the old one, and runs if that did and sharing is on.
replaceConfig(c, s) == [config |-> c, running |-> s.running /\ c.sharing]

Pause(s) == [s EXCEPT !.config.sharing = FALSE]
Resume(s) == [config |-> [s.config EXCEPT !.sharing = TRUE], running |-> TRUE]

\* Pause and stop say the same; the run that a stop cancels ends later.
availabilityOf(arg, s) == IF arg.action = "resume" THEN Resume(s) ELSE Pause(s)

models(arg, s) ==
    replaceConfig([s.config EXCEPT !.offers = IF arg.offer THEN @ \cup {arg.model} ELSE @ \ {arg.model}], s)

prices(arg, s) == [s EXCEPT !.config.prices = Spread(@, [m \in {arg.model} |-> arg.price])]

configuration(arg, s) == replaceConfig(arg, s)

\* What a call of the page's API makes of the server.
Apply(op, arg, s) ==
    CASE op = "availability" -> availabilityOf(arg, s)
      [] op = "toggle" -> models(arg, s)
      [] op = "price" -> prices(arg, s)
      [] op = "config" -> configuration(arg, s)

Become(s) == log' = Append(log, s)

\* Requests of another page, and the end of the agent's run after a stop.
Elsewhere ==
    /\ Len(log) + Len(SelectSeq(tasks, LAMBDA t : t.phase = "sent")) <= MaxChanges
    /\ \/ \E action \in {"pause", "resume"} : Become(availabilityOf([action |-> action], server))
       \/ \E m \in Names, p \in PriceValues :
             Become(prices([model |-> m, price |-> p], server))
       \/ server.running /\ ~server.config.sharing /\ Become([server EXCEPT !.running = FALSE])
    /\ UNCHANGED <<session, tasks, viewVars, error, busy, faults>>

SessionEnds ==
    /\ session /\ session' = FALSE
    /\ faults < MaxFaults /\ faults' = faults + 1
    /\ UNCHANGED <<log, tasks, viewVars, error, busy>>
---------------------------------------------------------------------------
(* The view that is mounted, and its form. *)

Shown(gate, t) == IF gate THEN "AuthGate" ELSE t
view == Shown(authRequired, tab)

emptyData == [status |-> [running |-> FALSE, sharing |-> FALSE], offers |-> {},
              prices |-> [m \in {} |-> None], config |-> None]

\* The first state of a form, after its effects have run.
Mounted(v, d) ==
    CASE v = "Finance" -> d.prices
      [] v = "Settings" -> d.config
      [] OTHER -> None

\* Mutant: the server's prices win.
AdoptedOver(v, d) ==
    CASE v = "Finance" -> Spread(draft, d.prices)
      [] v = "Settings" -> d.config
      [] OTHER -> draft

\* The effects of Finance and Settings when a refresh brings new data.
Adopted(v, d) ==
    CASE v = "Finance" -> Spread(d.prices, draft)
      [] v = "Settings" /\ draft = None -> d.config
      [] OTHER -> draft

\* The page is drawn anew; a view that is replaced loses its form, and the
\* answers its calls are waiting for no longer reach a form.
Draw(d, gate, t, ts) ==
    /\ data' = d /\ authRequired' = gate /\ tab' = t
    /\ IF Shown(gate, t) = view
       THEN draft' = Adopted(view, d) /\ edited' = edited /\ tasks' = ts
       ELSE /\ draft' = Mounted(Shown(gate, t), d)
            /\ edited' = {}
            /\ tasks' = [i \in DOMAIN ts |-> [ts[i] EXCEPT !.live = FALSE]]
---------------------------------------------------------------------------
(* Calls. *)

Task(op, arg) ==
    [op |-> op, arg |-> arg, phase |-> "sent", ok |-> FALSE, effect |-> 0,
     since |-> 0, auth |-> FALSE, live |-> op = "config"]

\* Mutant: the refresh is not started after the answer but with the call.
RefreshingAtOnce(t) ==
    [t EXCEPT !.phase = "refreshing", !.auth = session,
              !.since = IF t.effect > 1 THEN t.effect - 1 ELSE Len(log)]

\* refresh starts: all its parts are asked for.
Refreshing(t) == [t EXCEPT !.phase = "refreshing", !.since = Len(log), !.auth = session]

\* To open the page or a session is over but for the refresh.
Alone(t) == [Refreshing(t) EXCEPT !.op = "poll", !.ok = FALSE, !.effect = 0]

\* Every call in flight may change the server once more.
Room ==
    /\ Len(tasks) < MaxTasks
    /\ Len(log) + Len(SelectSeq(tasks, LAMBDA t : t.phase = "sent")) <= MaxChanges

Call(op, arg) ==
    /\ Room
    /\ tasks' = Append(tasks, Task(op, arg))
    /\ UNCHANGED <<log, session, viewVars, error, faults>>

\* Mutant: the page does not poll while the gate is shown.
PollUnlocked ==
    /\ ~authRequired
    /\ Len(tasks) < MaxTasks
    /\ tasks' = Append(tasks, Refreshing(Task("poll", None)))
    /\ UNCHANGED <<serverVars, viewVars, error, busy>>

\* The interval of two seconds, whatever is still in flight.
Poll ==
    /\ Len(tasks) < MaxTasks
    /\ tasks' = Append(tasks, Refreshing(Task("poll", None)))
    /\ UNCHANGED <<serverVars, viewVars, error, busy>>

\* One request reaches the server: it is refused, or takes effect.  The call
\* may be lost on the way there or back.
Serve(i) ==
    LET t == tasks[i]
        answered(ok, effect) ==
            tasks' = [tasks EXCEPT ![i] = [@ EXCEPT !.phase = "answered", !.arg = None,
                                              !.ok = ok, !.effect = effect]]
        takesEffect ==
            IF t.op \in {"open", "session"} THEN session' = TRUE /\ log' = log
            ELSE session /\ Become(Apply(t.op, t.arg, server)) /\ session' = session
    IN  /\ t.phase = "sent"
        /\ \/ /\ t.op \in {"open", "session"} \/ session
              /\ takesEffect /\ answered(TRUE, Len(log')) /\ faults' = faults
           \/ /\ t.op \notin {"open", "session"} /\ ~session
              /\ answered(FALSE, 0) /\ UNCHANGED serverVars
           \/ /\ faults < MaxFaults /\ faults' = faults + 1
              /\ answered(FALSE, 0)
              /\ UNCHANGED <<log, session>> \/ takesEffect
        /\ UNCHANGED <<viewVars, error, busy>>

\* Mutant: there is no finally.
finallyForgotten(t, ok) == IF t.op = "availability" /\ ok THEN FALSE ELSE busy

\* What is left of busy when the handler of a call returns.
finally(t, ok) == IF t.op = "availability" THEN FALSE ELSE busy

\* The handler of a call goes on with the answer.
Answer(i) ==
    LET t == tasks[i]
        refreshing == [tasks EXCEPT ![i] =
            IF t.op \in {"open", "session"} THEN Alone(t) ELSE Refreshing(t)]
        over == RemoveAt(tasks, i)
    IN  /\ t.phase = "answered"
        /\ UNCHANGED serverVars
        /\ CASE t.op = "session" /\ t.ok ->
                    /\ Draw(data, FALSE, tab, refreshing)
                    /\ error' = FALSE /\ busy' = busy
             [] t.op = "open" ->
                    /\ tasks' = refreshing
                    /\ error' = (error \/ ~t.ok) /\ UNCHANGED <<viewVars, busy>>
             [] t.op = "config" /\ t.ok /\ t.live ->
                    /\ \E k \in t.effect .. Len(log) : draft' = log[k].config
                    /\ tasks' = refreshing
                    /\ UNCHANGED <<data, authRequired, tab, edited, error, busy>>
             [] t.op \notin {"session", "open"} /\ t.ok /\ ~(t.op = "config" /\ t.live) ->
                    /\ tasks' = refreshing
                    /\ UNCHANGED <<viewVars, error, busy>>
             [] t.op # "open" /\ ~t.ok ->
                    /\ tasks' = over
                    /\ error' = (error \/ t.op # "config")
                    /\ busy' = finally(t, FALSE)
                    /\ UNCHANGED viewVars

\* The server as a refresh may see it, each part at a moment of its own.
Answers(since) ==
    LET seen == {log[k] : k \in since .. Len(log)}
    IN  {[status |-> [running |-> s.running, sharing |-> s.config.sharing],
          offers |-> m.config.offers, prices |-> p.config.prices, config |-> c.config] :
            s \in seen, m \in seen, p \in seen, c \in seen}

RefreshSucceeds(i) ==
    LET t == tasks[i] IN
    /\ t.phase = "refreshing"
    /\ t.auth \/ session
    /\ \E d \in Answers(t.since) : Draw(d, FALSE, tab, RemoveAt(tasks, i))
    /\ error' = FALSE /\ busy' = finally(t, TRUE)
    /\ UNCHANGED serverVars

\* One part was refused for want of a session, or was lost.
RefreshFails(i) ==
    LET t == tasks[i] IN
    /\ t.phase = "refreshing"
    /\ \/ /\ ~t.auth \/ ~session
          /\ Draw(data, TRUE, tab, RemoveAt(tasks, i))
          /\ faults' = faults
       \/ /\ faults < MaxFaults /\ faults' = faults + 1
          /\ tasks' = RemoveAt(tasks, i) /\ UNCHANGED viewVars
    /\ error' = TRUE /\ busy' = finally(t, TRUE)
    /\ UNCHANGED <<log, session>>

Progress(i) == Serve(i) \/ Answer(i) \/ RefreshSucceeds(i) \/ RefreshFails(i)
---------------------------------------------------------------------------
(* The user. *)

\* The buttons of the top bar.
availability ==
    /\ ~busy /\ ~authRequired /\ busy' = TRUE
    /\ \/ data.status.sharing /\ Call("availability", [action |-> "pause"])
       \/ ~data.status.sharing /\ Call("availability", [action |-> "resume"])
       \/ data.status.running /\ Call("availability", [action |-> "stop"])

\* The gate. A wrong token is a fault.
authenticate ==
    /\ view = "AuthGate" /\ Room
    /\ \/ Call("session", None) /\ busy' = busy
       \/ /\ faults < MaxFaults /\ faults' = faults + 1
          /\ tasks' = Append(tasks, [Task("session", None) EXCEPT !.phase = "answered"])
          /\ UNCHANGED <<log, session, viewVars, error, busy>>

\* The rows of Models and of Finance: the models the last refresh brought.
Rows == IF data.config = None THEN {} ELSE Names

\* Models: the switch asks for the opposite of what it shows.
toggle ==
    /\ view = "Models" /\ busy' = busy
    /\ \E m \in Rows : Call("toggle", [model |-> m, offer |-> m \notin data.offers])

\* Finance: typing, and saving one model, of which nothing need have been typed.
edit ==
    /\ view = "Finance"
    /\ \E m \in Rows, p \in PriceValues :
          /\ draft' = Spread(draft, [x \in {m} |-> p])
          /\ edited' = edited \cup {m}
    /\ UNCHANGED <<serverVars, tasks, data, error, authRequired, busy, tab>>

savePrice ==
    /\ view = "Finance" /\ busy' = busy
    /\ \E m \in Rows :
          Call("price", [model |-> m, price |-> IF m \in DOMAIN draft THEN draft[m] ELSE None])

\* Settings: typing, and saving everything.
update ==
    /\ view = "Settings" /\ draft # None
    /\ \E url \in Urls : draft' = [draft EXCEPT !.url = url]
    /\ UNCHANGED <<serverVars, tasks, data, error, authRequired, busy, tab, edited>>

saveConfig ==
    /\ view = "Settings" /\ draft # None /\ busy' = busy
    /\ Call("config", draft)

SelectTab ==
    /\ \E t \in Tabs \ {tab} : Draw(data, authRequired, t, tasks)
    /\ UNCHANGED <<serverVars, error, busy>>

Dismiss ==
    /\ error /\ ~authRequired /\ error' = FALSE
    /\ UNCHANGED <<serverVars, tasks, viewVars, busy>>
---------------------------------------------------------------------------
\* The page is opened, by a link with a token or without one.
Init ==
    /\ log = <<[config |-> FirstConfig, running |-> TRUE]>>
    /\ session \in BOOLEAN
    /\ tasks \in {<<Task("open", None)>>, <<Refreshing(Task("poll", None))>>}
    /\ data = emptyData
    /\ error = FALSE /\ authRequired = FALSE /\ busy = FALSE
    /\ tab = "Overview" /\ draft = None /\ edited = {}
    /\ faults = 0

UserStep ==
    \/ availability \/ authenticate \/ toggle \/ edit \/ savePrice
    \/ update \/ saveConfig \/ SelectTab \/ Dismiss

Next ==
    \/ Poll \/ UserStep \/ Elsewhere \/ SessionEnds
    \/ \E i \in DOMAIN tasks : Progress(i)

\* The interval fires for ever and every call ends; the user does what he likes.
Fairness ==
    /\ WF_vars(Poll)
    /\ WF_vars(tasks # <<>> /\ Progress(1))

Spec == Init /\ [][Next]_vars /\ Fairness
---------------------------------------------------------------------------
(* Properties. *)

TypeOK ==
    /\ \A k \in DOMAIN log : log[k].config \in Configs /\ log[k].running \in BOOLEAN
    /\ Len(log) \in 1 .. MaxChanges + 1 /\ Len(tasks) <= MaxTasks
    /\ {session, error, authRequired, busy} \subseteq BOOLEAN
    /\ data.config = None \/ data.config \in Configs
    /\ tab \in Tabs /\ edited \subseteq Names /\ faults \in 0 .. MaxFaults
    /\ view = "Finance" => DOMAIN draft \subseteq Names
    /\ view = "Settings" => draft = None \/ draft \in Configs
    /\ view \notin {"Finance", "Settings"} => draft = None

\* main.tsx:69: pause, resume and stop never overlap, however they end: the
\* buttons are disabled exactly while one of them, or its refresh, is under way.
BusyWhileActing ==
    LET acting == {i \in DOMAIN tasks : tasks[i].op = "availability"}
    IN  /\ busy <=> acting # {}
        /\ \A i, j \in acting : i = j

\* main.tsx:72 and the handlers of the views: when the handler of an accepted
\* call returns and its refresh succeeded, the page shows no state of the
\* server from before that call, whatever other calls and polls overlapped it.
OwnActionShown ==
    [][\A i \in DOMAIN tasks :
          /\ tasks[i].ok /\ tasks[i].op \in {"availability", "toggle", "price", "config"}
          /\ Len(tasks') < Len(tasks) /\ RefreshSucceeds(i)
          => data' \in Answers(tasks[i].effect)]_vars

\* Finance.tsx:10 and Settings.tsx:9: once the user edits a price, or has a
\* draft of the configuration, no refresh touches it that leaves the view open.
\* (One that is refused does not: the gate replaces the view, main.tsx:97.)
PollsKeepDrafts ==
    [][Len(tasks') < Len(tasks) /\ view' = view =>
          /\ view = "Finance" => \A m \in edited : m \in DOMAIN draft' /\ draft'[m] = draft[m]
          /\ view = "Settings" /\ draft # None => draft' = draft]_vars

Current == Answers(Len(log))

\* main.tsx:65: once the browser keeps its session, the page leaves the gate and
\* its errors behind and in the end shows what the server is, in all its parts,
\* though answers of old refreshes come late and torn.
Recovers == <>[]session => <>[](~authRequired /\ ~error /\ data \in Current)

\* Finance.tsx:10 says: "Adopt server prices for any model the user has not
\* started editing."  A price the form has adopted once is not adopted again.
AdoptsUnedited ==
    view = "Finance" =>
        \A m \in DOMAIN data.prices \ edited : m \in DOMAIN draft /\ draft[m] = data.prices[m]
=============================================================================
