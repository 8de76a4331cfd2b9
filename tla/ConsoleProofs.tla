--------------------------- MODULE ConsoleProofs ---------------------------
(***************************************************************************)
(* That actions exclude each other on the page (BusyWhileActing), that     *)
(* an action's own refresh shows it (OwnActionShown), and that refreshes   *)
(* leave forms alone (PollsKeepDrafts), for any number of models, prices,  *)
(* changes, overlapping calls and faults.                                  *)
(***************************************************************************)
EXTENDS Console, SequenceLemmas

TaskFields == {"op", "arg", "phase", "ok", "effect", "since", "auth", "live"}

\* A list of tasks; what is in their other fields does not matter.
Listed(ts) ==
    /\ \E S : ts \in Seq(S)
    /\ \A i \in DOMAIN ts : DOMAIN ts[i] = TaskFields

Acting(ts) == {i \in DOMAIN ts : ts[i].op = "availability"}

\* The buttons are disabled (b) exactly while one action is under way.
Exclusive(ts, b) ==
    /\ b <=> Acting(ts) # {}
    /\ \A i, j \in Acting(ts) : i = j

\* A refresh that follows an accepted call starts after the call's effect.
InOrder(t, n) ==
    t.ok => /\ t.effect \in 1 .. n
            /\ t.phase = "refreshing" => t.since \in Nat /\ t.effect <= t.since

Ordered(ts, n) == \A i \in DOMAIN ts : InOrder(ts[i], n)

\* The inductive invariant.
Orderly ==
    /\ Listed(tasks)
    /\ busy \in BOOLEAN
    /\ Exclusive(tasks, busy)
    /\ \E S : log \in Seq(S)
    /\ log # <<>>
    /\ Ordered(tasks, Len(log))
---------------------------------------------------------------------------
(* Lists of tasks. *)

LEMMA ListedIs ==
    ASSUME NEW ts, Listed(ts)
    PROVE  Len(ts) \in Nat /\ DOMAIN ts = 1 .. Len(ts)
BY LenProperties DEF Listed

\* A task is added behind the others.
LEMMA Added ==
    ASSUME NEW ts, Listed(ts), NEW t, DOMAIN t = TaskFields
    PROVE  /\ Listed(Append(ts, t))
           /\ DOMAIN Append(ts, t) = DOMAIN ts \cup {Len(ts) + 1}
           /\ Len(ts) + 1 \notin DOMAIN ts
           /\ \A i \in DOMAIN ts : Append(ts, t)[i] = ts[i]
           /\ Append(ts, t)[Len(ts) + 1] = t
           /\ Len(Append(ts, t)) = Len(ts) + 1
<1>1. PICK S : ts \in Seq(S)
  BY DEF Listed
<1>2. ts \in Seq(S \cup {t})
  BY <1>1, SeqMonotonic
<1>3. /\ Append(ts, t) \in Seq(S \cup {t})
      /\ Len(Append(ts, t)) = Len(ts) + 1
      /\ \A i \in 1 .. Len(ts) : Append(ts, t)[i] = ts[i]
      /\ Append(ts, t)[Len(ts) + 1] = t
  BY <1>2, AppendProperties
<1>4. /\ Len(ts) \in Nat /\ DOMAIN ts = 1 .. Len(ts)
      /\ DOMAIN Append(ts, t) = 1 .. Len(ts) + 1
  BY <1>2, <1>3, LenProperties
<1>5. DOMAIN Append(ts, t) = DOMAIN ts \cup {Len(ts) + 1} /\ Len(ts) + 1 \notin DOMAIN ts
  BY <1>4
<1>6. \A i \in DOMAIN Append(ts, t) : DOMAIN Append(ts, t)[i] = TaskFields
  BY <1>3, <1>4, <1>5 DEF Listed
<1>7. QED
  BY <1>3, <1>4, <1>5, <1>6 DEF Listed

\* A task goes on.
LEMMA Advanced ==
    ASSUME NEW ts, Listed(ts), NEW i \in DOMAIN ts, NEW t, DOMAIN t = TaskFields
    PROVE  /\ Listed([ts EXCEPT ![i] = t])
           /\ DOMAIN [ts EXCEPT ![i] = t] = DOMAIN ts
           /\ \A k \in DOMAIN ts : [ts EXCEPT ![i] = t][k] = IF k = i THEN t ELSE ts[k]
           /\ Len([ts EXCEPT ![i] = t]) = Len(ts)
<1>1. PICK S : ts \in Seq(S)
  BY DEF Listed
<1>2. ts \in Seq(S \cup {t}) /\ DOMAIN ts = 1 .. Len(ts)
  BY <1>1, SeqMonotonic, LenProperties
<1>3. [ts EXCEPT ![i] = t] \in Seq(S \cup {t}) /\ Len([ts EXCEPT ![i] = t]) = Len(ts)
  BY <1>2, ExceptSeq
<1>4. \A k \in DOMAIN ts : [ts EXCEPT ![i] = t][k] = IF k = i THEN t ELSE ts[k]
  OBVIOUS
<1>5. QED
  BY <1>3, <1>4 DEF Listed

\* A task is over.
LEMMA Ended ==
    ASSUME NEW ts, Listed(ts), NEW i \in DOMAIN ts
    PROVE  /\ Listed(RemoveAt(ts, i))
           /\ Len(RemoveAt(ts, i)) = Len(ts) - 1
           /\ \A k \in DOMAIN RemoveAt(ts, i) :
                 RemoveAt(ts, i)[k] = IF k < i THEN ts[k] ELSE ts[k + 1]
<1>1. PICK S : ts \in Seq(S)
  BY DEF Listed
<1>2. Len(ts) \in Nat /\ DOMAIN ts = 1 .. Len(ts)
  BY <1>1, LenProperties
<1>3. /\ RemoveAt(ts, i) \in Seq(S) /\ Len(RemoveAt(ts, i)) = Len(ts) - 1
      /\ \A k \in 1 .. Len(ts) - 1 : RemoveAt(ts, i)[k] = IF k < i THEN ts[k] ELSE ts[k + 1]
  BY <1>1, <1>2, RemoveAtIs
<1>4. DOMAIN RemoveAt(ts, i) = 1 .. Len(ts) - 1
  BY <1>3, LenProperties
<1>5. \A k \in DOMAIN RemoveAt(ts, i) : DOMAIN RemoveAt(ts, i)[k] = TaskFields
  <2> TAKE k \in DOMAIN RemoveAt(ts, i)
  <2>1. k \in DOMAIN ts /\ k + 1 \in DOMAIN ts
    BY <1>2, <1>4
  <2>2. QED
    BY <1>3, <1>4, <2>1 DEF Listed
<1>6. QED
  BY <1>3, <1>4, <1>5 DEF Listed

\* What the invariant says of a list of tasks.
Good(ts, b, n) == Listed(ts) /\ Exclusive(ts, b) /\ Ordered(ts, n)

LEMMA AddedGood ==
    ASSUME NEW ts, NEW b \in BOOLEAN, NEW n, Good(ts, b, n),
           NEW t, DOMAIN t = TaskFields, ~t.ok,
           NEW c \in BOOLEAN,
           IF t.op = "availability" THEN ~b /\ c ELSE c = b
    PROVE  Good(Append(ts, t), c, n)
<1> DEFINE us == Append(ts, t)
<1>1. /\ Listed(us)
      /\ DOMAIN us = DOMAIN ts \cup {Len(ts) + 1}
      /\ Len(ts) + 1 \notin DOMAIN ts
      /\ \A i \in DOMAIN ts : us[i] = ts[i]
      /\ us[Len(ts) + 1] = t
  BY Added DEF Good
<1> HIDE DEF us
<1>2. Acting(us) = IF t.op = "availability" THEN Acting(ts) \cup {Len(ts) + 1} ELSE Acting(ts)
  BY <1>1 DEF Acting
<1>3. Exclusive(us, c)
  <2>1. CASE t.op = "availability"
    <3>1. Acting(ts) = {}
      BY <2>1 DEF Good, Exclusive
    <3>2. QED
      BY <1>2, <2>1, <3>1 DEF Exclusive
  <2>2. CASE t.op # "availability"
    BY <1>2, <2>2 DEF Good, Exclusive
  <2>3. QED
    BY <2>1, <2>2
<1>4. Ordered(us, n)
  BY <1>1 DEF Good, Ordered, InOrder
<1>5. QED
  BY <1>1, <1>3, <1>4 DEF Good, us

LEMMA AdvancedGood ==
    ASSUME NEW ts, NEW b \in BOOLEAN, NEW n, Good(ts, b, n),
           NEW i \in DOMAIN ts, NEW t, DOMAIN t = TaskFields,
           t.op = ts[i].op \/ (ts[i].op # "availability" /\ t.op # "availability"),
           InOrder(t, n)
    PROVE  Good([ts EXCEPT ![i] = t], b, n)
<1> DEFINE us == [ts EXCEPT ![i] = t]
<1>1. /\ Listed(us)
      /\ DOMAIN us = DOMAIN ts
      /\ \A k \in DOMAIN ts : us[k] = IF k = i THEN t ELSE ts[k]
  BY Advanced DEF Good
<1> HIDE DEF us
<1>2. Acting(us) = Acting(ts)
  BY <1>1 DEF Acting
<1>3. Exclusive(us, b)
  BY <1>2 DEF Good, Exclusive
<1>4. Ordered(us, n)
  BY <1>1 DEF Good, Ordered
<1>5. QED
  BY <1>1, <1>3, <1>4 DEF Good, us

\* The only action is over: the buttons are enabled again.
LEMMA EndedGood ==
    ASSUME NEW ts, NEW b \in BOOLEAN, NEW n, Good(ts, b, n), NEW i \in DOMAIN ts
    PROVE  Good(RemoveAt(ts, i), IF ts[i].op = "availability" THEN FALSE ELSE b, n)
<1> DEFINE us == RemoveAt(ts, i)
           c == IF ts[i].op = "availability" THEN FALSE ELSE b
<1>1. /\ Listed(us) /\ Len(us) = Len(ts) - 1
      /\ \A k \in DOMAIN us : us[k] = IF k < i THEN ts[k] ELSE ts[k + 1]
  BY Ended DEF Good
<1> HIDE DEF us
<1>2. /\ Len(ts) \in Nat /\ DOMAIN ts = 1 .. Len(ts)
      /\ DOMAIN us = 1 .. Len(ts) - 1 /\ i \in Int
  BY <1>1, ListedIs DEF Good
<1>3. Ordered(us, n)
  <2> SUFFICES ASSUME NEW k \in DOMAIN us PROVE InOrder(us[k], n)
    BY DEF Ordered
  <2>1. k \in DOMAIN ts /\ k + 1 \in DOMAIN ts
    BY <1>2
  <2>2. QED
    BY <1>1, <2>1 DEF Good, Ordered
<1>4. \A k \in Acting(us) : (IF k < i THEN k ELSE k + 1) \in Acting(ts) \ {i}
  BY <1>1, <1>2 DEF Acting
<1>5. \A k \in Acting(ts) \ {i} : (IF k < i THEN k ELSE k - 1) \in Acting(us)
  BY <1>1, <1>2 DEF Acting
<1>6. Exclusive(us, c)
  <2>1. CASE ts[i].op = "availability"
    <3>1. i \in Acting(ts)
      BY <2>1 DEF Acting
    <3>2. Acting(ts) \ {i} = {}
      BY <3>1 DEF Good, Exclusive
    <3>3. Acting(us) = {}
      BY <1>4, <3>2
    <3>4. QED
      BY <2>1, <3>3 DEF Exclusive
  <2>2. CASE ts[i].op # "availability"
    <3>1. Acting(ts) \ {i} = Acting(ts)
      BY <2>2 DEF Acting
    <3>2. Acting(us) # {} <=> Acting(ts) # {}
      BY <1>4, <1>5, <3>1
    <3>3. ASSUME NEW j \in Acting(us), NEW k \in Acting(us)
          PROVE  j = k
      <4>1. (IF j < i THEN j ELSE j + 1) = (IF k < i THEN k ELSE k + 1)
        BY <1>4, <3>1 DEF Good, Exclusive
      <4>2. j \in Int /\ k \in Int
        BY <1>2 DEF Acting
      <4>3. QED
        BY <1>2, <4>1, <4>2
    <3>4. QED
      BY <2>2, <3>2, <3>3 DEF Good, Exclusive
  <2>3. QED
    BY <2>1, <2>2
<1>7. QED
  BY <1>1, <1>3, <1>6 DEF Good, us

\* The list after the page is drawn anew, with the answers of forms that are gone.
LEMMA DrawnGood ==
    ASSUME NEW ts, NEW b \in BOOLEAN, NEW n, Good(ts, b, n),
           NEW d, NEW gate, NEW t, Draw(d, gate, t, ts)
    PROVE  Good(tasks', b, n) /\ Len(tasks') = Len(ts)
<1>1. PICK S : ts \in Seq(S)
  BY DEF Good, Listed
<1>2. Len(ts) \in Nat /\ DOMAIN ts = 1 .. Len(ts)
  BY <1>1, LenProperties
<1>3. CASE tasks' = ts
  BY <1>3
<1>4. CASE tasks' = [i \in DOMAIN ts |-> [ts[i] EXCEPT !.live = FALSE]]
  <2> DEFINE Dead(i) == [ts[i] EXCEPT !.live = FALSE]
             us == [i \in 1 .. Len(ts) |-> Dead(i)]
             T == {Dead(i) : i \in 1 .. Len(ts)}
  <2>1. us \in Seq(T) /\ DOMAIN us = 1 .. Len(ts)
    <3>1. us \in [1 .. Len(ts) -> T]
      OBVIOUS
    <3> HIDE DEF us, T
    <3>2. QED
      BY <1>2, <3>1, SeqDef
  <2>2. Len(us) = Len(ts)
    BY <1>2, <2>1, LenProperties
  <2>3. \A i \in DOMAIN ts :
           /\ DOMAIN us[i] = TaskFields
           /\ us[i].op = ts[i].op /\ us[i].ok = ts[i].ok /\ us[i].phase = ts[i].phase
           /\ us[i].effect = ts[i].effect /\ us[i].since = ts[i].since
    BY <1>2 DEF Good, Listed, TaskFields
  <2>4. tasks' = us
    BY <1>2, <1>4
  <2> HIDE DEF us, T
  <2>5. Listed(us)
    BY <1>2, <2>1, <2>3 DEF Listed
  <2>6. Acting(us) = Acting(ts)
    BY <1>2, <2>1, <2>3 DEF Acting
  <2>7. Exclusive(us, b)
    BY <2>6 DEF Good, Exclusive
  <2>8. Ordered(us, n)
    BY <1>2, <2>1, <2>3 DEF Good, Ordered, InOrder
  <2>9. QED
    BY <2>2, <2>4, <2>5, <2>7, <2>8 DEF Good
<1>5. QED
  BY <1>3, <1>4 DEF Draw
---------------------------------------------------------------------------
(* The steps of the page and of the server. *)

\* The server only ever gets new states.
Grown == log' = log \/ \E s : Become(s)

LEMMA GrownIs ==
    ASSUME Orderly, Grown
    PROVE  /\ \E S : log' \in Seq(S)
           /\ log' # <<>>
           /\ Len(log) \in Nat \ {0} /\ Len(log') \in Nat /\ Len(log) <= Len(log')
<1>1. PICK S : log \in Seq(S)
  BY DEF Orderly
<1>2. Len(log) \in Nat \ {0}
  BY <1>1, LenProperties, EmptySeq DEF Orderly
<1>3. CASE log' = log
  BY <1>1, <1>2, <1>3 DEF Orderly
<1>4. CASE \E s : Become(s)
  <2>1. PICK s : log' = Append(log, s)
    BY <1>4 DEF Become
  <2>2. log \in Seq(S \cup {s})
    BY <1>1, SeqMonotonic
  <2>3. log' \in Seq(S \cup {s}) /\ Len(log') = Len(log) + 1
    BY <2>1, <2>2, AppendProperties
  <2>4. log' # <<>>
    BY <1>2, <2>3
  <2>5. QED
    BY <1>2, <2>3, <2>4
<1>5. QED
  BY <1>3, <1>4 DEF Grown

\* What was in order stays so when the server changes.
LEMMA GoodLater ==
    ASSUME NEW ts, NEW b, NEW n \in Nat, NEW m \in Nat, n <= m, Good(ts, b, n)
    PROVE  Good(ts, b, m)
BY DEF Good, Ordered, InOrder

\* A step may be judged by the tasks it leaves.
LEMMA OrderlyNext ==
    ASSUME Orderly, Grown, busy' \in BOOLEAN, Good(tasks', busy', Len(log'))
    PROVE  Orderly'
BY GrownIs DEF Orderly, Good

LEMMA OrderlyGood ==
    ASSUME Orderly
    PROVE  Good(tasks, busy, Len(log)) /\ busy \in BOOLEAN
BY DEF Orderly, Good

(* The forms of a task. *)

LEMMA TaskIs ==
    ASSUME NEW op, NEW arg
    PROVE  /\ DOMAIN Task(op, arg) = TaskFields
           /\ Task(op, arg).op = op /\ ~Task(op, arg).ok
           /\ Task(op, arg).live = (op = "config")
BY DEF Task, TaskFields

LEMMA RefreshingIs ==
    ASSUME NEW t, DOMAIN t = TaskFields
    PROVE  /\ DOMAIN Refreshing(t) = TaskFields
           /\ Refreshing(t).op = t.op /\ Refreshing(t).ok = t.ok
           /\ Refreshing(t).effect = t.effect /\ Refreshing(t).live = t.live
           /\ Refreshing(t).phase = "refreshing" /\ Refreshing(t).since = Len(log)
BY DEF Refreshing, TaskFields

LEMMA AloneIs ==
    ASSUME NEW t, DOMAIN t = TaskFields
    PROVE  /\ DOMAIN Alone(t) = TaskFields
           /\ Alone(t).op = "poll" /\ ~Alone(t).ok /\ Alone(t).live = t.live
<1> DEFINE r == Refreshing(t)
<1>1. DOMAIN r = TaskFields /\ r.live = t.live
  BY RefreshingIs
<1> HIDE DEF r
<1>2. LET u == [r EXCEPT !.op = "poll", !.ok = FALSE, !.effect = 0]
      IN  DOMAIN u = TaskFields /\ u.op = "poll" /\ ~u.ok /\ u.live = r.live
  BY <1>1 DEF TaskFields
<1>3. QED
  BY <1>1, <1>2 DEF Alone, r

\* The page is opened with one task, of which the server knows nothing.
LEMMA OrderlyAtFirst == Init => Orderly
<1> SUFFICES ASSUME Init PROVE Orderly
  OBVIOUS
<1>1. /\ \E S : log \in Seq(S)
      /\ log # <<>>
  <2>1. log \in Seq({[config |-> FirstConfig, running |-> TRUE]})
    BY DEF Init
  <2>2. QED
    BY <2>1 DEF Init
<1>2. PICK t : tasks = <<t>> /\ DOMAIN t = TaskFields /\ ~t.ok /\ t.op # "availability"
  <2>1. CASE tasks = <<Task("open", None)>>
    BY <2>1 DEF Task, TaskFields
  <2>2. CASE tasks = <<Refreshing(Task("poll", None))>>
    BY <2>2, TaskIs, RefreshingIs
  <2>3. QED
    BY <2>1, <2>2 DEF Init
<1>3. Listed(tasks) /\ DOMAIN tasks = {1} /\ tasks[1] = t
  <2>1. tasks \in Seq({t}) /\ DOMAIN tasks = {1} /\ tasks[1] = t
    BY <1>2
  <2>2. \A i \in DOMAIN tasks : DOMAIN tasks[i] = TaskFields
    BY <1>2, <2>1
  <2>3. QED
    BY <2>1, <2>2 DEF Listed
<1>4. Exclusive(tasks, busy) /\ busy \in BOOLEAN
  BY <1>2, <1>3 DEF Init, Exclusive, Acting
<1>5. Ordered(tasks, Len(log))
  BY <1>2, <1>3 DEF Ordered, InOrder
<1>6. QED
  BY <1>1, <1>3, <1>4, <1>5 DEF Orderly

\* A call or a poll is started.
LEMMA OrderlyByCall ==
    ASSUME Orderly, NEW t, DOMAIN t = TaskFields, ~t.ok,
           tasks' = Append(tasks, t), log' = log,
           IF t.op = "availability" THEN ~busy /\ busy' = TRUE ELSE busy' = busy
    PROVE  Orderly' /\ Len(tasks') > Len(tasks)
<1>1. Good(tasks, busy, Len(log)) /\ busy \in BOOLEAN
  BY OrderlyGood
<1>2. busy' \in BOOLEAN
  BY <1>1
<1>3. Good(Append(tasks, t), busy', Len(log))
  BY <1>1, <1>2, AddedGood
<1>4. Len(Append(tasks, t)) = Len(tasks) + 1 /\ Len(tasks) \in Nat
  BY <1>1, Added, ListedIs DEF Good
<1>5. QED
  BY <1>2, <1>3, <1>4, OrderlyNext DEF Grown

\* A task goes on, and the server with it.
LEMMA OrderlyByAdvance ==
    ASSUME Orderly, NEW i \in DOMAIN tasks, NEW t, DOMAIN t = TaskFields,
           t.op = tasks[i].op \/ (tasks[i].op # "availability" /\ t.op # "availability"),
           Grown, InOrder(t, Len(log')),
           tasks' = [tasks EXCEPT ![i] = t], busy' = busy
    PROVE  Orderly' /\ Len(tasks') >= Len(tasks)
<1>1. Good(tasks, busy, Len(log)) /\ busy \in BOOLEAN
  BY OrderlyGood
<1>2. Good(tasks, busy, Len(log'))
  BY <1>1, GrownIs, GoodLater
<1>3. Good([tasks EXCEPT ![i] = t], busy, Len(log'))
  BY <1>1, <1>2, AdvancedGood
<1>4. Len([tasks EXCEPT ![i] = t]) = Len(tasks) /\ Len(tasks) \in Nat
  BY <1>1, Advanced, ListedIs DEF Good
<1>5. QED
  BY <1>1, <1>3, <1>4, OrderlyNext

\* A task is over, and the page may be drawn anew.
LEMMA OrderlyByEnd ==
    ASSUME Orderly, NEW i \in DOMAIN tasks, log' = log,
           busy' = IF tasks[i].op = "availability" THEN FALSE ELSE busy,
           \/ tasks' = RemoveAt(tasks, i)
           \/ \E d, gate, t : Draw(d, gate, t, RemoveAt(tasks, i))
    PROVE  Orderly'
<1>1. Good(tasks, busy, Len(log)) /\ busy \in BOOLEAN
  BY OrderlyGood
<1>2. Good(RemoveAt(tasks, i), busy', Len(log))
  BY <1>1, EndedGood
<1>3. busy' \in BOOLEAN
  BY <1>1
<1>4. Good(tasks', busy', Len(log))
  <2>1. CASE tasks' = RemoveAt(tasks, i)
    BY <1>2, <2>1
  <2>2. ASSUME NEW d, NEW gate, NEW t, Draw(d, gate, t, RemoveAt(tasks, i))
        PROVE  Good(tasks', busy', Len(log))
    BY <1>2, <1>3, <2>2, DrawnGood
  <2>3. QED
    BY <2>1, <2>2
<1>5. QED
  BY <1>3, <1>4, OrderlyNext DEF Grown

\* A call that fails on its way or is served.
LEMMA OrderlyByServe ==
    ASSUME Orderly, NEW i \in DOMAIN tasks, Serve(i)
    PROVE  Orderly' /\ Len(tasks') >= Len(tasks)
<1> DEFINE t == tasks[i]
           Answered(ok, effect) ==
               [t EXCEPT !.phase = "answered", !.arg = None, !.ok = ok, !.effect = effect]
<1>1. DOMAIN t = TaskFields
  BY DEF Orderly, Listed
<1>3. Grown /\ busy' = busy
  BY DEF Serve, Grown, serverVars
<1>4. PICK u : /\ tasks' = [tasks EXCEPT ![i] = u]
               /\ \/ u = Answered(TRUE, Len(log'))
                  \/ u = Answered(FALSE, 0)
  <2>1. \/ tasks' = [tasks EXCEPT ![i] = Answered(TRUE, Len(log'))]
        \/ tasks' = [tasks EXCEPT ![i] = Answered(FALSE, 0)]
    BY DEF Serve
  <2>2. QED
    BY ONLY <2>1
<1>5. /\ DOMAIN u = TaskFields /\ u.op = t.op /\ u.phase = "answered"
      /\ u.ok => u.effect = Len(log')
  <2>1. CASE u = Answered(TRUE, Len(log'))
    <3> HIDE DEF t
    <3>1. QED
      BY <1>1, <2>1 DEF TaskFields
  <2>2. CASE u = Answered(FALSE, 0)
    <3> HIDE DEF t
    <3>1. QED
      BY <1>1, <2>2 DEF TaskFields
  <2>3. QED
    BY <1>4, <2>1, <2>2
<1>6. InOrder(u, Len(log'))
  BY <1>3, <1>5, GrownIs DEF InOrder
<1>7. QED
  BY <1>3, <1>4, <1>5, <1>6, OrderlyByAdvance

\* The handler goes on: it starts a refresh, or the call is over and leaves
\* the views alone.
LEMMA OrderlyByAnswer ==
    ASSUME Orderly, NEW i \in DOMAIN tasks, Answer(i)
    PROVE  Orderly' /\ (Len(tasks') >= Len(tasks) \/ UNCHANGED viewVars)
<1> DEFINE t == tasks[i]
           r == IF t.op \in {"open", "session"} THEN Alone(t) ELSE Refreshing(t)
           Goes == tasks' = [tasks EXCEPT ![i] = r] /\ busy' = busy
<1>1. /\ DOMAIN t = TaskFields /\ InOrder(t, Len(log)) /\ Len(log) \in Nat
      /\ Good(tasks, busy, Len(log)) /\ busy \in BOOLEAN
  BY OrderlyGood, GrownIs DEF Orderly, Listed, Ordered, Grown
<1>2. log' = log
  BY DEF Answer, serverVars
<1>3. /\ DOMAIN r = TaskFields
      /\ r.op = t.op \/ (t.op # "availability" /\ r.op # "availability")
      /\ InOrder(r, Len(log))
  <2> HIDE DEF t
  <2>1. CASE t.op \in {"open", "session"}
    BY <1>1, <2>1, AloneIs DEF InOrder
  <2>2. CASE t.op \notin {"open", "session"}
    BY <1>1, <2>2, RefreshingIs DEF InOrder
  <2>3. QED
    BY <2>1, <2>2
<1>4. ASSUME Goes
      PROVE  Orderly' /\ Len(tasks') >= Len(tasks)
  <2> HIDE DEF r
  <2>1. QED
    BY <1>2, <1>3, <1>4, OrderlyByAdvance DEF Grown
<1>5. ASSUME Draw(data, FALSE, tab, [tasks EXCEPT ![i] = r]), busy' = busy
      PROVE  Orderly' /\ Len(tasks') >= Len(tasks)
  <2> HIDE DEF r
  <2>1. Good([tasks EXCEPT ![i] = r], busy, Len(log))
    BY <1>1, <1>3, AdvancedGood
  <2>2. Good(tasks', busy, Len(log)) /\ Len(tasks') = Len([tasks EXCEPT ![i] = r])
    BY <1>1, <1>5, <2>1, DrawnGood
  <2>3. Len([tasks EXCEPT ![i] = r]) = Len(tasks) /\ Len(tasks) \in Nat
    BY <1>1, <1>3, Advanced, ListedIs DEF Good
  <2>4. QED
    BY <1>1, <1>2, <1>5, <2>2, <2>3, OrderlyNext DEF Grown
<1>6. ASSUME tasks' = RemoveAt(tasks, i), busy' = finally(t, FALSE), UNCHANGED viewVars
      PROVE  Orderly' /\ UNCHANGED viewVars
  BY <1>2, <1>6, OrderlyByEnd DEF finally
<1>7. \/ Draw(data, FALSE, tab, [tasks EXCEPT ![i] = r]) /\ busy' = busy
      \/ Goes
      \/ tasks' = RemoveAt(tasks, i) /\ busy' = finally(t, FALSE) /\ UNCHANGED viewVars
  BY DEF Answer
<1>8. QED
  BY <1>4, <1>5, <1>6, <1>7

\* Only the end of a refresh takes a task away and changes what is shown.
Takes == \E i \in DOMAIN tasks : RefreshSucceeds(i) \/ RefreshFails(i)

\* What the user does.
LEMMA OrderlyByUser ==
    ASSUME Orderly, UserStep
    PROVE  Orderly' /\ Len(tasks') >= Len(tasks)
<1>1. /\ Good(tasks, busy, Len(log)) /\ busy \in BOOLEAN /\ Len(tasks) \in Nat
  BY OrderlyGood, ListedIs DEF Good
<1>2. ASSUME NEW op, NEW arg, Call(op, arg),
             IF op = "availability" THEN ~busy /\ busy' = TRUE ELSE busy' = busy
      PROVE  Orderly' /\ Len(tasks') >= Len(tasks)
  <2>1. DOMAIN Task(op, arg) = TaskFields /\ ~Task(op, arg).ok /\ Task(op, arg).op = op
    BY TaskIs
  <2>2. tasks' = Append(tasks, Task(op, arg)) /\ log' = log
    BY <1>2 DEF Call
  <2>3. Orderly' /\ Len(tasks') > Len(tasks)
    BY <1>2, <2>1, <2>2, OrderlyByCall
  <2>4. Len(Append(tasks, Task(op, arg))) = Len(tasks) + 1
    BY <1>1, <2>1, Added DEF Good
  <2>5. QED
    BY <1>1, <2>2, <2>3, <2>4
<1>3. CASE availability
  <2>1. ~busy /\ busy' = TRUE /\ \E arg : Call("availability", arg)
    BY <1>3 DEF availability
  <2>2. QED
    BY <1>2, <2>1
<1>4. CASE authenticate
  <2>1. CASE Call("session", None) /\ busy' = busy
    BY <1>2, <2>1
  <2>2. CASE /\ tasks' = Append(tasks, [Task("session", None) EXCEPT !.phase = "answered"])
             /\ UNCHANGED <<log, session, viewVars, error, busy>>
    <3> DEFINE t == [Task("session", None) EXCEPT !.phase = "answered"]
    <3>1. DOMAIN t = TaskFields /\ ~t.ok /\ t.op = "session"
      BY DEF Task, TaskFields
    <3> HIDE DEF t
    <3>2. tasks' = Append(tasks, t) /\ log' = log /\ busy' = busy
      BY <2>2 DEF t
    <3>3. Orderly'
      BY <3>1, <3>2, OrderlyByCall
    <3>4. Len(Append(tasks, t)) = Len(tasks) + 1
      BY <1>1, <3>1, Added DEF Good
    <3>5. QED
      BY <1>1, <3>2, <3>3, <3>4
  <2>3. QED
    BY <1>4, <2>1, <2>2 DEF authenticate
<1>5. CASE toggle
  <2>1. busy' = busy /\ \E arg : Call("toggle", arg)
    BY <1>5 DEF toggle
  <2>2. QED
    BY <1>2, <2>1
<1>6. CASE savePrice
  <2>1. busy' = busy /\ \E arg : Call("price", arg)
    BY <1>6 DEF savePrice
  <2>2. QED
    BY <1>2, <2>1
<1>7. CASE saveConfig
  BY <1>2, <1>7 DEF saveConfig
<1>8. CASE edit \/ update \/ Dismiss
  <2>1. tasks' = tasks /\ log' = log /\ busy' = busy
    BY <1>8 DEF edit, update, Dismiss, serverVars, viewVars
  <2>2. QED
    BY <1>1, <2>1, OrderlyNext DEF Grown
<1>9. CASE SelectTab
  <2>1. /\ \E t : Draw(data, authRequired, t, tasks)
        /\ log' = log /\ busy' = busy
    BY <1>9 DEF SelectTab, serverVars
  <2>2. Good(tasks', busy, Len(log)) /\ Len(tasks') = Len(tasks)
    BY <1>1, <2>1, DrawnGood
  <2>3. QED
    BY <1>1, <2>1, <2>2, OrderlyNext DEF Grown
<1>10. QED
  BY <1>3, <1>4, <1>5, <1>6, <1>7, <1>8, <1>9 DEF UserStep

LEMMA OrderlyByStep ==
    ASSUME Orderly, [Next]_vars
    PROVE  Orderly' /\ (Len(tasks') < Len(tasks) => UNCHANGED viewVars \/ Takes)
<1>1. /\ Good(tasks, busy, Len(log)) /\ busy \in BOOLEAN /\ Len(tasks) \in Nat
  BY OrderlyGood, ListedIs DEF Good
<1>2. CASE Poll
  <2> DEFINE t == Refreshing(Task("poll", None))
  <2>1. DOMAIN t = TaskFields /\ ~t.ok /\ t.op = "poll"
    BY TaskIs, RefreshingIs
  <2> HIDE DEF t
  <2>2. tasks' = Append(tasks, t) /\ log' = log /\ busy' = busy /\ UNCHANGED viewVars
    BY <1>2 DEF Poll, serverVars, t
  <2>3. QED
    BY <2>1, <2>2, OrderlyByCall
<1>3. CASE UserStep
  <2>1. Orderly' /\ Len(tasks') >= Len(tasks)
    BY <1>3, OrderlyByUser
  <2>2. Len(tasks') \in Nat
    BY <2>1, ListedIs DEF Orderly
  <2>3. QED
    BY <1>1, <2>1, <2>2
<1>4. CASE Elsewhere
  <2>1. Grown /\ tasks' = tasks /\ busy' = busy /\ UNCHANGED viewVars
    BY <1>4 DEF Elsewhere, Grown
  <2>2. Good(tasks, busy, Len(log'))
    BY <1>1, <2>1, GrownIs, GoodLater
  <2>3. QED
    BY <1>1, <2>1, <2>2, OrderlyNext
<1>5. CASE SessionEnds
  BY <1>1, <1>5, OrderlyNext DEF SessionEnds, Grown
<1>6. CASE UNCHANGED vars
  BY <1>1, <1>6, OrderlyNext DEF vars, Grown
<1>7. ASSUME NEW i \in DOMAIN tasks, Progress(i)
      PROVE  Orderly' /\ (Len(tasks') < Len(tasks) => UNCHANGED viewVars \/ Takes)
  <2>1. CASE Serve(i)
    BY <2>1, OrderlyByServe DEF Serve
  <2>2. CASE Answer(i)
    <3>1. Orderly' /\ (Len(tasks') >= Len(tasks) \/ UNCHANGED viewVars)
      BY <2>2, OrderlyByAnswer
    <3>2. Len(tasks') \in Nat
      BY <3>1, ListedIs DEF Orderly
    <3>3. QED
      BY <1>1, <3>1, <3>2
  <2>3. CASE RefreshSucceeds(i)
    <3>1. /\ log' = log
          /\ busy' = IF tasks[i].op = "availability" THEN FALSE ELSE busy
          /\ \E d, gate, t : Draw(d, gate, t, RemoveAt(tasks, i))
      BY <2>3 DEF RefreshSucceeds, finally, serverVars
    <3>2. Orderly'
      BY <3>1, OrderlyByEnd
    <3>3. QED
      BY <2>3, <3>2 DEF Takes
  <2>4. CASE RefreshFails(i)
    <3>1. /\ log' = log
          /\ busy' = IF tasks[i].op = "availability" THEN FALSE ELSE busy
          /\ \/ tasks' = RemoveAt(tasks, i)
             \/ \E d, gate, t : Draw(d, gate, t, RemoveAt(tasks, i))
      BY <2>4 DEF RefreshFails, finally
    <3>2. Orderly'
      BY <3>1, OrderlyByEnd
    <3>3. QED
      BY <2>4, <3>2 DEF Takes
  <2>5. QED
    BY <1>7, <2>1, <2>2, <2>3, <2>4 DEF Progress
<1>8. QED
  BY <1>2, <1>3, <1>4, <1>5, <1>6, <1>7 DEF Next
---------------------------------------------------------------------------
\* At most one action is under way, and the buttons are disabled while it is.
THEOREM BusyHolds == Spec => []BusyWhileActing
<1>1. Orderly => BusyWhileActing
  BY DEF Orderly, Exclusive, Acting, BusyWhileActing
<1>2. QED
  BY <1>1, OrderlyAtFirst, OrderlyByStep, PTL DEF Spec

\* The earlier a refresh started, the more it may see.
LEMMA AnswersGrow ==
    ASSUME NEW a \in Int, NEW b \in Int, a <= b
    PROVE  Answers(b) \subseteq Answers(a)
<1>1. {log[k] : k \in b .. Len(log)} \subseteq {log[k] : k \in a .. Len(log)}
  <2>1. b .. Len(log) \subseteq a .. Len(log)
    OBVIOUS
  <2>2. QED
    BY ONLY <2>1
<1> DEFINE Seen(k) == {log[l] : l \in k .. Len(log)}
           Parts(s, m, p, c) ==
               [status |-> [running |-> s.running, sharing |-> s.config.sharing],
                offers |-> m.config.offers, prices |-> p.config.prices,
                config |-> c.config]
           Shows(S) == {Parts(s, m, p, c) : s \in S, m \in S, p \in S, c \in S}
<1>2. ASSUME NEW S, NEW T, S \subseteq T
      PROVE  Shows(S) \subseteq Shows(T)
  <2> HIDE DEF Parts
  <2>1. QED
    BY <1>2
<1>3. Answers(a) = Shows(Seen(a)) /\ Answers(b) = Shows(Seen(b))
  BY DEF Answers
<1> HIDE DEF Shows
<1>4. QED
  BY <1>1, <1>2, <1>3

\* When the handler of an accepted call returns and its refresh succeeded, the
\* page shows no state of the server from before the call.
THEOREM OwnActionHolds == Spec => OwnActionShown
<1> DEFINE Own(i) ==
        /\ tasks[i].ok /\ tasks[i].op \in {"availability", "toggle", "price", "config"}
        /\ Len(tasks') < Len(tasks) /\ RefreshSucceeds(i)
        => data' \in Answers(tasks[i].effect)
<1>1. ASSUME Orderly, NEW i \in DOMAIN tasks
      PROVE  Own(i)
  <2> SUFFICES ASSUME tasks[i].ok, RefreshSucceeds(i)
               PROVE  data' \in Answers(tasks[i].effect)
    OBVIOUS
  <2>1. InOrder(tasks[i], Len(log)) /\ tasks[i].phase = "refreshing" /\ Len(log) \in Nat
    BY <1>1, GrownIs DEF Orderly, Ordered, RefreshSucceeds, Grown
  <2>2. tasks[i].effect \in Int /\ tasks[i].since \in Int /\ tasks[i].effect <= tasks[i].since
    BY <2>1 DEF InOrder
  <2>3. data' \in Answers(tasks[i].since)
    BY DEF RefreshSucceeds, Draw
  <2>4. QED
    BY <2>2, <2>3, AnswersGrow
<1>2. Orderly => [\A i \in DOMAIN tasks : Own(i)]_vars
  BY <1>1
<1> HIDE DEF Own
<1>3. Spec => [][\A i \in DOMAIN tasks : Own(i)]_vars
  BY <1>2, OrderlyAtFirst, OrderlyByStep, PTL DEF Spec
<1>4. QED
  BY <1>3 DEF OwnActionShown, Own
---------------------------------------------------------------------------
(* Forms. *)

\* A form knows the prices that were edited in it, and only the form of the
\* settings waits for the answer to a call.
Waiting(ts, v) == \A i \in DOMAIN ts : ts[i].live => v = "Settings"

Forms ==
    /\ view = "Finance" => edited \subseteq DOMAIN draft
    /\ Waiting(tasks, view)

LEMMA FormsAtFirst == Init => Forms
<1> SUFFICES ASSUME Init PROVE Forms
  OBVIOUS
<1>1. view = "Overview"
  BY DEF Init, view, Shown
<1>2. PICK t : tasks = <<t>> /\ ~t.live
  <2>1. ~Task("poll", None).live /\ DOMAIN Task("poll", None) = TaskFields
    BY TaskIs
  <2>2. ~Refreshing(Task("poll", None)).live
    BY <2>1, RefreshingIs
  <2>3. ~Task("open", None).live
    BY TaskIs
  <2>4. QED
    BY <2>2, <2>3 DEF Init
<1>3. DOMAIN tasks = {1} /\ tasks[1] = t
  BY <1>2
<1>4. QED
  BY <1>1, <1>2, <1>3 DEF Forms, Waiting

\* The page is drawn anew: the form is kept with its view or goes with it.
LEMMA FormsDrawn ==
    ASSUME Forms, NEW ts, Listed(ts), Waiting(ts, view),
           NEW d, NEW gate, NEW t, Draw(d, gate, t, ts)
    PROVE  Forms'
<1>1. view' = Shown(gate, t)
  BY DEF Draw, view, Shown
<1>2. CASE Shown(gate, t) = view
  <2>1. draft' = Adopted(view, d) /\ edited' = edited /\ tasks' = ts
    BY <1>2 DEF Draw
  <2>2. view = "Finance" => DOMAIN draft \subseteq DOMAIN draft'
    BY <2>1 DEF Adopted, Spread
  <2>3. QED
    BY <1>1, <1>2, <2>1, <2>2 DEF Forms, Waiting
<1>3. CASE Shown(gate, t) # view
  <2>1. edited' = {} /\ tasks' = [i \in DOMAIN ts |-> [ts[i] EXCEPT !.live = FALSE]]
    BY <1>3 DEF Draw
  <2>2. \A i \in DOMAIN ts : [ts[i] EXCEPT !.live = FALSE].live = FALSE
    BY DEF Listed, TaskFields
  <2>3. \A i \in DOMAIN tasks' : ~tasks'[i].live
    BY <2>1, <2>2
  <2>4. QED
    BY <2>1, <2>3 DEF Forms, Waiting
<1>4. QED
  BY <1>2, <1>3

\* A task that ends takes its form's wait with it.
LEMMA EndedWaiting ==
    ASSUME NEW ts, Listed(ts), NEW i \in DOMAIN ts, NEW v, Waiting(ts, v)
    PROVE  Waiting(RemoveAt(ts, i), v) /\ Listed(RemoveAt(ts, i))
<1> DEFINE us == RemoveAt(ts, i)
<1>1. /\ Listed(us) /\ Len(us) = Len(ts) - 1
      /\ \A k \in DOMAIN us : us[k] = IF k < i THEN ts[k] ELSE ts[k + 1]
  BY Ended
<1> HIDE DEF us
<1>2. /\ Len(ts) \in Nat /\ DOMAIN ts = 1 .. Len(ts)
      /\ DOMAIN us = 1 .. Len(ts) - 1
  BY <1>1, ListedIs
<1>3. \A k \in DOMAIN us : k \in DOMAIN ts /\ k + 1 \in DOMAIN ts
  BY <1>2
<1>4. Waiting(us, v)
  BY <1>1, <1>3 DEF Waiting
<1>5. QED
  BY <1>1, <1>4 DEF us

\* A task that is added or goes on, while the view stays as it is.
LEMMA FormsByTask ==
    ASSUME Orderly, Forms, NEW t, DOMAIN t = TaskFields,
           \/ tasks' = Append(tasks, t) /\ (t.live => view = "Settings")
           \/ \E i \in DOMAIN tasks : tasks' = [tasks EXCEPT ![i] = t] /\ t.live = tasks[i].live
    PROVE  Waiting(tasks', view)
<1>1. CASE tasks' = Append(tasks, t) /\ (t.live => view = "Settings")
  <2> DEFINE us == Append(tasks, t)
  <2>1. /\ DOMAIN us = DOMAIN tasks \cup {Len(tasks) + 1}
        /\ Len(tasks) + 1 \notin DOMAIN tasks
        /\ \A i \in DOMAIN tasks : us[i] = tasks[i]
        /\ us[Len(tasks) + 1] = t
    BY Added DEF Orderly
  <2> HIDE DEF us
  <2>2. Waiting(us, view)
    BY <1>1, <2>1 DEF Forms, Waiting
  <2>3. QED
    BY <1>1, <2>2 DEF us
<1>2. ASSUME NEW i \in DOMAIN tasks, tasks' = [tasks EXCEPT ![i] = t], t.live = tasks[i].live
      PROVE  Waiting(tasks', view)
  BY <1>2 DEF Forms, Waiting
<1>3. QED
  BY <1>1, <1>2

\* Only what draws the page anew, a form and the answer to it change a form.
LEMMA FormsKept ==
    ASSUME Forms, UNCHANGED viewVars, Waiting(tasks', view)
    PROVE  Forms'
<1>1. view' = view /\ draft' = draft /\ edited' = edited
  BY DEF viewVars, view, Shown
<1>2. QED
  BY <1>1 DEF Forms, Waiting

LEMMA FormsByServe ==
    ASSUME Orderly, Forms, NEW i \in DOMAIN tasks, Serve(i)
    PROVE  Forms'
<1> DEFINE t == tasks[i]
           Answered(ok, effect) ==
               [t EXCEPT !.phase = "answered", !.arg = None, !.ok = ok, !.effect = effect]
<1>1. DOMAIN t = TaskFields
  BY DEF Orderly, Listed
<1>2. PICK u : /\ tasks' = [tasks EXCEPT ![i] = u]
               /\ \/ u = Answered(TRUE, Len(log'))
                  \/ u = Answered(FALSE, 0)
  <2>1. \/ tasks' = [tasks EXCEPT ![i] = Answered(TRUE, Len(log'))]
        \/ tasks' = [tasks EXCEPT ![i] = Answered(FALSE, 0)]
    BY DEF Serve
  <2>2. QED
    BY ONLY <2>1
<1>3. DOMAIN u = TaskFields /\ u.live = t.live
  <2> HIDE DEF t
  <2>1. CASE u = Answered(TRUE, Len(log'))
    BY <1>1, <2>1 DEF TaskFields
  <2>2. CASE u = Answered(FALSE, 0)
    BY <1>1, <2>2 DEF TaskFields
  <2>3. QED
    BY <1>2, <2>1, <2>2
<1>4. Waiting(tasks', view)
  BY <1>2, <1>3, FormsByTask
<1>5. QED
  BY <1>4, FormsKept DEF Serve

LEMMA FormsByAnswer ==
    ASSUME Orderly, Forms, NEW i \in DOMAIN tasks, Answer(i)
    PROVE  Forms'
<1> DEFINE t == tasks[i]
           r == IF t.op \in {"open", "session"} THEN Alone(t) ELSE Refreshing(t)
           us == [tasks EXCEPT ![i] = r]
<1>1. /\ DOMAIN t = TaskFields /\ Listed(tasks)
  BY DEF Orderly, Listed
<1>2. DOMAIN r = TaskFields /\ r.live = t.live
  <2> HIDE DEF t
  <2>1. CASE t.op \in {"open", "session"}
    BY <1>1, <2>1, AloneIs
  <2>2. CASE t.op \notin {"open", "session"}
    BY <1>1, <2>2, RefreshingIs
  <2>3. QED
    BY <2>1, <2>2
<1>3. Listed(us) /\ Waiting(us, view)
  <2> HIDE DEF r
  <2>1. Listed(us)
    BY <1>1, <1>2, Advanced
  <2>2. Waiting(us, view)
    BY <1>2 DEF Forms, Waiting
  <2>3. QED
    BY <2>1, <2>2
<1>4. \/ Draw(data, FALSE, tab, us)
      \/ tasks' = us /\ UNCHANGED viewVars
      \/ tasks' = us /\ t.live /\ UNCHANGED <<authRequired, tab, edited>>
      \/ tasks' = RemoveAt(tasks, i) /\ UNCHANGED viewVars
  BY DEF Answer
<1> HIDE DEF us
<1>5. CASE Draw(data, FALSE, tab, us)
  BY <1>3, <1>5, FormsDrawn
<1>6. CASE tasks' = us /\ UNCHANGED viewVars
  BY <1>3, <1>6, FormsKept
<1>7. CASE tasks' = us /\ t.live /\ UNCHANGED <<authRequired, tab, edited>>
  <2>1. view' = view /\ view = "Settings"
    BY <1>7 DEF Forms, Waiting, view, Shown
  <2>2. QED
    BY <1>3, <1>7, <2>1 DEF Forms, Waiting
<1>8. CASE tasks' = RemoveAt(tasks, i) /\ UNCHANGED viewVars
  <2>1. Waiting(RemoveAt(tasks, i), view)
    BY <1>1, EndedWaiting DEF Forms
  <2>2. QED
    BY <1>8, <2>1, FormsKept
<1>9. QED
  BY <1>4, <1>5, <1>6, <1>7, <1>8

LEMMA FormsByTakes ==
    ASSUME Orderly, Forms, Takes
    PROVE  Forms'
<1>1. PICK i \in DOMAIN tasks : RefreshSucceeds(i) \/ RefreshFails(i)
  BY DEF Takes
<1>2. Waiting(RemoveAt(tasks, i), view) /\ Listed(RemoveAt(tasks, i))
  BY EndedWaiting DEF Orderly, Forms
<1>3. \/ \E d, gate : Draw(d, gate, tab, RemoveAt(tasks, i))
      \/ tasks' = RemoveAt(tasks, i) /\ UNCHANGED viewVars
  BY <1>1 DEF RefreshSucceeds, RefreshFails
<1>4. QED
  BY <1>2, <1>3, FormsDrawn, FormsKept

LEMMA FormsByUser ==
    ASSUME Orderly, Forms, UserStep
    PROVE  Forms'
<1>1. ASSUME NEW op, NEW arg, Call(op, arg), op = "config" => view = "Settings"
      PROVE  Forms'
  <2>1. /\ DOMAIN Task(op, arg) = TaskFields
        /\ Task(op, arg).live => view = "Settings"
    BY <1>1, TaskIs
  <2>2. tasks' = Append(tasks, Task(op, arg)) /\ UNCHANGED viewVars
    BY <1>1 DEF Call
  <2>3. QED
    BY <2>1, <2>2, FormsByTask, FormsKept
<1>2. CASE availability
  <2>1. \E arg : Call("availability", arg)
    BY <1>2 DEF availability
  <2>2. QED
    BY <1>1, <2>1
<1>3. CASE authenticate
  <2> DEFINE t == [Task("session", None) EXCEPT !.phase = "answered"]
  <2>1. DOMAIN t = TaskFields /\ ~t.live
    BY DEF Task, TaskFields
  <2>2. Call("session", None) \/ (tasks' = Append(tasks, t) /\ UNCHANGED viewVars)
    BY <1>3 DEF authenticate
  <2> HIDE DEF t
  <2>3. QED
    BY <1>1, <2>1, <2>2, FormsByTask, FormsKept
<1>4. CASE toggle
  <2>1. \E arg : Call("toggle", arg)
    BY <1>4 DEF toggle
  <2>2. QED
    BY <1>1, <2>1
<1>5. CASE edit
  <2>1. PICK m \in Rows, p \in PriceValues :
           draft' = Spread(draft, [x \in {m} |-> p]) /\ edited' = edited \cup {m}
    BY <1>5 DEF edit
  <2>2. DOMAIN draft' = DOMAIN draft \cup {m}
    BY <2>1 DEF Spread
  <2>3. view' = view /\ tasks' = tasks /\ view = "Finance"
    BY <1>5 DEF edit, view, Shown
  <2>4. QED
    BY <2>1, <2>2, <2>3 DEF Forms, Waiting
<1>6. CASE savePrice
  <2>1. \E arg : Call("price", arg)
    BY <1>6 DEF savePrice
  <2>2. QED
    BY <1>1, <2>1
<1>7. CASE update
  <2>1. view' = view /\ tasks' = tasks /\ view = "Settings" /\ edited' = edited
    BY <1>7 DEF update, view, Shown
  <2>2. QED
    BY <2>1 DEF Forms, Waiting
<1>8. CASE saveConfig
  BY <1>1, <1>8 DEF saveConfig
<1>9. CASE SelectTab
  BY <1>9, FormsDrawn DEF SelectTab, Forms, Orderly
<1>10. CASE Dismiss
  BY <1>10, FormsKept DEF Dismiss, Forms
<1>11. QED
  BY <1>2, <1>3, <1>4, <1>5, <1>6, <1>7, <1>8, <1>9, <1>10 DEF UserStep

LEMMA FormsByStep ==
    ASSUME Orderly, Forms, [Next]_vars
    PROVE  Forms'
<1>1. CASE Poll
  <2> DEFINE t == Refreshing(Task("poll", None))
  <2>1. DOMAIN t = TaskFields /\ ~t.live
    <3>1. ~Task("poll", None).live /\ DOMAIN Task("poll", None) = TaskFields
      BY TaskIs
    <3>2. QED
      BY <3>1, RefreshingIs
  <2> HIDE DEF t
  <2>2. tasks' = Append(tasks, t) /\ UNCHANGED viewVars
    BY <1>1 DEF Poll, t
  <2>3. QED
    BY <2>1, <2>2, FormsByTask, FormsKept
<1>2. CASE UserStep
  BY <1>2, FormsByUser
<1>3. CASE Elsewhere \/ SessionEnds \/ UNCHANGED vars
  <2>1. tasks' = tasks /\ UNCHANGED viewVars
    BY <1>3 DEF Elsewhere, SessionEnds, vars, viewVars
  <2>2. QED
    BY <2>1, FormsKept DEF Forms
<1>4. ASSUME NEW i \in DOMAIN tasks, Progress(i)
      PROVE  Forms'
  BY <1>4, FormsByServe, FormsByAnswer, FormsByTakes DEF Progress, Takes
<1>5. QED
  BY <1>1, <1>2, <1>3, <1>4 DEF Next

\* While a view stays open, the end of a refresh changes no price that was
\* edited in it and no draft of the configuration.
LEMMA DraftsKept ==
    ASSUME Forms, view' = view, UNCHANGED viewVars \/ Takes
    PROVE  /\ view = "Finance" => \A m \in edited : m \in DOMAIN draft' /\ draft'[m] = draft[m]
           /\ view = "Settings" /\ draft # None => draft' = draft
<1>1. CASE UNCHANGED viewVars
  BY <1>1 DEF viewVars, Forms
<1>2. CASE Takes
  <2>1. UNCHANGED viewVars \/ \E d, gate, ts : Draw(d, gate, tab, ts)
    BY <1>2 DEF Takes, RefreshSucceeds, RefreshFails
  <2>2. ASSUME NEW d, NEW gate, NEW ts, Draw(d, gate, tab, ts)
        PROVE  draft' = Adopted(view, d)
    <3>1. Shown(gate, tab) = view
      BY <2>2 DEF Draw, view, Shown
    <3>2. QED
      BY <2>2, <3>1 DEF Draw
  <2>3. ASSUME NEW d, draft' = Adopted(view, d)
        PROVE  /\ view = "Finance" =>
                     \A m \in edited : m \in DOMAIN draft' /\ draft'[m] = draft[m]
               /\ view = "Settings" /\ draft # None => draft' = draft
    <3>1. CASE view = "Finance"
      <4>1. draft' = Spread(d.prices, draft) /\ edited \subseteq DOMAIN draft
        BY <2>3, <3>1 DEF Adopted, Forms
      <4>2. QED
        BY <3>1, <4>1 DEF Spread
    <3>2. CASE view = "Settings" /\ draft # None
      BY <2>3, <3>2 DEF Adopted
    <3>3. QED
      BY <3>1, <3>2
  <2>4. QED
    BY <1>1, <2>1, <2>2, <2>3
<1>3. QED
  BY <1>1, <1>2

\* No refresh touches a price the user edited or a draft of the configuration
\* while the view is open.
THEOREM DraftsHold == Spec => PollsKeepDrafts
<1> DEFINE Keeps ==
        Len(tasks') < Len(tasks) /\ view' = view =>
          /\ view = "Finance" => \A m \in edited : m \in DOMAIN draft' /\ draft'[m] = draft[m]
          /\ view = "Settings" /\ draft # None => draft' = draft
<1>1. Orderly /\ Forms /\ [Next]_vars => [Keeps]_vars
  BY OrderlyByStep, DraftsKept
<1> HIDE DEF Keeps
<1>2. Spec => [][Keeps]_vars
  BY <1>1, OrderlyAtFirst, OrderlyByStep, FormsAtFirst, FormsByStep, PTL DEF Spec
<1>3. QED
  BY <1>2 DEF PollsKeepDrafts, Keeps
=============================================================================
