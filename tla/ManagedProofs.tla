--------------------------- MODULE ManagedProofs ---------------------------
(***************************************************************************)
(* Theorems about Managed, for any number of concurrent requests, runs and  *)
(* restarts of the process: every invariant of it that TLC checks.           *)
(***************************************************************************)
EXTENDS Managed, TLAPS

USE DEF agentVars, configVars, fileVars

Jobs ==
    [at: {"idle", "copy", "install", "cancel", "cancelOnly", "snapshot", "open",
          "write", "rename", "start"},
     op: {"none", "pause", "stop", "resume", "price", "config"},
     held: Configs, hand: {0} \cup Runs, restart: BOOLEAN,
     fd: {"none", "tmp", "path", "lost"}]

Files == [is: {"whole", "empty", "torn"}, text: Encodings]
Temporaries == [is: {"whole", "empty", "torn", "absent"}, text: Encodings]

\* TypeOK, and what it leaves open: a handler that is to cancel has a cancel
\* function in hand, and nothing is known of a file that is not there.
Typed ==
    /\ TypeOK
    /\ \A w \in Handlers : job[w].at \in {"cancel", "cancelOnly"} => job[w].hand # 0
    /\ tmp.is = "absent" => tmp = Absent

----------------------------------------------------------------------------
(* Types.                                                                   *)

LEMMA Constants ==
    /\ MaxRequests \in Nat /\ 1 \in Runs /\ 0 \in Edits
    /\ Idle \in Jobs /\ NoConfig \in Configs /\ NoLists \in [Edits -> Lists]
    /\ NoText \in Encodings /\ Absent \in Temporaries
    /\ Empty \in Files /\ Empty \in Temporaries
    /\ Torn \in Files /\ Torn \in Temporaries
<1>1. MaxRequests \in Nat /\ 1 \in Runs /\ 0 \in Edits
  BY BoundsAssumption DEF Runs, Edits
<1>2. NoLists \in [Edits -> Lists] /\ NoText \in Encodings /\ NoConfig \in Configs
  BY <1>1 DEF NoLists, Lists, NoText, Encodings, NoConfig, Configs
<1>3. QED
  BY <1>1, <1>2 DEF Idle, Jobs, Absent, Empty, Torn, Files, Temporaries

LEMMA TypedIs ==
    ASSUME Typed
    PROVE  /\ job \in [Handlers -> Jobs] /\ file \in Files /\ tmp \in Temporaries
           /\ up \in BOOLEAN /\ config \in Configs /\ lists \in [Edits -> Lists]
           /\ maps \in [Edits -> Edits] /\ agent \in Nat /\ built \in Edits
           /\ requests \in Edits /\ current \in {0} \cup Runs
           /\ run \in [Runs -> {"none", "live", "over", "done"}]
           /\ using \in [Runs -> Nat] /\ cancelled \subseteq Runs
BY DEF Typed, TypeOK, Jobs, Files, Temporaries

LEMMA TypedAtFirst == Init => Typed
<1> SUFFICES ASSUME Init PROVE Typed
  OBVIOUS
<1>1. file \in Files
  <2>1. PICK sharing \in BOOLEAN : file = Whole([NoText EXCEPT !.sharing = sharing])
    BY DEF Init
  <2>2. [NoText EXCEPT !.sharing = sharing] \in Encodings
    BY Constants DEF Encodings
  <2>3. QED
    BY <2>1, <2>2 DEF Whole, Files
<1>2. job \in [Handlers -> Jobs] /\ \A w \in Handlers : job[w].at = "idle"
  BY Constants DEF Init, Idle
<1>3. QED
  BY <1>1, <1>2, Constants DEF Init, Typed, TypeOK, Jobs, Files, Temporaries

\* What is written has the type of a file.
LEMMA EncodedIs ==
    ASSUME Typed, NEW c \in Configs
    PROVE  Encoded(c) \in Encodings /\ Whole(Encoded(c)) \in Files
           /\ Whole(Encoded(c)) \in Temporaries
<1>1. Encoded(c) \in Encodings
  BY TypedIs DEF Encoded, Encodings, Configs
<1>2. QED
  BY <1>1 DEF Whole, Files, Temporaries

\* A step that leaves a handler at j, and the others where they are.
Moves(w, j) == job' = [job EXCEPT ![w] = j]

Armed(j) == j.at \in {"cancel", "cancelOnly"} => j.hand # 0

LEMMA TypedByMove ==
    ASSUME Typed, NEW w \in Handlers, NEW j \in Jobs, Armed(j), Moves(w, j)
    PROVE  /\ job' \in [Handlers -> Jobs]
           /\ \A v \in Handlers : job'[v].at \in {"cancel", "cancelOnly"} => job'[v].hand # 0
BY TypedIs DEF Typed, Moves, Armed

\* The type of each part of the state.
HandlersTyped ==
    /\ job \in [Handlers -> Jobs]
    /\ \A v \in Handlers : job[v].at \in {"cancel", "cancelOnly"} => job[v].hand # 0
AgentTyped ==
    /\ agent \in Nat /\ built \in Edits /\ current \in {0} \cup Runs
    /\ run \in [Runs -> {"none", "live", "over", "done"}]
    /\ using \in [Runs -> Nat] /\ cancelled \subseteq Runs
    /\ cleared \subseteq Runs /\ refused \subseteq Runs
ConfigTyped ==
    /\ config \in Configs /\ lists \in [Edits -> Lists] /\ maps \in [Edits -> Edits]
    /\ requests \in Edits
FilesTyped ==
    /\ file \in Files /\ tmp \in Temporaries /\ (tmp.is = "absent" => tmp = Absent)
    /\ overlapped \in BOOLEAN /\ failed \in BOOLEAN

LEMMA TypedParts ==
    Typed <=> up \in BOOLEAN /\ HandlersTyped /\ AgentTyped /\ ConfigTyped /\ FilesTyped
BY DEF Typed, TypeOK, HandlersTyped, AgentTyped, ConfigTyped, FilesTyped, Jobs, Files, Temporaries

LEMMA TypedNext ==
    ASSUME up' \in BOOLEAN, HandlersTyped', AgentTyped', ConfigTyped', FilesTyped'
    PROVE  Typed'
BY DEF Typed, TypeOK, HandlersTyped, AgentTyped, ConfigTyped, FilesTyped, Jobs, Files, Temporaries

\* The process starts and ends.
LEMMA TypedByProcess ==
    ASSUME Typed, Boot \/ Exit
    PROVE  Typed'
<1>1. up \in BOOLEAN /\ HandlersTyped /\ AgentTyped /\ ConfigTyped /\ FilesTyped
  BY TypedParts
<1>2. CASE Boot
  <2>1. file.text \in Encodings /\ file.text.lists \in Lists /\ file.text.prices \in Edits
        /\ file.text.sharing \in BOOLEAN
    BY <1>1 DEF FilesTyped, Files, Encodings
  <2>2. file.text.lists.offers \in Edits
    BY <2>1 DEF Lists
  <2>3. AgentTyped'
    BY <1>1, <1>2, <2>2, Constants DEF Boot, AgentTyped
  <2>4. ConfigTyped'
    BY <1>1, <1>2, <2>1, Constants DEF Boot, ConfigTyped, Configs
  <2>5. HandlersTyped' /\ FilesTyped' /\ up' \in BOOLEAN
    BY <1>1, <1>2 DEF Boot, HandlersTyped, FilesTyped
  <2>6. QED
    BY <2>3, <2>4, <2>5, TypedNext
<1>3. CASE Exit
  <2>1. AgentTyped'
    BY <1>3, Constants DEF Exit, AgentTyped
  <2>2. ConfigTyped'
    BY <1>1, <1>3, Constants DEF Exit, ConfigTyped
  <2>3. HandlersTyped'
    BY <1>3, Constants DEF Exit, HandlersTyped, Idle
  <2>4. FilesTyped' /\ up' \in BOOLEAN
    BY <1>1, <1>3 DEF Exit, FilesTyped
  <2>5. QED
    BY <2>1, <2>2, <2>3, <2>4, TypedNext
<1>4. QED
  BY <1>2, <1>3

\* The runs.
LEMMA TypedByRun ==
    ASSUME Typed, \E r \in Runs : RunReturns(r) \/ Epilogue(r)
    PROVE  Typed'
<1>1. up \in BOOLEAN /\ HandlersTyped /\ AgentTyped /\ ConfigTyped /\ FilesTyped
  BY TypedParts
<1>2. AgentTyped'
  BY <1>1 DEF RunReturns, Epilogue, AgentTyped
<1>3. UNCHANGED <<up, job, configVars, fileVars>>
  BY DEF RunReturns, Epilogue
<1>4. HandlersTyped' /\ ConfigTyped' /\ FilesTyped' /\ up' \in BOOLEAN
  BY <1>1, <1>3 DEF HandlersTyped, ConfigTyped, FilesTyped
<1>5. QED
  BY <1>2, <1>4, TypedNext

\* A new request is at its first point.
LEMMA BeginIs ==
    ASSUME NEW w, NEW op \in {"pause", "stop", "resume", "price", "config"},
           NEW at \in {"cancel", "snapshot", "copy"}, NEW hand \in {0} \cup Runs,
           at = "cancel" => hand # 0, Begin(w, op, at, hand)
    PROVE  \E j \in Jobs : Armed(j) /\ Moves(w, j) /\ j.at = at /\ j.op = op /\ j.hand = hand
<1> DEFINE j == [Idle EXCEPT !.at = at, !.op = op, !.hand = hand]
<1>1. j \in Jobs /\ j.at = at /\ j.op = op /\ j.hand = hand
  BY Constants DEF Jobs
<1>2. Moves(w, j)
  BY DEF Begin, Moves
<1> HIDE DEF j
<1>3. QED
  BY <1>1, <1>2 DEF Armed

LEMMA TypedByRequest ==
    ASSUME Typed, NEW w \in Handlers, Request(w)
    PROVE  Typed'
<1>1. up \in BOOLEAN /\ HandlersTyped /\ AgentTyped /\ ConfigTyped /\ FilesTyped
  BY TypedParts
<1>2. ASSUME NEW j \in Jobs, Armed(j), Moves(w, j)
      PROVE  HandlersTyped'
  BY <1>2, TypedByMove DEF HandlersTyped
<1>3. HandlersTyped'
  <2>1. CASE Pause(w) \/ Stop(w) \/ Resume(w) \/ SetPrice(w) \/ Offer(w)
    <3>1. \E op \in {"pause", "stop", "resume", "price", "config"},
             at \in {"cancel", "snapshot", "copy"}, hand \in {0} \cup Runs :
               Begin(w, op, at, hand) /\ (at = "cancel" => hand # 0)
      BY <1>1, <2>1 DEF Pause, Stop, Resume, SetPrice, Offer, AgentTyped
    <3>2. QED
      BY <1>2, <3>1, BeginIs
  <2>2. CASE PutConfig(w)
    <3>1. PICK sharing \in BOOLEAN :
             Moves(w, [Idle EXCEPT !.at = "install", !.op = "config",
                !.held = [sharing |-> sharing, list |-> requests', map |-> requests']])
      BY <2>2 DEF PutConfig, Moves
    <3>2. requests' \in Edits
      BY <1>1, <2>2, Constants DEF PutConfig, Accepts, ConfigTyped, Edits
    <3>3. [sharing |-> sharing, list |-> requests', map |-> requests'] \in Configs
      BY <3>2 DEF Configs
    <3> DEFINE c == [sharing |-> sharing, list |-> requests', map |-> requests']
               j == [Idle EXCEPT !.at = "install", !.op = "config", !.held = c]
    <3>4. j \in Jobs /\ j.at = "install"
      <4> HIDE DEF c
      <4>1. QED
        BY <3>3, Constants DEF Jobs, c
    <3> HIDE DEF j
    <3>5. QED
      BY <1>2, <3>1, <3>4 DEF Armed, j
  <2>3. QED
    BY <2>1, <2>2 DEF Request
<1>4. requests' \in Edits
  <2>1. requests < MaxRequests /\ requests' = requests + 1
    BY DEF Request, Pause, Stop, Resume, SetPrice, Offer, PutConfig, Accepts
  <2>2. QED
    BY <1>1, <2>1, Constants DEF ConfigTyped, Edits
<1>5. config' \in Configs
  BY <1>1, <1>4 DEF Request, Pause, Stop, Resume, SetPrice, Offer, PutConfig,
     ConfigTyped, Configs
<1>6. lists' \in [Edits -> Lists] /\ maps' \in [Edits -> Edits]
  <2>1. \/ lists' = lists
        \/ \E e \in Edits, valid \in BOOLEAN :
              lists' = [lists EXCEPT ![e] = [offers |-> requests', valid |-> valid]]
    BY <1>1, <1>4 DEF Request, Pause, Stop, Resume, SetPrice, Offer, PutConfig,
       ConfigTyped, Configs
  <2>2. maps' = maps \/ \E e \in Edits : maps' = [maps EXCEPT ![e] = requests']
    BY <1>1, <1>4 DEF Request, Pause, Stop, Resume, SetPrice, Offer, PutConfig,
       ConfigTyped, Configs
  <2>3. QED
    BY <1>1, <1>4, <2>1, <2>2 DEF ConfigTyped, Lists
<1>7. UNCHANGED <<up, agentVars, fileVars>>
  BY DEF Request, Pause, Stop, Resume, SetPrice, Offer, PutConfig
<1>8. AgentTyped' /\ FilesTyped' /\ up' \in BOOLEAN
  BY <1>1, <1>7 DEF AgentTyped, FilesTyped
<1>9. ConfigTyped'
  BY <1>4, <1>5, <1>6 DEF ConfigTyped
<1>10. QED
  BY <1>3, <1>8, <1>9, TypedNext

\* A handler goes on outside save.
LEMMA TypedByWork ==
    ASSUME Typed, NEW w \in Handlers, Copy(w) \/ Install(w) \/ Cancel(w) \/ Start(w)
    PROVE  Typed'
<1>1. up \in BOOLEAN /\ HandlersTyped /\ AgentTyped /\ ConfigTyped /\ FilesTyped
  BY TypedParts
<1>2. ASSUME NEW j \in Jobs, Armed(j), Moves(w, j)
      PROVE  HandlersTyped'
  BY <1>2, TypedByMove DEF HandlersTyped
<1>3. job[w] \in Jobs /\ Idle \in Jobs /\ Armed(Idle)
  BY <1>1, Constants DEF HandlersTyped, Armed, Idle
<1>4. CASE Copy(w)
  <2> DEFINE j == [job[w] EXCEPT !.at = "install", !.held = config]
  <2>1. j \in Jobs /\ j.at = "install"
    BY <1>1, <1>3 DEF Jobs, ConfigTyped
  <2>2. Moves(w, j)
    BY <1>4 DEF Copy, Moves
  <2> HIDE DEF j
  <2>3. HandlersTyped'
    BY <1>2, <2>1, <2>2 DEF Armed
  <2>4. AgentTyped' /\ ConfigTyped' /\ FilesTyped' /\ up' \in BOOLEAN
    BY <1>1, <1>4 DEF Copy, AgentTyped, ConfigTyped, FilesTyped
  <2>5. QED
    BY <2>3, <2>4, TypedNext
<1>5. CASE Install(w)
  <2> DEFINE at == IF current = 0 THEN "snapshot"
                   ELSE IF lists[job[w].held.list].valid THEN "cancel" ELSE "cancelOnly"
             j == [job[w] EXCEPT !.at = at, !.hand = current, !.restart = current # 0]
  <2>1. j \in Jobs /\ j.at = at /\ j.hand = current
    BY <1>1, <1>3 DEF Jobs, AgentTyped
  <2>2. Moves(w, Idle) \/ Moves(w, j)
    BY <1>5 DEF Install, Moves, OldCancel
  <2>3. Armed(j)
    <3> HIDE DEF j
    <3>1. QED
      BY <2>1 DEF Armed
  <2> HIDE DEF j
  <2>4. HandlersTyped'
    BY <1>2, <1>3, <2>1, <2>2, <2>3
  <2>5. job[w].held \in Configs
    BY <1>3 DEF Jobs
  <2>6. lists[job[w].held.list].offers \in Edits
    BY <1>1, <2>5 DEF ConfigTyped, Configs, Lists
  <2>7. AgentTyped'
    BY <1>1, <1>5, <2>6 DEF Install, AgentTyped
  <2>8. ConfigTyped' /\ FilesTyped' /\ up' \in BOOLEAN
    BY <1>1, <1>5, <2>5 DEF Install, ConfigTyped, FilesTyped
  <2>9. QED
    BY <2>4, <2>7, <2>8, TypedNext
<1>6. CASE Cancel(w)
  <2> DEFINE j == [job[w] EXCEPT !.at = "snapshot", !.hand = 0]
  <2>1. j \in Jobs /\ j.at = "snapshot"
    BY <1>3 DEF Jobs
  <2>2. Moves(w, Idle) \/ Moves(w, j)
    BY <1>6 DEF Cancel, Moves
  <2> HIDE DEF j
  <2>3. HandlersTyped'
    BY <1>2, <1>3, <2>1, <2>2 DEF Armed
  <2>4. job[w].hand \in Runs
    BY <1>1, <1>3, <1>6 DEF Cancel, HandlersTyped, Jobs
  <2>5. AgentTyped'
    BY <1>1, <1>6, <2>4 DEF Cancel, AgentTyped
  <2>6. ConfigTyped' /\ FilesTyped' /\ up' \in BOOLEAN
    BY <1>1, <1>6 DEF Cancel, ConfigTyped, FilesTyped
  <2>7. QED
    BY <2>3, <2>5, <2>6, TypedNext
<1>7. CASE Start(w)
  <2>1. Moves(w, Idle)
    BY <1>7 DEF Start, Moves
  <2>2. HandlersTyped'
    BY <1>2, <1>3, <2>1
  <2>3. AgentTyped'
    BY <1>1, <1>7 DEF Start, AgentTyped
  <2>4. ConfigTyped' /\ FilesTyped' /\ up' \in BOOLEAN
    BY <1>1, <1>7 DEF Start, ConfigTyped, FilesTyped
  <2>5. QED
    BY <2>2, <2>3, <2>4, TypedNext
<1>8. QED
  BY <1>4, <1>5, <1>6, <1>7

\* A handler whose save has ended.
LEMMA AfterSaveIs ==
    ASSUME NEW w, NEW ok \in BOOLEAN
    PROVE  /\ AfterSave(w, ok) \in Jobs /\ Armed(AfterSave(w, ok))
           /\ AfterSave(w, ok).at \in {"idle", "start"} /\ AfterSave(w, ok).fd = "none"
<1>1. /\ [Idle EXCEPT !.at = "start"] \in Jobs
      /\ [Idle EXCEPT !.at = "start"].at = "start" /\ [Idle EXCEPT !.at = "start"].fd = "none"
  BY Constants DEF Jobs, Idle
<1>2. Idle \in Jobs /\ Idle.at = "idle" /\ Idle.fd = "none"
  BY Constants DEF Idle
<1>3. AfterSave(w, ok) = Idle \/ AfterSave(w, ok) = [Idle EXCEPT !.at = "start"]
  BY DEF AfterSave
<1> HIDE DEF Idle
<1>4. QED
  BY <1>1, <1>2, <1>3 DEF Armed

\* The other handlers keep all but the name of the file they have open.
LEMMA ElsewhereIs ==
    ASSUME HandlersTyped, NEW w \in Handlers
    PROVE  /\ Elsewhere(w) \in [Handlers -> Jobs]
           /\ \A v \in Handlers :
                 /\ Elsewhere(w)[v].at = job[v].at
                 /\ Elsewhere(w)[v].op = job[v].op
                 /\ Elsewhere(w)[v].held = job[v].held
                 /\ Elsewhere(w)[v].hand = job[v].hand
                 /\ Elsewhere(w)[v].restart = job[v].restart
<1>1. ASSUME NEW v \in Handlers
      PROVE  LET j == [job[v] EXCEPT !.fd = Renamed(@)]
             IN  /\ j \in Jobs
                 /\ j.at = job[v].at /\ j.op = job[v].op /\ j.held = job[v].held
                 /\ j.hand = job[v].hand /\ j.restart = job[v].restart
  <2>1. job[v] \in Jobs
    BY DEF HandlersTyped
  <2>2. Renamed(job[v].fd) \in {"none", "tmp", "path", "lost"}
    BY <2>1 DEF Jobs, Renamed
  <2>3. QED
    BY <2>1, <2>2 DEF Jobs
<1>2. ASSUME NEW v \in Handlers
      PROVE  Elsewhere(w)[v] = IF v = w THEN job[v] ELSE [job[v] EXCEPT !.fd = Renamed(@)]
  BY DEF Elsewhere
<1>3. ASSUME NEW v \in Handlers
      PROVE  /\ Elsewhere(w)[v] \in Jobs
             /\ Elsewhere(w)[v].at = job[v].at
             /\ Elsewhere(w)[v].op = job[v].op
             /\ Elsewhere(w)[v].held = job[v].held
             /\ Elsewhere(w)[v].hand = job[v].hand
             /\ Elsewhere(w)[v].restart = job[v].restart
  <2>1. CASE v = w
    BY <1>2, <2>1 DEF HandlersTyped
  <2>2. CASE v # w
    BY <1>1, <1>2, <2>2
  <2>3. QED
    BY <2>1, <2>2
<1>4. Elsewhere(w) \in [Handlers -> Jobs]
  BY <1>3 DEF Elsewhere
<1>5. QED
  BY <1>3, <1>4

LEMMA TypedBySave ==
    ASSUME Typed, NEW w \in Handlers,
           \/ Snapshot(w) \/ Open(w) \/ OpenFails(w) \/ Write(w) \/ WriteFails(w)
           \/ Rename(w) \/ RenameFails(w)
    PROVE  Typed'
<1>1. up \in BOOLEAN /\ HandlersTyped /\ AgentTyped /\ ConfigTyped /\ FilesTyped
  BY TypedParts
<1>2. ASSUME NEW j \in Jobs, Armed(j), Moves(w, j)
      PROVE  HandlersTyped'
  BY <1>2, TypedByMove DEF HandlersTyped
<1>3. job[w] \in Jobs
  BY <1>1 DEF HandlersTyped
<1>4. UNCHANGED <<up, agentVars, configVars>>
  BY DEF Snapshot, Open, OpenFails, Write, WriteFails, Rename, RenameFails
<1>5. AgentTyped' /\ ConfigTyped' /\ up' \in BOOLEAN
  BY <1>1, <1>4 DEF AgentTyped, ConfigTyped
<1>6. ASSUME Fails(w)
      PROVE  HandlersTyped'
  BY <1>2, <1>6, AfterSaveIs DEF Fails, Moves
<1>7. CASE Snapshot(w)
  <2> DEFINE j == [job[w] EXCEPT !.at = "open", !.held = config]
  <2>1. j \in Jobs /\ j.at = "open"
    BY <1>1, <1>3 DEF Jobs, ConfigTyped
  <2>2. Moves(w, j)
    BY <1>7 DEF Snapshot, Moves
  <2> HIDE DEF j
  <2>3. HandlersTyped'
    BY <1>2, <2>1, <2>2 DEF Armed
  <2>4. FilesTyped'
    BY <1>1, <1>7 DEF Snapshot, FilesTyped
  <2>5. QED
    BY <1>5, <2>3, <2>4, TypedNext
<1>8. CASE Open(w)
  <2> DEFINE j == [job[w] EXCEPT !.at = "write", !.fd = "tmp"]
  <2>1. j \in Jobs /\ j.at = "write"
    BY <1>3 DEF Jobs
  <2>2. Moves(w, j)
    BY <1>8 DEF Open, Moves
  <2> HIDE DEF j
  <2>3. HandlersTyped'
    BY <1>2, <2>1, <2>2 DEF Armed
  <2>4. FilesTyped'
    BY <1>1, <1>8, Constants DEF Open, FilesTyped, Empty
  <2>5. QED
    BY <1>5, <2>3, <2>4, TypedNext
<1>9. CASE OpenFails(w) \/ RenameFails(w)
  <2>1. Fails(w) /\ UNCHANGED <<file, tmp, overlapped>>
    BY <1>9 DEF OpenFails, RenameFails
  <2>2. FilesTyped'
    BY <1>1, <2>1 DEF FilesTyped, Fails
  <2>3. QED
    BY <1>5, <1>6, <2>1, <2>2, TypedNext
<1>10. CASE Write(w)
  <2> DEFINE j == [job[w] EXCEPT !.at = "rename", !.fd = "none"]
             text == Whole(Encoded(job[w].held))
  <2>1. j \in Jobs /\ j.at = "rename"
    BY <1>3 DEF Jobs
  <2>2. Moves(w, j)
    BY <1>10 DEF Write, Moves
  <2> HIDE DEF j
  <2>3. HandlersTyped'
    BY <1>2, <2>1, <2>2 DEF Armed
  <2>4. text \in Files /\ text \in Temporaries /\ text.is # "absent"
    <3>1. job[w].held \in Configs
      BY <1>3 DEF Jobs
    <3>2. QED
      BY <3>1, EncodedIs DEF Whole
  <2>5. Overwrite(tmp, text) \subseteq {text, Torn} /\ Overwrite(file, text) \subseteq {text, Torn}
    BY DEF Overwrite
  <2>6. /\ file' = file \/ file' \in {text, Torn}
        /\ tmp' = tmp \/ tmp' \in {text, Torn}
        /\ overlapped' = overlapped /\ failed' = failed
    BY <1>10, <2>5 DEF Write
  <2>7. Torn.is # "absent"
    BY DEF Torn
  <2> HIDE DEF text
  <2>8. FilesTyped'
    BY <1>1, <2>4, <2>6, <2>7, Constants DEF FilesTyped
  <2>9. QED
    BY <1>5, <2>3, <2>8, TypedNext
<1>11. CASE WriteFails(w)
  <2>1. /\ Fails(w)
        /\ tmp' = tmp \/ tmp' = Torn
        /\ file' = file \/ file' = Torn
        /\ overlapped' = overlapped
    BY <1>11 DEF WriteFails
  <2>2. Torn.is # "absent"
    BY DEF Torn
  <2>3. FilesTyped'
    BY <1>1, <2>1, <2>2, Constants DEF FilesTyped, Fails
  <2>4. QED
    BY <1>5, <1>6, <2>1, <2>3, TypedNext
<1>12. CASE Rename(w)
  <2>1. /\ AfterSave(w, TRUE) \in Jobs
        /\ AfterSave(w, TRUE).at \notin {"cancel", "cancelOnly"}
    BY AfterSaveIs
  <2>2. HandlersTyped'
    BY <1>1, <1>12, <2>1, ElsewhereIs DEF Rename, HandlersTyped
  <2>3. tmp.is # "absent"
    BY <1>1, <1>12 DEF Rename, FilesTyped
  <2>4. tmp \in Files
    BY <1>1, <2>3 DEF FilesTyped, Temporaries, Files
  <2>5. FilesTyped'
    BY <1>1, <1>12, <2>4, Constants DEF Rename, FilesTyped
  <2>6. QED
    BY <1>5, <2>2, <2>5, TypedNext
<1>13. QED
  BY <1>7, <1>8, <1>9, <1>10, <1>11, <1>12

LEMMA TypedByStep ==
    ASSUME Typed, [Next]_vars
    PROVE  Typed'
<1>1. CASE Next
  BY <1>1, TypedByProcess, TypedByRun, TypedByRequest, TypedByWork, TypedBySave DEF Next, Handler
<1>2. CASE UNCHANGED vars
  BY <1>2, TypedNext, TypedParts
     DEF vars, HandlersTyped, AgentTyped, ConfigTyped, FilesTyped
<1>3. QED
  BY <1>1, <1>2

\* Every reachable state is well typed: in particular no handler cancels what
\* is not a run, and no rename brings the absence of a file into place.
THEOREM TypeCorrect == Spec => []TypeOK
<1>1. Typed => TypeOK
  BY DEF Typed
<1>2. QED
  BY <1>1, TypedAtFirst, TypedByStep, PTL DEF Spec
----------------------------------------------------------------------------
(* What a step does to the runs.                                            *)

\* Nothing runs when the process does not.
Quiet == ~up => /\ \A r \in Runs : run[r] = "none"
                /\ \A w \in Handlers : job[w].at = "idle"
                /\ current = 0

\* A handler is about to cancel the run.
Doomed(r) == \E w \in Handlers : job[w].at \in {"cancel", "cancelOnly"} /\ job[w].hand = r

\* What a handler is about to cancel it cancels in the end.
Condemned(r) == Doomed(r) \/ r \in cancelled
Kept == \A r \in Runs : Condemned(r) => Condemned(r)'

\* The handlers keep their points, but w.
MovesAt(w, at, hand) ==
    /\ job'[w].at = at /\ job'[w].hand = hand
    /\ \A v \in Handlers \ {w} : job'[v].at = job[v].at /\ job'[v].hand = job[v].hand

NoRunChanges == UNCHANGED <<up, agent, current, run, using, cleared, refused>> /\ Kept

Started(r) ==
    /\ current = 0 /\ current' = r
    /\ run' = [run EXCEPT ![r] = "live"] /\ using' = [using EXCEPT ![r] = agent]
    /\ UNCHANGED <<up, agent, cleared, refused>> /\ Kept

\* The old run is handed over to be cancelled, and no run is current. The agent
\* is a new one, or the configuration was refused.
Replaced ==
    /\ current' = 0
    /\ \A r \in Runs : r = current => Doomed(r)'
    /\ \/ agent' = agent + 1 /\ refused' = refused
       \/ agent' = agent /\ refused' = refused \cup ({current} \ {0})
    /\ UNCHANGED <<up, run, using, cleared>> /\ Kept

LEMMA RunSteps ==
    ASSUME Typed, Quiet, [Next]_vars
    PROVE  \/ NoRunChanges
           \/ \E r \in Runs : Started(r)
           \/ \E r \in Runs : RunReturns(r) \/ Epilogue(r)
           \/ Replaced
           \/ Boot \/ Exit
<1>1. HandlersTyped
  BY TypedParts
<1>2. ASSUME NEW w \in Handlers, NEW at, NEW hand, MovesAt(w, at, hand),
             cancelled \subseteq cancelled',
             job[w].at \in {"cancel", "cancelOnly"} => job[w].hand \in cancelled'
      PROVE  Kept
  <2> SUFFICES ASSUME NEW r \in Runs, Condemned(r) PROVE Condemned(r)'
    BY DEF Kept
  <2>1. CASE r \in cancelled
    BY <1>2, <2>1 DEF Condemned
  <2>2. CASE Doomed(r)
    <3>1. PICK v \in Handlers : job[v].at \in {"cancel", "cancelOnly"} /\ job[v].hand = r
      BY <2>2 DEF Doomed
    <3>2. CASE v = w
      BY <1>2, <3>1, <3>2 DEF Condemned
    <3>3. CASE v # w
      BY <1>2, <3>1, <3>3 DEF Condemned, Doomed, MovesAt
    <3>4. QED
      BY <3>2, <3>3
  <2>3. QED
    BY <2>1, <2>2 DEF Condemned
<1>3. ASSUME NEW w \in Handlers, NEW j \in Jobs, Moves(w, j)
      PROVE  MovesAt(w, j.at, j.hand)
  BY <1>1, <1>3 DEF Moves, MovesAt, HandlersTyped
<1>4. ASSUME NEW w \in Handlers, NEW j \in Jobs, Moves(w, j), cancelled' = cancelled,
             job[w].at \notin {"cancel", "cancelOnly"}
      PROVE  Kept
  <2>1. MovesAt(w, j.at, j.hand)
    BY <1>3, <1>4
  <2>2. QED
    BY <1>2, <1>4, <2>1
<1>5. ASSUME NEW w \in Handlers, Request(w)
      PROVE  NoRunChanges
  <2>1. /\ UNCHANGED <<up, agent, current, run, using, cleared, refused, cancelled>>
        /\ job[w].at = "idle"
    BY <1>5 DEF Request, Pause, Stop, Resume, SetPrice, Offer, PutConfig, Accepts
  <2>2. \A v \in Handlers \ {w} : job'[v].at = job[v].at /\ job'[v].hand = job[v].hand
    BY <1>1, <1>5 DEF Request, Pause, Stop, Resume, SetPrice, Offer, PutConfig, Begin, HandlersTyped
  <2>3. MovesAt(w, job'[w].at, job'[w].hand)
    BY <2>2 DEF MovesAt
  <2>4. QED
    BY <1>2, <2>1, <2>3 DEF NoRunChanges
<1>6. ASSUME NEW w \in Handlers, Copy(w)
      PROVE  NoRunChanges
  <2>1. /\ UNCHANGED <<up, agentVars>> /\ job[w].at = "copy"
        /\ job' = [job EXCEPT ![w].at = "install", ![w].held = config]
    BY <1>6 DEF Copy
  <2>2. MovesAt(w, job'[w].at, job'[w].hand)
    BY <1>1, <2>1 DEF MovesAt, HandlersTyped
  <2>3. QED
    BY <1>2, <2>1, <2>2 DEF NoRunChanges
<1>7. ASSUME NEW w \in Handlers, Cancel(w)
      PROVE  NoRunChanges
  <2>1. /\ UNCHANGED <<up, agent, current, run, using, cleared, refused>>
        /\ cancelled' = cancelled \cup {job[w].hand}
        /\ \A v \in Handlers \ {w} : job'[v] = job[v]
    BY <1>1, <1>7 DEF Cancel, HandlersTyped
  <2>2. MovesAt(w, job'[w].at, job'[w].hand)
    BY <2>1 DEF MovesAt
  <2>3. QED
    BY <1>2, <2>1, <2>2 DEF NoRunChanges
<1>8. ASSUME NEW w \in Handlers, Start(w)
      PROVE  NoRunChanges \/ \E r \in Runs : Started(r)
  <2>1. /\ UNCHANGED <<up, agent, cancelled, cleared, refused>> /\ job[w].at = "start"
        /\ job' = [job EXCEPT ![w] = Idle]
    BY <1>8 DEF Start
  <2>2. Kept
    BY <1>4, <2>1, Constants DEF Moves
  <2>3. CASE MayStart
    <3>1. PICK r \in Runs : /\ current' = r
                            /\ run' = [run EXCEPT ![r] = "live"]
                            /\ using' = [using EXCEPT ![r] = agent]
      BY <1>8, <2>3 DEF Start
    <3>2. Started(r)
      BY <2>1, <2>2, <2>3, <3>1 DEF Started, MayStart
    <3>3. QED
      BY <3>2
  <2>4. CASE ~MayStart
    BY <1>8, <2>1, <2>2, <2>4 DEF Start, NoRunChanges
  <2>5. QED
    BY <2>3, <2>4
<1>9. ASSUME NEW w \in Handlers, Install(w)
      PROVE  Replaced
  <2> DEFINE valid == lists[job[w].held.list].valid
             at == IF current = 0 THEN "snapshot" ELSE IF valid THEN "cancel" ELSE "cancelOnly"
             j == [job[w] EXCEPT !.at = at, !.hand = current, !.restart = current # 0]
  <2>1. /\ UNCHANGED <<up, run, using, cancelled, cleared>> /\ job[w].at = "install"
        /\ current' = 0
        /\ IF valid THEN agent' = agent + 1 ELSE agent' = agent
        /\ refused' = IF valid THEN refused ELSE refused \cup ({current} \ {0})
    BY <1>9 DEF Install
  <2>2. job' = [job EXCEPT ![w] = IF current = 0 /\ ~valid THEN Idle ELSE j]
    BY <1>9 DEF Install, OldCancel
  <2>3. j.at = at /\ j.hand = current
    BY <1>1 DEF HandlersTyped, Jobs
  <2> HIDE DEF j
  <2>4. \A v \in Handlers \ {w} : job'[v] = job[v]
    BY <1>1, <2>2 DEF HandlersTyped
  <2>5. MovesAt(w, job'[w].at, job'[w].hand)
    BY <2>4 DEF MovesAt
  <2>6. Kept
    BY <1>2, <2>1, <2>5
  <2>7. current # 0 => job'[w].at \in {"cancel", "cancelOnly"} /\ job'[w].hand = current
    BY <1>1, <2>2, <2>3 DEF HandlersTyped
  <2>8. \A r \in Runs : r = current => Doomed(r)'
    BY <2>7 DEF Doomed, Runs
  <2>9. \/ agent' = agent + 1 /\ refused' = refused
        \/ agent' = agent /\ refused' = refused \cup ({current} \ {0})
    <3> HIDE DEF valid
    <3>1. QED
      BY <2>1
  <2>10. QED
    BY <2>1, <2>6, <2>8, <2>9 DEF Replaced
<1>10. ASSUME NEW w \in Handlers,
              \/ Snapshot(w) \/ Open(w) \/ OpenFails(w) \/ Write(w) \/ WriteFails(w)
              \/ Rename(w) \/ RenameFails(w)
       PROVE  NoRunChanges
  <2>1. UNCHANGED <<up, agentVars>> /\ job[w].at \in {"snapshot", "open", "write", "rename"}
    BY <1>10 DEF Snapshot, Open, OpenFails, Write, WriteFails, Rename, RenameFails
  <2>2. \A v \in Handlers \ {w} : job'[v].at = job[v].at /\ job'[v].hand = job[v].hand
    <3>1. CASE Rename(w)
      <4>1. job' = [Elsewhere(w) EXCEPT ![w] = AfterSave(w, TRUE)]
        BY <3>1 DEF Rename
      <4>2. QED
        BY <1>1, <4>1, ElsewhereIs
    <3>2. CASE Snapshot(w) \/ Open(w) \/ Write(w)
      BY <1>1, <3>2 DEF Snapshot, Open, Write, HandlersTyped
    <3>3. CASE OpenFails(w) \/ WriteFails(w) \/ RenameFails(w)
      BY <1>1, <3>3 DEF OpenFails, WriteFails, RenameFails, Fails, HandlersTyped
    <3>4. QED
      BY <1>10, <3>1, <3>2, <3>3
  <2>3. MovesAt(w, job'[w].at, job'[w].hand)
    BY <2>2 DEF MovesAt
  <2>4. QED
    BY <1>2, <2>1, <2>3 DEF NoRunChanges
<1>11. CASE UNCHANGED vars
  BY <1>11 DEF vars, NoRunChanges, Kept, Condemned, Doomed
<1>12. CASE Next
  BY <1>5, <1>6, <1>7, <1>8, <1>9, <1>10, <1>12 DEF Next, Handler
<1>13. QED
  BY <1>11, <1>12

LEMMA QuietByStep ==
    ASSUME Typed, Quiet, [Next]_vars
    PROVE  Quiet'
<1>1. CASE up
  <2>1. CASE Exit
    BY <2>1, Constants DEF Exit, Quiet, Idle
  <2>2. CASE ~Exit
    <3>1. up'
      BY <1>1, <2>2, RunSteps DEF NoRunChanges, Started, RunReturns, Epilogue, Replaced, Boot
    <3>2. QED
      BY <3>1 DEF Quiet
  <2>3. QED
    BY <2>1, <2>2
<1>2. CASE ~up
  <2>1. Boot \/ UNCHANGED vars
    BY <1>2 DEF Quiet, Next, Exit, RunReturns, Epilogue, Request, Pause, Stop, Resume,
       SetPrice, Offer, PutConfig, Accepts, Handler, Copy, Install, Cancel, Start,
       Snapshot, Open, OpenFails, Write, WriteFails, Rename, RenameFails
  <2>2. QED
    BY <2>1 DEF Boot, vars, Quiet
<1>3. QED
  BY <1>1, <1>2
----------------------------------------------------------------------------
(* The runs.                                                                *)

\* The runs that the code may lose sight of.
Lost == cleared \cup refused

\* Of the other runs, at most the current one has the current agent, and no
\* agent has two; later agents are new ones.
AgentsDiffer ==
    /\ \A r \in Runs : run[r] = "live" => using[r] <= agent
    /\ \A r \in Runs \ Lost : run[r] = "live" /\ using[r] = agent => r = current
    /\ \A r, q \in Runs \ Lost :
           run[r] = "live" /\ run[q] = "live" /\ using[r] = using[q] => r = q

LEMMA ControlledIs ==
    Controlled <=> \A r \in Runs : run[r] = "live" =>
                       r = current \/ r \in cleared \/ Condemned(r)
BY DEF Controlled, Working, Condemned, Doomed

LEMMA ControlledByStep ==
    ASSUME Typed, Quiet, Controlled, [Next]_vars
    PROVE  Controlled'
<1>1. /\ run \in [Runs -> {"none", "live", "over", "done"}]
      /\ cleared \subseteq Runs
  BY DEF Typed, TypeOK
<1>2. SUFFICES ASSUME NEW r \in Runs, run'[r] = "live", r \notin cleared',
                      ~Condemned(r)'
               PROVE  r = current'
  BY DEF Controlled, Working, Condemned, Doomed
<1>3. CASE NoRunChanges
  BY <1>2, <1>3, ControlledIs DEF NoRunChanges, Kept
<1>4. ASSUME NEW q \in Runs, Started(q)
      PROVE  r = current'
  BY <1>1, <1>2, <1>4, ControlledIs DEF Started, Kept, Runs
<1>5. ASSUME NEW q \in Runs, RunReturns(q)
      PROVE  r = current'
  BY <1>1, <1>2, <1>5 DEF RunReturns, Controlled, Working, Condemned, Doomed
<1>6. ASSUME NEW q \in Runs, Epilogue(q)
      PROVE  r = current'
  BY <1>1, <1>2, <1>6 DEF Epilogue, Controlled, Working, Condemned, Doomed, Runs
<1>7. CASE Replaced
  BY <1>2, <1>7, ControlledIs DEF Replaced, Kept, Condemned
<1>8. CASE Boot
  <2>1. \A q \in Runs : run[q] # "live"
    BY <1>8 DEF Boot, Quiet
  <2>2. QED
    BY <1>1, <1>2, <1>8, <2>1, Constants DEF Boot
<1>9. CASE Exit
  BY <1>2, <1>9 DEF Exit
<1>10. QED
  BY <1>3, <1>4, <1>5, <1>6, <1>7, <1>8, <1>9, RunSteps

LEMMA AgentsDifferByStep ==
    ASSUME Typed, Quiet, AgentsDiffer, [Next]_vars
    PROVE  AgentsDiffer'
<1>1. /\ run \in [Runs -> {"none", "live", "over", "done"}]
      /\ using \in [Runs -> Nat] /\ agent \in Nat
      /\ cleared \subseteq Runs /\ refused \subseteq Runs
      /\ current \in {0} \cup Runs
  BY DEF Typed, TypeOK
<1>2. CASE NoRunChanges
  BY <1>2 DEF NoRunChanges, AgentsDiffer, Lost
<1>3. ASSUME NEW q \in Runs, Started(q)
      PROVE  AgentsDiffer'
  BY <1>1, <1>3 DEF Started, AgentsDiffer, Lost, Runs
<1>4. ASSUME NEW q \in Runs, RunReturns(q)
      PROVE  AgentsDiffer'
  BY <1>1, <1>4 DEF RunReturns, AgentsDiffer, Lost
<1>5. ASSUME NEW q \in Runs, Epilogue(q)
      PROVE  AgentsDiffer'
  BY <1>1, <1>5 DEF Epilogue, AgentsDiffer, Lost, Runs
<1>6. CASE Replaced
  BY <1>1, <1>6 DEF Replaced, AgentsDiffer, Lost
<1>7. CASE Boot
  <2>1. \A q \in Runs : run[q] # "live"
    BY <1>7 DEF Boot, Quiet
  <2>2. /\ \A q \in Runs : run'[q] = "live" => q = 1 /\ q = current' /\ using'[q] = agent'
        /\ agent' = 1
    BY <1>1, <1>7, <2>1, Constants DEF Boot
  <2>3. QED
    BY <2>2 DEF AgentsDiffer, Lost
<1>8. CASE Exit
  BY <1>8 DEF Exit, AgentsDiffer, Lost
<1>9. QED
  BY <1>2, <1>3, <1>4, <1>5, <1>6, <1>7, <1>8, RunSteps

LEMMA RunsAtFirst == Init => Quiet /\ Controlled /\ AgentsDiffer
<1> SUFFICES ASSUME Init PROVE Quiet /\ Controlled /\ AgentsDiffer
  OBVIOUS
<1>1. \A r \in Runs : run[r] = "none"
  BY DEF Init
<1>2. Quiet
  BY <1>1 DEF Init, Quiet, Idle
<1>3. QED
  BY <1>1, <1>2 DEF Controlled, Working, AgentsDiffer

\* The dashboard can always stop what runs, but for a run that the epilogue of
\* another cleared.
THEOREM ControlledHolds == Spec => []Controlled
<1>1. Init => Typed /\ Quiet /\ Controlled
  BY TypedAtFirst, RunsAtFirst
<1>2. Typed /\ Quiet /\ Controlled /\ [Next]_vars => (Typed /\ Quiet /\ Controlled)'
  BY TypedByStep, QuietByStep, ControlledByStep
<1>3. QED
  BY <1>1, <1>2, PTL DEF Spec

\* An agent is run once at a time, but for runs that the epilogue of another
\* cleared or a refused configuration stopped.
THEOREM OneRunPerAgentHolds == Spec => []OneRunPerAgent
<1>1. Init => Typed /\ Quiet /\ AgentsDiffer
  BY TypedAtFirst, RunsAtFirst
<1>2. Typed /\ Quiet /\ AgentsDiffer /\ [Next]_vars => (Typed /\ Quiet /\ AgentsDiffer)'
  BY TypedByStep, QuietByStep, AgentsDifferByStep
<1>3. AgentsDiffer => OneRunPerAgent
  BY DEF AgentsDiffer, Lost, OneRunPerAgent
<1>4. QED
  BY <1>1, <1>2, <1>3, PTL DEF Spec
----------------------------------------------------------------------------
(* The offers.                                                              *)

\* The current run is one of the agent in place.
AgentRuns == current # 0 => using[current] = agent

LEMMA AgentRunsByStep ==
    ASSUME Typed, Quiet, AgentRuns, [Next]_vars
    PROVE  AgentRuns'
<1>1. using \in [Runs -> Nat] /\ current \in {0} \cup Runs
  BY DEF Typed, TypeOK
<1>2. CASE NoRunChanges \/ Replaced \/ Exit
  BY <1>2 DEF NoRunChanges, Replaced, Exit, AgentRuns
<1>3. ASSUME NEW r \in Runs, Started(r) \/ RunReturns(r) \/ Epilogue(r)
      PROVE  AgentRuns'
  BY <1>1, <1>3 DEF Started, RunReturns, Epilogue, AgentRuns
<1>4. CASE Boot
  BY <1>1, <1>4, Constants DEF Boot, AgentRuns, Quiet
<1>5. QED
  BY <1>2, <1>3, <1>4, RunSteps

\* The agent in place was made from the lists the configuration shows, or a
\* handler has yet to install what it edited, or the lists are refused.
OffersFit ==
    up => \/ built = lists[config.list].offers
          \/ ~lists[config.list].valid
          \/ \E w \in Handlers : job[w].at \in {"copy", "install"}

LEMMA OffersFitByStep ==
    ASSUME Typed, OffersFit, [Next]_vars
    PROVE  OffersFit'
<1>1. HandlersTyped /\ ConfigTyped
  BY TypedParts
<1>2. ASSUME UNCHANGED <<up, built, lists>>, config'.list = config.list,
             \A w \in Handlers : job[w].at \in {"copy", "install"} =>
                                     job'[w].at \in {"copy", "install"}
      PROVE  OffersFit'
  BY <1>2 DEF OffersFit
<1>3. ASSUME NEW w \in Handlers, Pause(w) \/ Stop(w) \/ Resume(w) \/ SetPrice(w)
      PROVE  OffersFit'
  <2>1. UNCHANGED <<up, built, lists>> /\ job[w].at = "idle"
    BY <1>3 DEF Pause, Stop, Resume, SetPrice, Accepts
  <2>2. config'.list = config.list
    BY <1>1, <1>3 DEF Pause, Stop, Resume, SetPrice, ConfigTyped, Configs
  <2>3. \A v \in Handlers \ {w} : job'[v] = job[v]
    BY <1>1, <1>3 DEF Pause, Stop, Resume, SetPrice, Begin, HandlersTyped
  <2>4. QED
    BY <1>2, <2>1, <2>2, <2>3
<1>4. ASSUME NEW w \in Handlers, Offer(w) \/ PutConfig(w) \/ Copy(w)
      PROVE  OffersFit'
  <2>1. job'[w].at \in {"copy", "install"}
    <3>1. CASE Offer(w)
      BY <1>1, <3>1 DEF Offer, Begin, HandlersTyped, Idle
    <3>2. CASE PutConfig(w)
      BY <1>1, <3>2 DEF PutConfig, HandlersTyped, Idle
    <3>3. CASE Copy(w)
      <4>1. job' = [job EXCEPT ![w].at = "install", ![w].held = config]
        BY <3>3 DEF Copy
      <4>2. job[w] \in Jobs
        BY <1>1 DEF HandlersTyped
      <4>3. QED
        BY <1>1, <4>1, <4>2 DEF HandlersTyped, Jobs
    <3>4. QED
      BY <1>4, <3>1, <3>2, <3>3
  <2>2. QED
    BY <2>1 DEF OffersFit
<1>5. ASSUME NEW w \in Handlers, Install(w)
      PROVE  OffersFit'
  BY <1>5 DEF Install, OffersFit
<1>6. ASSUME NEW w \in Handlers, Cancel(w) \/ Start(w)
      PROVE  OffersFit'
  <2>1. /\ UNCHANGED <<up, built, configVars>>
        /\ job[w].at \notin {"copy", "install"}
        /\ \A v \in Handlers \ {w} : job'[v] = job[v]
    BY <1>1, <1>6 DEF Cancel, Start, HandlersTyped
  <2>2. QED
    BY <1>2, <2>1
<1>7. ASSUME NEW w \in Handlers,
             \/ Snapshot(w) \/ Open(w) \/ OpenFails(w) \/ Write(w) \/ WriteFails(w)
             \/ Rename(w) \/ RenameFails(w)
      PROVE  OffersFit'
  <2>1. UNCHANGED <<up, built, configVars>> /\ job[w].at \notin {"copy", "install"}
    BY <1>7 DEF Snapshot, Open, OpenFails, Write, WriteFails, Rename, RenameFails
  <2>2. \A v \in Handlers \ {w} : job'[v].at = job[v].at
    <3>1. CASE Rename(w)
      BY <1>1, <3>1, ElsewhereIs DEF Rename
    <3>2. CASE Snapshot(w) \/ Open(w) \/ Write(w)
      BY <1>1, <3>2 DEF Snapshot, Open, Write, HandlersTyped
    <3>3. CASE OpenFails(w) \/ WriteFails(w) \/ RenameFails(w)
      BY <1>1, <3>3 DEF OpenFails, WriteFails, RenameFails, Fails, HandlersTyped
    <3>4. QED
      BY <1>7, <3>1, <3>2, <3>3
  <2>3. QED
    BY <1>2, <2>1, <2>2
<1>8. CASE UNCHANGED vars \/ \E r \in Runs : RunReturns(r) \/ Epilogue(r)
  <2>1. UNCHANGED <<up, built, configVars, job>>
    BY <1>8 DEF vars, RunReturns, Epilogue
  <2>2. QED
    BY <1>2, <2>1
<1>9. CASE Boot
  BY <1>1, <1>9, Constants DEF Boot, OffersFit, ConfigTyped
<1>10. CASE Exit
  BY <1>10 DEF Exit, OffersFit
<1>11. QED
  BY <1>3, <1>4, <1>5, <1>6, <1>7, <1>8, <1>9, <1>10 DEF Next, Request, Handler

\* With no request in progress the agent was made from the lists the
\* configuration shows, and what works is of that agent: the current run has
\* it (AgentRuns), and any other is one that was cleared (Controlled).
THEOREM OffersInForceHolds == Spec => []OffersInForce
<1> DEFINE Parts == Typed /\ Quiet /\ Controlled /\ AgentRuns /\ OffersFit
<1>1. Init => Parts
  BY TypedAtFirst, RunsAtFirst DEF Init, AgentRuns, OffersFit
<1>2. Parts /\ [Next]_vars => Parts'
  BY TypedByStep, QuietByStep, ControlledByStep, AgentRunsByStep, OffersFitByStep
<1>3. Parts => OffersInForce
  <2> SUFFICES ASSUME Parts, Resting, lists[config.list].valid PROVE
                  /\ built = lists[config.list].offers
                  /\ \A r \in Working \ cleared : using[r] = agent
    BY DEF OffersInForce
  <2>1. built = lists[config.list].offers
    BY DEF OffersFit, Resting
  <2>2. ASSUME NEW r \in Working \ cleared PROVE using[r] = agent
    <3>1. r = current /\ current # 0
      BY <2>2 DEF Controlled, Resting, Working, Runs
    <3>2. QED
      BY <3>1 DEF AgentRuns
  <2>3. QED
    BY <2>1, <2>2
<1>4. QED
  BY <1>1, <1>2, <1>3, PTL DEF Spec
----------------------------------------------------------------------------
(* The configuration file.                                                  *)

Steps == {"open", "write", "rename"}

\* The step is none of a save: handlers that save stay where they are.
Aside ==
    /\ UNCHANGED fileVars
    /\ \A v \in Handlers : job[v].at \in Steps \/ job'[v].at \in Steps => job'[v] = job[v]

\* A handler has still to begin its save, or the configuration was refused.
Pending == \E w \in Handlers : job[w].at \in {"copy", "install", "cancel", "snapshot"}
Dirty == Pending \/ ~lists[config.list].valid

\* The step edits nothing, and does not take up a save.
Unedited == UNCHANGED <<up, config, lists, maps>> /\ (Pending => Pending')

LEMMA SaveSteps ==
    ASSUME Typed, [Next]_vars
    PROVE  \/ Aside /\ (up' => up) /\ (Dirty' \/ Unedited)
           \/ \E w \in Handlers :
                 \/ Snapshot(w) \/ Open(w) \/ OpenFails(w) \/ Write(w) \/ WriteFails(w)
                 \/ Rename(w) \/ RenameFails(w)
           \/ Boot \/ Exit
<1>1. HandlersTyped /\ ConfigTyped /\ up \in BOOLEAN
  BY TypedParts
<1>2. ASSUME NEW w \in Handlers, job[w].at \notin Steps, job'[w].at \notin Steps,
             \A v \in Handlers \ {w} : job'[v] = job[v], UNCHANGED fileVars
      PROVE  Aside
  BY <1>2 DEF Aside
<1>3. ASSUME NEW w \in Handlers, Request(w)
      PROVE  Aside /\ (up' => up) /\ Dirty'
  <2>1. /\ UNCHANGED <<up, fileVars>> /\ job[w].at = "idle"
    BY <1>3 DEF Request, Pause, Stop, Resume, SetPrice, Offer, PutConfig, Accepts
  <2>2. /\ job'[w].at \in {"copy", "install", "cancel", "snapshot"}
        /\ \A v \in Handlers \ {w} : job'[v] = job[v]
    <3>1. CASE Pause(w) \/ Stop(w) \/ Resume(w) \/ SetPrice(w) \/ Offer(w)
      <4>1. \E op, at, hand : Begin(w, op, at, hand) /\ at \in {"copy", "cancel", "snapshot"}
        BY <3>1 DEF Pause, Stop, Resume, SetPrice, Offer
      <4>2. QED
        BY <1>1, <4>1 DEF Begin, HandlersTyped, Idle
    <3>2. CASE PutConfig(w)
      BY <1>1, <3>2 DEF PutConfig, HandlersTyped, Idle
    <3>3. QED
      BY <1>3, <3>1, <3>2 DEF Request
  <2>3. QED
    BY <1>2, <2>1, <2>2 DEF Dirty, Pending, Steps
<1>4. ASSUME NEW w \in Handlers, Copy(w)
      PROVE  Aside /\ (up' => up) /\ Dirty'
  <2>1. /\ UNCHANGED <<up, fileVars>> /\ job[w].at = "copy"
        /\ job' = [job EXCEPT ![w].at = "install", ![w].held = config]
    BY <1>4 DEF Copy
  <2>2. job[w] \in Jobs
    BY <1>1 DEF HandlersTyped
  <2>3. /\ job'[w].at = "install"
        /\ \A v \in Handlers \ {w} : job'[v] = job[v]
    BY <1>1, <2>1, <2>2 DEF HandlersTyped, Jobs
  <2>4. QED
    BY <1>2, <2>1, <2>3 DEF Dirty, Pending, Steps
<1>5. ASSUME NEW w \in Handlers, Install(w)
      PROVE  Aside /\ (up' => up) /\ Dirty'
  <2> DEFINE valid == lists[job[w].held.list].valid
             at == IF current = 0 THEN "snapshot" ELSE IF valid THEN "cancel" ELSE "cancelOnly"
             j == [job[w] EXCEPT !.at = at, !.hand = current, !.restart = current # 0]
  <2>1. /\ UNCHANGED <<up, lists, fileVars>> /\ job[w].at = "install"
        /\ config' = job[w].held
    BY <1>5 DEF Install
  <2>2. job' = [job EXCEPT ![w] = IF current = 0 /\ ~valid THEN Idle ELSE j]
    BY <1>5 DEF Install, OldCancel
  <2>3. j.at = at /\ Idle.at = "idle"
    BY <1>1 DEF HandlersTyped, Jobs, Idle
  <2> HIDE DEF j
  <2>4. /\ \A v \in Handlers \ {w} : job'[v] = job[v]
        /\ job'[w].at \notin Steps
        /\ valid => job'[w].at \in {"snapshot", "cancel"}
    BY <1>1, <2>2, <2>3 DEF HandlersTyped, Steps
  <2>5. Aside
    BY <1>2, <2>1, <2>4 DEF Steps
  <2>6. Dirty'
    BY <2>1, <2>4 DEF Dirty, Pending
  <2>7. QED
    BY <2>1, <2>5, <2>6
<1>6. ASSUME NEW w \in Handlers, Cancel(w) \/ Start(w)
      PROVE  Aside /\ (up' => up) /\ Unedited
  <2>1. /\ UNCHANGED <<up, configVars, fileVars>>
        /\ job[w].at \in {"cancel", "cancelOnly", "start"}
        /\ \A v \in Handlers \ {w} : job'[v] = job[v]
    BY <1>1, <1>6 DEF Cancel, Start, HandlersTyped
  <2>2. job[w] \in Jobs /\ Idle.at = "idle"
    BY <1>1 DEF HandlersTyped, Idle
  <2>3. /\ job'[w].at \in {"idle", "snapshot"}
        /\ job[w].at = "cancel" => job'[w].at = "snapshot"
    BY <1>1, <1>6, <2>2 DEF Cancel, Start, HandlersTyped, Jobs
  <2>4. Pending => Pending'
    BY <2>1, <2>3 DEF Pending
  <2>5. QED
    BY <1>2, <2>1, <2>3, <2>4 DEF Unedited, Steps
<1>7. CASE UNCHANGED vars \/ \E r \in Runs : RunReturns(r) \/ Epilogue(r)
  <2>1. UNCHANGED <<up, configVars, fileVars, job>>
    BY <1>7 DEF vars, RunReturns, Epilogue
  <2>2. QED
    BY <2>1 DEF Aside, Unedited, Pending
<1>8. QED
  BY <1>3, <1>4, <1>5, <1>6, <1>7 DEF Next, Handler

\* The handler that saves has the temporary file for itself, and what it puts in
\* place is whole.
Unbroken ==
    ~overlapped =>
        /\ file.is = "whole"
        /\ \A v, w \in Handlers : job[v].at \in Steps /\ job[w].at \in Steps => v = w
        /\ \A w \in Handlers :
              /\ job[w].at = "write" => job[w].fd = "tmp" /\ tmp = Empty
              /\ job[w].at = "rename" => tmp.is = "whole"

LEMMA UnbrokenByStep ==
    ASSUME Typed, Quiet, Unbroken, [Next]_vars
    PROVE  Unbroken'
<1>1. HandlersTyped /\ FilesTyped /\ overlapped \in BOOLEAN
  BY TypedParts DEF FilesTyped
<1>2. CASE Aside
  BY <1>2 DEF Aside, Unbroken, Steps
<1>3. ASSUME NEW w \in Handlers, Snapshot(w)
      PROVE  Unbroken'
  <2> SUFFICES ASSUME ~overlapped' PROVE Unbroken'
    BY DEF Unbroken
  <2>1. ~overlapped /\ \A v \in Handlers : job[v].at \notin Steps
    BY <1>1, <1>3 DEF Snapshot, Saving, Steps
  <2>2. /\ job' = [job EXCEPT ![w].at = "open", ![w].held = config]
        /\ file' = file /\ job[w] \in Jobs
    BY <1>1, <1>3 DEF Snapshot, HandlersTyped
  <2>3. job'[w].at = "open" /\ \A v \in Handlers \ {w} : job'[v] = job[v]
    BY <1>1, <2>2 DEF HandlersTyped, Jobs
  <2>4. QED
    BY <2>1, <2>2, <2>3 DEF Unbroken, Steps
<1>4. ASSUME NEW w \in Handlers, Open(w)
      PROVE  Unbroken'
  <2> SUFFICES ASSUME ~overlapped' PROVE Unbroken'
    BY DEF Unbroken
  <2>1. /\ job' = [job EXCEPT ![w].at = "write", ![w].fd = "tmp"]
        /\ job[w].at = "open" /\ job[w] \in Jobs
        /\ file' = file /\ tmp' = Empty /\ overlapped' = overlapped
    BY <1>1, <1>4 DEF Open, HandlersTyped
  <2>2. /\ job'[w].at = "write" /\ job'[w].fd = "tmp"
        /\ \A v \in Handlers \ {w} : job'[v] = job[v]
    BY <1>1, <2>1 DEF HandlersTyped, Jobs
  <2>3. file.is = "whole" /\ \A v \in Handlers \ {w} : job[v].at \notin Steps
    BY <2>1 DEF Unbroken, Steps
  <2>4. QED
    BY <2>1, <2>2, <2>3 DEF Unbroken, Steps
<1>5. ASSUME NEW w \in Handlers, Write(w)
      PROVE  Unbroken'
  <2> SUFFICES ASSUME ~overlapped' PROVE Unbroken'
    BY DEF Unbroken
  <2>1. /\ job' = [job EXCEPT ![w].at = "rename", ![w].fd = "none"]
        /\ job[w].at = "write" /\ job[w] \in Jobs /\ overlapped' = overlapped
    BY <1>1, <1>5 DEF Write, HandlersTyped
  <2>2. job[w].fd = "tmp" /\ tmp = Empty
    BY <2>1 DEF Unbroken
  <2>3. file' = file /\ tmp' = Whole(Encoded(job[w].held))
    BY <1>5, <2>2 DEF Write, Overwrite
  <2>4. job'[w].at = "rename" /\ \A v \in Handlers \ {w} : job'[v] = job[v]
    BY <1>1, <2>1 DEF HandlersTyped, Jobs
  <2>5. tmp'.is = "whole"
    BY <2>3 DEF Whole
  <2>6. QED
    BY <2>1, <2>3, <2>4, <2>5 DEF Unbroken, Steps
<1>6. ASSUME NEW w \in Handlers, OpenFails(w) \/ WriteFails(w) \/ RenameFails(w)
      PROVE  Unbroken'
  <2> SUFFICES ASSUME ~overlapped' PROVE Unbroken'
    BY DEF Unbroken
  <2>1. /\ job' = [job EXCEPT ![w] = AfterSave(w, FALSE)]
        /\ job[w].at \in Steps /\ overlapped' = overlapped
    BY <1>6 DEF OpenFails, WriteFails, RenameFails, Fails, Steps
  <2>2. file' = file
    BY <1>6, <2>1 DEF OpenFails, WriteFails, RenameFails, Unbroken
  <2>3. /\ job'[w].at \notin Steps
        /\ \A v \in Handlers \ {w} : job'[v] = job[v] /\ job[v].at \notin Steps
    BY <1>1, <2>1, AfterSaveIs DEF HandlersTyped, Unbroken, Steps
  <2>4. QED
    BY <2>1, <2>2, <2>3 DEF Unbroken, Steps
<1>7. ASSUME NEW w \in Handlers, Rename(w)
      PROVE  Unbroken'
  <2> SUFFICES ASSUME ~overlapped' PROVE Unbroken'
    BY DEF Unbroken
  <2>1. /\ job' = [Elsewhere(w) EXCEPT ![w] = AfterSave(w, TRUE)]
        /\ job[w].at = "rename" /\ file' = tmp /\ overlapped' = overlapped
    BY <1>7 DEF Rename
  <2>2. \A v \in Handlers : job'[v].at \notin Steps
    BY <1>1, <2>1, ElsewhereIs, AfterSaveIs DEF Unbroken, Steps
  <2>3. QED
    BY <2>1, <2>2 DEF Unbroken, Steps
<1>8. CASE Boot
  BY <1>8 DEF Boot, Unbroken, Quiet, Steps
<1>9. CASE Exit
  <2>1. \A w \in Handlers : job'[w].at = "idle"
    BY <1>9 DEF Exit, Idle
  <2>2. file' = file /\ overlapped' = overlapped
    BY <1>9 DEF Exit
  <2>3. QED
    BY <2>1, <2>2 DEF Unbroken, Steps
<1>10. QED
  BY <1>2, <1>3, <1>4, <1>5, <1>6, <1>7, <1>8, <1>9, SaveSteps

\* As long as saves do not overlap the configuration file is whole.
THEOREM FileWholeHolds == Spec => []FileWhole
<1>1. Init => Typed /\ Quiet /\ Unbroken
  <2>1. Init => Unbroken
    BY DEF Init, Unbroken, Whole, Idle, Steps
  <2>2. QED
    BY <2>1, TypedAtFirst, RunsAtFirst
<1>2. Typed /\ Quiet /\ Unbroken /\ [Next]_vars => (Typed /\ Quiet /\ Unbroken)'
  BY TypedByStep, QuietByStep, UnbrokenByStep
<1>3. Unbroken => FileWhole
  BY DEF Unbroken, FileWhole
<1>4. QED
  BY <1>1, <1>2, <1>3, PTL DEF Spec

\* What a save is about to put in place is the configuration in memory, unless
\* another save is to follow; and what is in place is, unless one failed.
InStep ==
    ~overlapped =>
        /\ \A w \in Handlers :
              /\ job[w].at \in {"open", "write"} =>
                    Dirty \/ Encoded(job[w].held) = Encoded(config)
              /\ job[w].at = "rename" => Dirty \/ tmp = Whole(Encoded(config))
        /\ up /\ ~failed =>
              \/ Dirty \/ file = Whole(Encoded(config))
              \/ \E w \in Handlers : job[w].at \in Steps

LEMMA InStepByStep ==
    ASSUME Typed, Quiet, Unbroken, InStep, [Next]_vars
    PROVE  InStep'
<1>1. HandlersTyped /\ FilesTyped /\ ConfigTyped /\ overlapped \in BOOLEAN
  BY TypedParts DEF FilesTyped
<1>2. ASSUME Aside, up' => up, Dirty'
      PROVE  InStep'
  BY <1>2 DEF InStep
<1>3. ASSUME UNCHANGED <<config, lists, maps>>, NEW w \in Handlers, job'[w].held = job[w].held
      PROVE  Encoded(job[w].held)' = Encoded(job[w].held)
  BY <1>3 DEF Encoded
<1>4. ASSUME Unedited
      PROVE  (Dirty => Dirty') /\ Encoded(config)' = Encoded(config)
  BY <1>4 DEF Unedited, Dirty, Encoded
<1>5. ASSUME Aside, Unedited
      PROVE  InStep'
  <2> SUFFICES ASSUME ~overlapped' PROVE InStep'
    BY DEF InStep
  <2>1. /\ ~overlapped /\ UNCHANGED <<file, tmp, failed, up>>
        /\ UNCHANGED <<config, lists, maps>>
    BY <1>5 DEF Aside, Unedited
  <2>2. \A w \in Handlers : job'[w].at \in Steps => job[w] = job'[w]
    BY <1>5 DEF Aside
  <2>3. \A w \in Handlers : job[w].at \in Steps => job'[w] = job[w]
    BY <1>5 DEF Aside
  <2>4. ASSUME NEW w \in Handlers, job'[w].at \in {"open", "write"}
        PROVE  Dirty' \/ Encoded(job[w].held)' = Encoded(config)'
    <3>1. job[w] = job'[w]
      BY <2>2, <2>4 DEF Steps
    <3>2. Dirty \/ Encoded(job[w].held) = Encoded(config)
      BY <2>1, <2>4, <3>1 DEF InStep
    <3>3. QED
      BY <1>3, <1>4, <1>5, <2>1, <3>1, <3>2
  <2>5. ASSUME NEW w \in Handlers, job'[w].at = "rename"
        PROVE  Dirty' \/ tmp' = Whole(Encoded(config)')
    <3>1. job[w] = job'[w]
      BY <2>2, <2>5 DEF Steps
    <3>2. Dirty \/ tmp = Whole(Encoded(config))
      BY <2>1, <2>5, <3>1 DEF InStep
    <3>3. QED
      BY <1>4, <1>5, <2>1, <3>2
  <2>6. ASSUME up', ~failed'
        PROVE  \/ Dirty' \/ file' = Whole(Encoded(config)')
               \/ \E w \in Handlers : job'[w].at \in Steps
    BY <1>4, <1>5, <2>1, <2>3, <2>6 DEF InStep
  <2>7. QED
    BY <2>4, <2>5, <2>6 DEF InStep, Whole
\* The handler w is the only one that saves, and has nothing more to edit.
<1>6. ASSUME NEW w \in Handlers, job[w].at \in Steps, UNCHANGED <<up, configVars>>,
             \A v \in Handlers \ {w} : job'[v].at = job[v].at
      PROVE  /\ (Dirty => Dirty') /\ Encoded(config)' = Encoded(config)
             /\ ~overlapped => \A v \in Handlers \ {w} : job'[v].at \notin Steps
  <2>1. Pending => Pending'
    BY <1>6 DEF Pending, Steps
  <2>2. QED
    BY <1>6, <2>1 DEF Dirty, Encoded, Unbroken
<1>7. ASSUME NEW w \in Handlers, Snapshot(w)
      PROVE  InStep'
  <2> SUFFICES ASSUME ~overlapped' PROVE InStep'
    BY DEF InStep
  <2>1. \A v \in Handlers : job[v].at \notin Steps
    BY <1>1, <1>7 DEF Snapshot, Saving, Steps
  <2>2. /\ job' = [job EXCEPT ![w].at = "open", ![w].held = config]
        /\ UNCHANGED <<config, lists, maps>> /\ job[w] \in Jobs
    BY <1>1, <1>7 DEF Snapshot, HandlersTyped
  <2>3. /\ job'[w].at = "open" /\ job'[w].held = config
        /\ \A v \in Handlers \ {w} : job'[v] = job[v]
    BY <1>1, <2>2 DEF HandlersTyped, Jobs
  <2>4. Encoded(job[w].held)' = Encoded(config)'
    BY <2>2, <2>3 DEF Encoded
  <2>5. QED
    BY <2>1, <2>3, <2>4 DEF InStep, Steps
<1>8. ASSUME NEW w \in Handlers, Open(w)
      PROVE  InStep'
  <2> SUFFICES ASSUME ~overlapped' PROVE InStep'
    BY DEF InStep
  <2>1. /\ job' = [job EXCEPT ![w].at = "write", ![w].fd = "tmp"]
        /\ job[w].at = "open" /\ job[w] \in Jobs
        /\ UNCHANGED <<up, configVars>> /\ overlapped' = overlapped
    BY <1>1, <1>8 DEF Open, HandlersTyped
  <2>2. /\ job'[w].at = "write" /\ job'[w].held = job[w].held
        /\ \A v \in Handlers \ {w} : job'[v] = job[v]
    BY <1>1, <2>1 DEF HandlersTyped, Jobs
  <2>3. /\ (Dirty => Dirty') /\ Encoded(config)' = Encoded(config)
        /\ \A v \in Handlers \ {w} : job'[v].at \notin Steps
    BY <1>6, <2>1, <2>2 DEF Steps
  <2>4. Encoded(job[w].held)' = Encoded(job[w].held)
    BY <1>3, <2>1, <2>2
  <2>5. Dirty' \/ Encoded(job[w].held)' = Encoded(config)'
    BY <2>1, <2>3, <2>4 DEF InStep
  <2>6. QED
    BY <2>2, <2>3, <2>5 DEF InStep, Steps
<1>9. ASSUME NEW w \in Handlers, Write(w)
      PROVE  InStep'
  <2> SUFFICES ASSUME ~overlapped' PROVE InStep'
    BY DEF InStep
  <2>1. /\ job' = [job EXCEPT ![w].at = "rename", ![w].fd = "none"]
        /\ job[w].at = "write" /\ job[w] \in Jobs
        /\ UNCHANGED <<up, configVars>> /\ overlapped' = overlapped
    BY <1>1, <1>9 DEF Write, HandlersTyped
  <2>2. /\ job'[w].at = "rename"
        /\ \A v \in Handlers \ {w} : job'[v] = job[v]
    BY <1>1, <2>1 DEF HandlersTyped, Jobs
  <2>3. /\ (Dirty => Dirty') /\ Encoded(config)' = Encoded(config)
        /\ \A v \in Handlers \ {w} : job'[v].at \notin Steps
    BY <1>6, <2>1, <2>2 DEF Steps
  <2>4. job[w].fd = "tmp" /\ tmp = Empty
    BY <2>1 DEF Unbroken
  <2>5. tmp' = Whole(Encoded(job[w].held))
    BY <1>9, <2>4 DEF Write, Overwrite
  <2>6. Dirty' \/ tmp' = Whole(Encoded(config)')
    BY <2>1, <2>3, <2>5 DEF InStep
  <2>7. QED
    BY <2>2, <2>3, <2>6 DEF InStep, Steps, Whole
<1>10. ASSUME NEW w \in Handlers, OpenFails(w) \/ WriteFails(w) \/ RenameFails(w)
       PROVE  InStep'
  <2> SUFFICES ASSUME ~overlapped' PROVE InStep'
    BY DEF InStep
  <2>1. /\ job' = [job EXCEPT ![w] = AfterSave(w, FALSE)]
        /\ job[w].at \in Steps /\ overlapped' = overlapped /\ failed'
    BY <1>10 DEF OpenFails, WriteFails, RenameFails, Fails, Steps
  <2>2. \A v \in Handlers : job'[v].at \notin Steps
    BY <1>1, <2>1, AfterSaveIs DEF HandlersTyped, Unbroken, Steps
  <2>3. QED
    BY <2>1, <2>2 DEF InStep, Steps
<1>11. ASSUME NEW w \in Handlers, Rename(w)
       PROVE  InStep'
  <2> SUFFICES ASSUME ~overlapped' PROVE InStep'
    BY DEF InStep
  <2>1. /\ job' = [Elsewhere(w) EXCEPT ![w] = AfterSave(w, TRUE)]
        /\ job[w].at = "rename" /\ file' = tmp /\ overlapped' = overlapped
        /\ UNCHANGED <<up, configVars>>
    BY <1>11 DEF Rename
  <2>2. /\ \A v \in Handlers \ {w} : job'[v].at = job[v].at
        /\ job'[w].at \notin Steps
    BY <1>1, <2>1, ElsewhereIs, AfterSaveIs DEF Steps
  <2>3. /\ (Dirty => Dirty') /\ Encoded(config)' = Encoded(config)
        /\ \A v \in Handlers \ {w} : job'[v].at \notin Steps
    BY <1>6, <2>1, <2>2 DEF Steps
  <2>4. Dirty' \/ file' = Whole(Encoded(config)')
    BY <2>1, <2>3 DEF InStep
  <2>5. QED
    BY <2>2, <2>3, <2>4 DEF InStep, Steps, Whole
<1>12. CASE Boot
  <2>1. file.text \in Encodings /\ file.is = "whole" /\ file' = file
    BY <1>1, <1>12 DEF Boot, FilesTyped, Files
  <2>2. file = Whole(file.text)
    BY <1>1, <2>1 DEF FilesTyped, Files, Whole
  <2>3. /\ config' = [sharing |-> file.text.sharing, list |-> 0, map |-> file.text.prices]
        /\ lists'[0] = file.text.lists /\ maps'[file.text.prices] = file.text.prices
    BY <1>1, <1>12, <2>1, Constants DEF Boot, ConfigTyped, Encodings
  <2>4. Encoded(config)' = file.text
    BY <2>1, <2>3 DEF Encoded, Encodings
  <2>5. file' = Whole(Encoded(config)')
    BY <2>1, <2>2, <2>4
  <2>6. \A w \in Handlers : job'[w].at \notin Steps
    BY <1>12 DEF Boot, Quiet, Steps
  <2>7. QED
    BY <2>5, <2>6 DEF InStep, Steps, Whole
<1>13. CASE Exit
  <2>1. \A w \in Handlers : job'[w].at = "idle"
    BY <1>13 DEF Exit, Idle
  <2>2. ~up'
    BY <1>13 DEF Exit
  <2>3. QED
    BY <2>1, <2>2 DEF InStep, Steps
<1>14. QED
  BY <1>2, <1>5, <1>7, <1>8, <1>9, <1>10, <1>11, <1>12, <1>13, SaveSteps

\* As long as saves do not overlap, with no request in progress and no failed
\* save the file holds the configuration in memory, unless that was refused.
THEOREM SavedHolds == Spec => []Saved
<1>1. Init => Typed /\ Quiet /\ Unbroken /\ InStep
  <2>1. Init => Unbroken /\ InStep
    BY DEF Init, Unbroken, InStep, Whole, Idle, Steps
  <2>2. QED
    BY <2>1, TypedAtFirst, RunsAtFirst
<1>2. Typed /\ Quiet /\ Unbroken /\ InStep /\ [Next]_vars
      => (Typed /\ Quiet /\ Unbroken /\ InStep)'
  BY TypedByStep, QuietByStep, UnbrokenByStep, InStepByStep
<1>3. InStep => Saved
  BY DEF InStep, Saved, Resting, Dirty, Pending, Steps
<1>4. QED
  BY <1>1, <1>2, <1>3, PTL DEF Spec
=============================================================================
