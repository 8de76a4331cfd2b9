------------------------------ MODULE Managed ------------------------------
(***************************************************************************)
(* The managed host of "relay serve", internal/dashboard: requests of the   *)
(* dashboard pause, stop, resume, price and reconfigure a host agent, each   *)
(* in a goroutine of its own, and save the configuration to a file; the      *)
(* process may die at any moment and is started again from the file.         *)
(*                                                                          *)
(* A step is a region under m.mu, a call of a cancel function, or one system *)
(* call of save. Copying a configuration copies its flags but shares its     *)
(* backend lists and its price map, which the handlers edit in place: config *)
(* refers to them by number. Go stops a process that edits a map while it is *)
(* being encoded: that outcome is Exit, any other is Write before or after   *)
(* the edit. How one run of the agent behaves is the subject of Agent.       *)
(***************************************************************************)
EXTENDS Integers, FiniteSets

CONSTANTS
    Handlers, \* concurrent dashboard requests
    MaxRuns,  \* bound: runs of an agent in one process
    MaxRequests \* bound: requests served, over all processes

ASSUME HandlersAssumption == IsFiniteSet(Handlers)
ASSUME BoundsAssumption == MaxRuns \in Nat \ {0} /\ MaxRequests \in Nat

Runs == 1..MaxRuns
Edits == 0..MaxRequests \* a request names its edit; 0 is what the first file held, and the nil map

VARIABLES
    up,        \* the process runs
    config,    \* m.config
    lists,     \* backend lists: the edit that made them, and Validate's verdict
    maps,      \* price maps: the last edit of each
    agent,     \* agents created so far; the last one is m.agent
    built,     \* the edit of the lists m.agent was created with
    current,   \* the run m.cancel stops, 0 when m.running is false
    run,       \* "none", "live", "over" when Run has returned, "done" after the epilogue
    using,     \* the agent of each run
    cancelled, \* runs whose context is cancelled
    job,       \* control state of each handler
    file,      \* content of the configuration file
    tmp,       \* content of the shared temporary file
    requests,  \* requests so far
    cleared,   \* history: runs that the epilogue of another run cleared
    refused,   \* history: runs stopped for a configuration agent.New refused
    overlapped, \* history: two saves were in progress at once
    failed     \* history: the last save to end failed

agentVars == <<agent, built, current, run, using, cancelled, cleared, refused>>
configVars == <<config, lists, maps, requests>>
fileVars == <<file, tmp, overlapped, failed>>
vars == <<up, agentVars, configVars, fileVars, job>>

\* sharing stands for Enabled && !Paused, which is all the code asks of the two.
Configs == [sharing: BOOLEAN, list: Edits, map: Edits]
Lists == [offers: Edits, valid: BOOLEAN]
Encodings == [sharing: BOOLEAN, lists: Lists, prices: Edits]

\* What json.Encode writes of a copy of the configuration, as it reads it now.
Encoded(c) == [sharing |-> c.sharing, lists |-> lists[c.list], prices |-> maps[c.map]]

Whole(text) == [is |-> "whole", text |-> text]

NoConfig == [sharing |-> FALSE, list |-> 0, map |-> 0]
NoLists == [e \in Edits |-> [offers |-> 0, valid |-> TRUE]]
NoText == [sharing |-> FALSE, lists |-> NoLists[0], prices |-> 0]

Absent == [is |-> "absent", text |-> NoText]
Empty == [is |-> "empty", text |-> NoText]
Torn == [is |-> "torn", text |-> NoText]

\* held: the configuration to install or to write; hand: the cancel function to
\* call; restart: wasRunning && runCtx != nil; fd: the file save has open.
Idle == [at |-> "idle", op |-> "none", held |-> NoConfig, hand |-> 0,
         restart |-> FALSE, fd |-> "none"]

Saving == {w \in Handlers : job[w].at \in {"open", "write", "rename"}}

----------------------------------------------------------------------------
Init ==
    /\ up = FALSE
    /\ config = NoConfig
    /\ lists = NoLists
    /\ maps = [e \in Edits |-> 0]
    /\ agent = 0 /\ built = 0 /\ current = 0
    /\ run = [r \in Runs |-> "none"]
    /\ using = [r \in Runs |-> 0]
    /\ cancelled = {}
    /\ job = [w \in Handlers |-> Idle]
    /\ cleared = {} /\ refused = {}
    /\ \E sharing \in BOOLEAN : file = Whole([NoText EXCEPT !.sharing = sharing])
    /\ tmp = Absent
    /\ requests = 0
    /\ overlapped = FALSE /\ failed = FALSE

----------------------------------------------------------------------------
(* The process                                                              *)

Fresh(r) == run[r] = "none" /\ \A q \in 1..(r - 1) : run[q] # "none"

\* "serve": the file must parse and agent.New accept it; then managed.Start.
Boot ==
    /\ ~up
    /\ file.is = "whole"
    /\ file.text.lists.valid
    /\ up' = TRUE
    /\ config' = [sharing |-> file.text.sharing, list |-> 0, map |-> file.text.prices]
    /\ lists' = [lists EXCEPT ![0] = file.text.lists]
    /\ maps' = [maps EXCEPT ![file.text.prices] = file.text.prices]
    /\ agent' = 1 /\ built' = file.text.lists.offers
    /\ IF file.text.sharing
          THEN /\ current' = 1
               /\ run' = [run EXCEPT ![1] = "live"]
               /\ using' = [using EXCEPT ![1] = 1]
          ELSE UNCHANGED <<current, run, using>>
    /\ overlapped' = FALSE /\ failed' = FALSE
    /\ UNCHANGED <<cancelled, job, file, tmp, requests, cleared, refused>>

\* An interrupt ends in Close and the end of main, without waiting for the
\* handlers; a crash ends anywhere. Only the files survive.
Exit ==
    /\ up /\ up' = FALSE
    /\ config' = NoConfig
    /\ lists' = NoLists
    /\ maps' = [e \in Edits |-> 0]
    /\ agent' = 0 /\ built' = 0 /\ current' = 0
    /\ run' = [r \in Runs |-> "none"]
    /\ using' = [r \in Runs |-> 0]
    /\ cancelled' = {}
    /\ job' = [w \in Handlers |-> Idle]
    /\ cleared' = {} /\ refused' = {}
    /\ UNCHANGED <<fileVars, requests>>

\* Mutant: whether a run is current is not asked.
MayStartAgain == config.sharing

MayStart == current = 0 /\ config.sharing

\* Start, under the lock: nothing if a run is current or sharing is off.
Start(w) ==
    /\ job[w].at = "start"
    /\ IF MayStart
          THEN \E r \in Runs :
                 /\ Fresh(r)
                 /\ current' = r
                 /\ run' = [run EXCEPT ![r] = "live"]
                 /\ using' = [using EXCEPT ![r] = agent]
          ELSE UNCHANGED <<current, run, using>>
    /\ job' = [job EXCEPT ![w] = Idle]
    /\ UNCHANGED <<up, agent, built, cancelled, cleared, refused, configVars, fileVars>>

\* Run returns when its context is cancelled, and also when the coordinator
\* refuses the credential.
RunReturns(r) ==
    /\ run[r] = "live"
    /\ run' = [run EXCEPT ![r] = "over"]
    /\ UNCHANGED <<up, agent, built, current, using, cancelled, cleared, refused,
                   configVars, fileVars, job>>

\* The goroutine of Start, after Run: it clears whatever run is current.
Epilogue(r) ==
    /\ run[r] = "over"
    /\ run' = [run EXCEPT ![r] = "done"]
    /\ current' = 0
    /\ cleared' = cleared \cup ({current} \ {0, r})
    /\ UNCHANGED <<up, agent, built, using, cancelled, refused, configVars, fileVars, job>>

----------------------------------------------------------------------------
(* The requests                                                             *)

\* A handler serves a new request.
Accepts(w) ==
    /\ up /\ job[w].at = "idle"
    /\ requests < MaxRequests /\ requests' = requests + 1

Begin(w, op, at, hand) ==
    job' = [job EXCEPT ![w] = [Idle EXCEPT !.at = at, !.op = op, !.hand = hand]]

\* Mutant: the pause is kept in memory only.
PauseUnsaved(w) ==
    /\ Accepts(w)
    /\ config' = [config EXCEPT !.sharing = FALSE]
    /\ UNCHANGED <<up, lists, maps, agentVars, fileVars, job>>

\* Pause(false): the agent is left alone.
Pause(w) ==
    /\ Accepts(w)
    /\ config' = [config EXCEPT !.sharing = FALSE]
    /\ Begin(w, "pause", "snapshot", 0)
    /\ UNCHANGED <<up, lists, maps, agentVars, fileVars>>

\* Pause(true): cancel is read under the lock and called after it.
Stop(w) ==
    /\ Accepts(w)
    /\ config' = [config EXCEPT !.sharing = FALSE]
    /\ Begin(w, "stop", IF current = 0 THEN "snapshot" ELSE "cancel", current)
    /\ UNCHANGED <<up, lists, maps, agentVars, fileVars>>

Resume(w) ==
    /\ Accepts(w)
    /\ config' = [config EXCEPT !.sharing = TRUE]
    /\ Begin(w, "resume", "snapshot", 0)
    /\ UNCHANGED <<up, lists, maps, agentVars, fileVars>>

\* POST /prices: the map is edited in place, a nil map is replaced.
SetPrice(w) ==
    /\ Accepts(w)
    /\ LET map == IF config.map = 0 THEN requests' ELSE config.map
       IN  /\ config' = [config EXCEPT !.map = map]
           /\ maps' = [maps EXCEPT ![map] = requests']
    /\ Begin(w, "price", "snapshot", 0)
    /\ UNCHANGED <<up, lists, agentVars, fileVars>>

\* POST /models: the list is edited in place (an offer made twice counts as an
\* edit too). Nothing checks the name of the model before agent.New does.
Offer(w) ==
    /\ Accepts(w)
    /\ \E valid \in BOOLEAN :
         lists' = [lists EXCEPT ![config.list] = [offers |-> requests', valid |-> valid]]
    /\ Begin(w, "config", "copy", 0)
    /\ UNCHANGED <<up, config, maps, agentVars, fileVars>>

\* Mutant: the offer is saved, the agent left as it is.
CopyThenSave(w) ==
    /\ job[w].at = "copy"
    /\ job' = [job EXCEPT ![w].at = "snapshot"]
    /\ UNCHANGED <<up, agentVars, configVars, fileVars>>

\* ... then copied under a second lock, to be installed.
Copy(w) ==
    /\ job[w].at = "copy"
    /\ job' = [job EXCEPT ![w].at = "install", ![w].held = config]
    /\ UNCHANGED <<up, agentVars, configVars, fileVars>>

\* PUT /config: a valid configuration with lists and a map of its own.
PutConfig(w) ==
    /\ Accepts(w)
    /\ lists' = [lists EXCEPT ![requests'] = [offers |-> requests', valid |-> TRUE]]
    /\ maps' = [maps EXCEPT ![requests'] = requests']
    /\ \E sharing \in BOOLEAN :
         job' = [job EXCEPT ![w] =
           [Idle EXCEPT !.at = "install", !.op = "config",
              !.held = [sharing |-> sharing, list |-> requests', map |-> requests']]]
    /\ UNCHANGED <<up, config, agentVars, fileVars>>

\* Mutant: the cancel function is read after it was cleared.
OldCancelCleared == 0

OldCancel == current

\* replaceConfig, under the lock. The lists are validated as they are now; if
\* agent.New refuses them the configuration stays and the old agent too.
Install(w) ==
    LET valid == lists[job[w].held.list].valid
    IN  /\ job[w].at = "install"
        /\ config' = job[w].held
        /\ current' = 0
        /\ IF valid
              THEN agent' = agent + 1 /\ built' = lists[job[w].held.list].offers
              ELSE UNCHANGED <<agent, built>>
        /\ refused' = IF valid THEN refused ELSE refused \cup ({current} \ {0})
        /\ job' = [job EXCEPT ![w] =
             IF OldCancel = 0 /\ ~valid THEN Idle
             ELSE [job[w] EXCEPT !.at = IF OldCancel = 0 THEN "snapshot"
                                        ELSE IF valid THEN "cancel" ELSE "cancelOnly",
                                 !.hand = OldCancel,
                                 !.restart = current # 0]]
        /\ UNCHANGED <<up, lists, maps, requests, run, using, cancelled, cleared, fileVars>>

\* The cancel function taken before, called after the unlock.
Cancel(w) ==
    /\ job[w].at \in {"cancel", "cancelOnly"}
    /\ cancelled' = cancelled \cup {job[w].hand}
    /\ job' = [job EXCEPT ![w] =
                 IF job[w].at = "cancelOnly" THEN Idle
                 ELSE [job[w] EXCEPT !.at = "snapshot", !.hand = 0]]
    /\ UNCHANGED <<up, agent, built, current, run, using, cleared, refused,
                   configVars, fileVars>>

----------------------------------------------------------------------------
(* save: snapshot, open and truncate, encode and close, rename              *)

\* Resume starts whether or not the save succeeded, replaceConfig only if it
\* did; the other handlers answer.
AfterSave(w, ok) ==
    IF job[w].op = "resume" \/ (job[w].op = "config" /\ ok /\ job[w].restart)
       THEN [Idle EXCEPT !.at = "start"]
       ELSE Idle

Fails(w) == failed' = TRUE /\ job' = [job EXCEPT ![w] = AfterSave(w, FALSE)]

Snapshot(w) ==
    /\ job[w].at = "snapshot"
    /\ job' = [job EXCEPT ![w].at = "open", ![w].held = config]
    /\ overlapped' = (overlapped \/ Saving # {})
    /\ UNCHANGED <<up, agentVars, configVars, file, tmp, failed>>

\* Mutant: the configuration is written in place.
OpenInPlace(w) ==
    /\ job[w].at = "open"
    /\ file' = Empty
    /\ job' = [job EXCEPT ![w].at = "write", ![w].fd = "path"]
    /\ UNCHANGED <<up, agentVars, configVars, tmp, overlapped, failed>>

Open(w) ==
    /\ job[w].at = "open"
    /\ tmp' = Empty
    /\ job' = [job EXCEPT ![w].at = "write", ![w].fd = "tmp"]
    /\ UNCHANGED <<up, agentVars, configVars, file, overlapped, failed>>

OpenFails(w) ==
    /\ job[w].at = "open"
    /\ Fails(w)
    /\ UNCHANGED <<up, agentVars, configVars, file, tmp, overlapped>>

\* Written from the start of the file: longer content of another writer shows
\* through at the end.
Overwrite(old, new) == IF old \in {Empty, new} THEN {new} ELSE {new, Torn}

\* The open file may have been renamed, or replaced, by another save.
Write(w) ==
    /\ job[w].at = "write"
    /\ CASE job[w].fd = "tmp" ->
              tmp' \in Overwrite(tmp, Whole(Encoded(job[w].held))) /\ UNCHANGED file
         [] job[w].fd = "path" ->
              file' \in Overwrite(file, Whole(Encoded(job[w].held))) /\ UNCHANGED tmp
         [] OTHER -> UNCHANGED <<file, tmp>>
    /\ job' = [job EXCEPT ![w].at = "rename", ![w].fd = "none"]
    /\ UNCHANGED <<up, agentVars, configVars, overlapped, failed>>

\* Encode or Close reports an error, a part has been written.
WriteFails(w) ==
    /\ job[w].at = "write"
    /\ tmp' = IF job[w].fd = "tmp" THEN Torn ELSE tmp
    /\ file' = IF job[w].fd = "path" THEN Torn ELSE file
    /\ Fails(w)
    /\ UNCHANGED <<up, agentVars, configVars, overlapped>>

\* What an open file is once the temporary one is renamed.
Renamed(fd) == CASE fd = "tmp" -> "path" [] fd = "path" -> "lost" [] OTHER -> fd

Elsewhere(w) ==
    [v \in Handlers |-> IF v = w THEN job[v] ELSE [job[v] EXCEPT !.fd = Renamed(@)]]

Rename(w) ==
    /\ job[w].at = "rename"
    /\ tmp # Absent
    /\ file' = tmp
    /\ tmp' = Absent
    /\ failed' = FALSE
    /\ job' = [Elsewhere(w) EXCEPT ![w] = AfterSave(w, TRUE)]
    /\ UNCHANGED <<up, agentVars, configVars, overlapped>>

\* Another save has renamed the temporary file away.
RenameFails(w) ==
    /\ job[w].at = "rename"
    /\ tmp = Absent
    /\ Fails(w)
    /\ UNCHANGED <<up, agentVars, configVars, file, tmp, overlapped>>

----------------------------------------------------------------------------
Request(w) ==
    Pause(w) \/ Stop(w) \/ Resume(w) \/ SetPrice(w) \/ Offer(w) \/ PutConfig(w)

Handler(w) ==
    \/ Copy(w) \/ Install(w) \/ Cancel(w) \/ Start(w)
    \/ Snapshot(w) \/ Open(w) \/ OpenFails(w) \/ Write(w) \/ WriteFails(w)
    \/ Rename(w) \/ RenameFails(w)

Next ==
    \/ Boot \/ Exit
    \/ \E r \in Runs : RunReturns(r) \/ Epilogue(r)
    \/ \E w \in Handlers : Request(w) \/ Handler(w)

Spec == Init /\ [][Next]_vars

----------------------------------------------------------------------------
(* Properties                                                               *)

\* Every variable keeps its type, the handlers their points and files.
TypeOK ==
    /\ {up, overlapped, failed} \subseteq BOOLEAN
    /\ config \in Configs
    /\ lists \in [Edits -> Lists]
    /\ maps \in [Edits -> Edits]
    /\ agent \in Nat /\ built \in Edits /\ requests \in Edits
    /\ current \in {0} \cup Runs
    /\ run \in [Runs -> {"none", "live", "over", "done"}]
    /\ using \in [Runs -> Nat]
    /\ cancelled \subseteq Runs /\ cleared \subseteq Runs /\ refused \subseteq Runs
    /\ job \in [Handlers -> [
          at: {"idle", "copy", "install", "cancel", "cancelOnly", "snapshot", "open",
               "write", "rename", "start"},
          op: {"none", "pause", "stop", "resume", "price", "config"},
          held: Configs, hand: {0} \cup Runs, restart: BOOLEAN,
          fd: {"none", "tmp", "path", "lost"}]]
    /\ file \in [is: {"whole", "empty", "torn"}, text: Encodings]
    /\ tmp \in [is: {"whole", "empty", "torn", "absent"}, text: Encodings]

\* The runs that are at work: their context is not cancelled.
Working == {r \in Runs : run[r] = "live" /\ r \notin cancelled}

\* The dashboard can always stop what works: it is the current run, or a handler
\* is about to cancel it, or it is one that another's epilogue cleared
\* (dashboard.go:141). No other step loses a run, before such a one or after.
Controlled ==
    \A r \in Working \ cleared :
        \/ r = current
        \/ \E w \in Handlers : job[w].at \in {"cancel", "cancelOnly"} /\ job[w].hand = r

\* An Agent is run once at a time: its slots and its identity at the
\* coordinator belong to one Run. Two runs of one agent are live only if one of
\* them was cleared by another's epilogue, or stopped for a configuration that
\* was refused, which leaves the old agent in place (dashboard.go:691).
OneRunPerAgent ==
    \A r, q \in Runs \ (cleared \cup refused) :
        run[r] = "live" /\ run[q] = "live" /\ using[r] = using[q] => r = q

Resting == up /\ \A w \in Handlers : job[w].at = "idle"

\* With no request in progress, the agent was made from the backend lists the
\* configuration shows, and every run that works is one of that agent: offers,
\* replacements and restarts in any order leave no run with an older allowlist
\* but one that was cleared by another's epilogue. (Allowlisted is the same
\* without the exception.)
OffersInForce ==
    Resting /\ lists[config.list].valid =>
        /\ built = lists[config.list].offers
        /\ \A r \in Working \ cleared : using[r] = agent

\* As long as saves do not overlap, the configuration file is whole at every
\* moment, whatever fails and wherever the process dies.
FileWhole == ~overlapped => file.is = "whole"

\* As long as saves do not overlap, with no request in progress and no failed
\* save the file holds the configuration in memory, unless that was refused.
Saved ==
    Resting /\ ~overlapped /\ ~failed /\ lists[config.list].valid
    => file = Whole(Encoded(config))

\* README.md:23 says: "only allowlisted models are advertised to the
\* coordinator". A run that another's epilogue cleared is not cancelled by the
\* next replacement, and goes on with the agent of an older allowlist.
Allowlisted ==
    Resting /\ lists[config.list].valid => \A r \in Working : using[r] = agent
=============================================================================
