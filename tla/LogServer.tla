----------------------------- MODULE LogServer -----------------------------
(***************************************************************************)
(* The process: main of cmd/server with the config it reads, several logs  *)
(* on one LevelDB, the routes to them, and the signer that serves them one *)
(* after the other.  What happens within one submission or one pass is in  *)
(* CTLog; here a log is the size of its tree and of its queue.             *)
(*                                                                         *)
(* The operator may edit the config file at any time, which the process    *)
(* reads when it starts, and the supervisor restarts the process whenever  *)
(* it ends.                                                                *)
(***************************************************************************)
EXTENDS Integers, Sequences, FiniteSets

CONSTANTS
    Log,            \* ids of logs that have rows on disk
    Prefix,         \* path prefixes
    Configs,        \* config files: sequences of blocks, one per log
    BatchSize,      \* signer.batch_size
    MaxLeaves,      \* bound: leaves submitted to a log
    MaxEdits,       \* bound: edits of the config file
    MaxStops        \* bound: signals and crashes

ASSUME ServerAssumption ==
    /\ Log \subseteq Nat \ {0}
    /\ BatchSize \in Nat \ {0}
    /\ MaxLeaves \in Nat
    /\ MaxEdits \in Nat
    /\ MaxStops \in Nat

TreeState == {"UNKNOWN_TREE_STATE", "ACTIVE", "FROZEN", "DRAINING",
              "DEPRECATED_SOFT_DELETED", "DEPRECATED_HARD_DELETED"}

\* A block of the config.  Its keys can be decoded or not, its times, durations
\* and algorithm parsed or not, its state may be none that is known, and its
\* roots file and its keys can be loaded or not.
Block == [id : Log \cup {0}, prefix : Prefix, state : TreeState \cup {"other"},
          keys : BOOLEAN, times : BOOLEAN, loads : BOOLEAN]

ASSUME ConfigAssumption == Configs \subseteq Seq(Block)

VARIABLES
    file,       \* the config file
    size,       \* on disk: the tree size of the root of each log
    queue,      \* on disk: the number of leaves in its queue
    pc,         \* what main is doing
    logs,       \* the config it has read
    at,         \* the block main sets up
    routes,     \* the mux: from prefixes to logs
    runners,    \* logs with an election runner
    held,       \* logs the signer is master for
    jobs,       \* logs the executor has yet to serve in this round
    stopping,   \* a signal has cancelled the context
    txOpen,     \* a failed commit has left LevelDB's transaction open
    edits,
    stops

disk   == <<size, queue>>
signer == <<runners, held, jobs>>
bounds == <<edits, stops>>
vars   == <<file, size, queue, pc, logs, at, routes, runners, held, jobs, stopping, txOpen, edits, stops>>

NoRoot == -1

Init ==
    /\ file \in Configs
    /\ size = [l \in Log |-> NoRoot]
    /\ queue = [l \in Log |-> 0]
    /\ pc = "down"
    /\ logs = <<>>
    /\ at = 1
    /\ routes = <<>>
    /\ runners = {}
    /\ held = {}
    /\ jobs = {}
    /\ stopping = FALSE
    /\ txOpen = FALSE
    /\ edits = 0
    /\ stops = 0

EditConfig(blocks) ==
    /\ edits < MaxEdits
    /\ blocks # file
    /\ file' = blocks
    /\ edits' = edits + 1
    /\ UNCHANGED <<disk, pc, logs, at, routes, signer, stopping, txOpen, stops>>

-----------------------------------------------------------------------------

\* Start-up

\* Mutant: each id is compared with the next one only.
IdsDistinctFromNext(blocks) ==
    \A i \in 1 .. Len(blocks) - 1 : blocks[i].id # blocks[i + 1].id

IdsDistinct(blocks) ==
    \A i, j \in DOMAIN blocks : i < j => blocks[i].id # blocks[j].id

parseKeypair(b) == b.keys

logConfig(b) == parseKeypair(b) /\ b.times

readTree(b) == b.state \in TreeState /\ parseKeypair(b) /\ b.times

\* The config is accepted.
FromFile(blocks) ==
    /\ blocks # <<>>
    /\ \A i \in DOMAIN blocks : blocks[i].id > 0
    /\ IdsDistinct(blocks)
    /\ \A i \in DOMAIN blocks : logConfig(blocks[i]) /\ readTree(blocks[i])

\* main from FromFile to the quota manager; with a bad config it exits again.
Start ==
    /\ pc = "down"
    /\ IF FromFile(file)
       THEN pc' = "check" /\ logs' = file
       ELSE UNCHANGED <<pc, logs>>
    /\ UNCHANGED <<file, disk, at, routes, signer, stopping, txOpen, bounds>>

\* The process ends; what is in memory goes with it, and LevelDB's transaction.
End ==
    /\ pc' = "down"
    /\ logs' = <<>>
    /\ at' = 1
    /\ routes' = <<>>
    /\ runners' = {}
    /\ held' = {}
    /\ jobs' = {}
    /\ stopping' = FALSE
    /\ txOpen' = FALSE

Goto(label) == pc' = label /\ UNCHANGED <<logs, at, routes, signer, stopping, txOpen>>

\* Mutant: the first tree is returned whatever the id.
GetFirstTree(id) == logs[1]

\* adminTx.GetTree: the first block with the id.
GetTree(id) ==
    LET i == CHOOSE i \in DOMAIN logs :
                /\ logs[i].id = id
                /\ \A j \in DOMAIN logs : logs[j].id = id => i <= j
    IN  logs[i]

\* The states in which a tree may be read or initialised (Query, Admin).
Readable(state) == state \notin {"DEPRECATED_SOFT_DELETED", "DEPRECATED_HARD_DELETED"}

\* Mutant: a log that has no root is passed over.
CheckLogOnly ==
    /\ pc = "check"
    /\ at <= Len(logs)
    /\ IF Readable(GetTree(logs[at].id).state) THEN Goto("routes") ELSE End
    /\ UNCHANGED <<file, disk, bounds>>

\* Mutant: every log is initialised.
CheckLogInits ==
    /\ pc = "check"
    /\ at <= Len(logs)
    /\ IF Readable(GetTree(logs[at].id).state) THEN Goto("init") ELSE End
    /\ UNCHANGED <<file, disk, bounds>>

\* GetLatestSignedLogRoot tells a log that has no root; any other error is fatal.
CheckLog ==
    /\ pc = "check"
    /\ at <= Len(logs)
    /\ IF ~Readable(GetTree(logs[at].id).state) THEN End
       ELSE Goto(IF size[logs[at].id] = NoRoot THEN "init" ELSE "routes")
    /\ UNCHANGED <<file, disk, bounds>>

\* InitLog writes the empty root, and refuses a log that has one.
InitLog ==
    LET l == logs[at].id
    IN  /\ pc = "init"
        /\ IF size[l] = NoRoot
           THEN size' = [size EXCEPT ![l] = 0] /\ Goto("routes")
           ELSE End /\ UNCHANGED size
        /\ UNCHANGED <<file, queue, bounds>>

\* SetUpInstance, and the log's handlers are added to the mux, which panics if
\* a path has one already.
AddRoutes ==
    LET b == logs[at]
    IN  /\ pc = "routes"
        /\ IF b.loads /\ b.prefix \notin DOMAIN routes
           THEN /\ routes' = [p \in DOMAIN routes \cup {b.prefix} |->
                                IF p = b.prefix THEN b.id ELSE routes[p]]
                /\ at' = at + 1
                /\ pc' = "check"
                /\ UNCHANGED <<logs, signer, stopping, txOpen>>
           ELSE End
        /\ UNCHANGED <<file, disk, bounds>>

\* The listeners are open, and clients and the signer are served.
Serve ==
    /\ pc = "check"
    /\ at > Len(logs)
    /\ Goto("sleep")
    /\ UNCHANGED <<file, disk, bounds>>

-----------------------------------------------------------------------------

Serving == pc \in {"sleep", "pass", "tidy"}

\* add-chain at a prefix: QueueLeaf goes to the log of the route, and is refused
\* unless the tree is active.  It waits for an open transaction.
Submit(p) ==
    /\ Serving
    /\ p \in DOMAIN routes
    /\ ~txOpen
    /\ LET l == routes[p]
       IN  /\ GetTree(l).state = "ACTIVE"
           /\ size[l] + queue[l] < MaxLeaves
           /\ queue' = [queue EXCEPT ![l] = @ + 1]
    /\ UNCHANGED <<file, size, pc, logs, at, routes, signer, stopping, txOpen, bounds>>

\* Mutant: the list ends at the first tree that is not active.
FirstActiveLogIDs(blocks) ==
    {blocks[i].id : i \in {i \in DOMAIN blocks : \A j \in 1 .. i : blocks[j].state = "ACTIVE"}}

GetActiveLogIDs(blocks) ==
    {blocks[i].id : i \in {i \in DOMAIN blocks : blocks[i].state = "ACTIVE"}}

\* getLogsAndExecutePass: a runner for each active log, a job for each of them
\* that this process is master for by now.
ListLogs ==
    /\ pc = "sleep"
    /\ pc' = "pass"
    /\ runners' = runners \cup GetActiveLogIDs(logs)
    /\ jobs' = held \cap GetActiveLogIDs(logs)
    /\ UNCHANGED <<file, disk, logs, at, routes, held, stopping, txOpen, bounds>>

\* A runner wins its election, which has no other candidate; it never resigns.
BecomeMaster(l) ==
    /\ pc \in {"sleep", "pass"}
    /\ l \in runners \ held
    /\ held' = held \cup {l}
    /\ UNCHANGED <<file, disk, pc, logs, at, routes, runners, jobs, stopping, txOpen, bounds>>

JobDone(l) ==
    /\ pc = "pass"
    /\ l \in jobs
    /\ jobs' = jobs \ {l}
    /\ UNCHANGED <<file, pc, logs, at, routes, runners, held, stopping, bounds>>

\* SequencerManager.ExecutePass on a log with a root.  The commit waits for an
\* open transaction.
ExecutePass(l) ==
    LET batch == IF queue[l] < BatchSize THEN queue[l] ELSE BatchSize
    IN  /\ JobDone(l)
        /\ ~txOpen
        /\ size[l] # NoRoot
        /\ GetTree(l).state \in {"ACTIVE", "DRAINING"}
        /\ size' = [size EXCEPT ![l] = @ + batch]
        /\ queue' = [queue EXCEPT ![l] = @ - batch]
        /\ UNCHANGED txOpen

\* The pass ends with an error, and the executor goes on with the next log.
PassFails(l) == JobDone(l) /\ UNCHANGED <<disk, txOpen>>

\* The error is that of the commit of a batch (leaves, or a root that is due),
\* which leaves the transaction open.
CommitFails(l) == JobDone(l) /\ ~txOpen /\ txOpen' = TRUE /\ UNCHANGED disk

EndPass ==
    /\ pc = "pass"
    /\ jobs = {}
    /\ Goto(IF stopping THEN "tidy" ELSE "sleep")
    /\ UNCHANGED <<file, disk, bounds>>

-----------------------------------------------------------------------------

\* awaitSignal cancels the context; clients are served until the process ends.
Signal ==
    /\ pc \in {"sleep", "pass"}
    /\ ~stopping
    /\ stops < MaxStops
    /\ stopping' = TRUE
    /\ stops' = stops + 1
    /\ UNCHANGED <<file, disk, pc, logs, at, routes, signer, txOpen, edits>>

\* The wait between two rounds ends early.
SleepEnds ==
    /\ pc = "sleep"
    /\ stopping
    /\ Goto("tidy")
    /\ UNCHANGED <<file, disk, bounds>>

Exit == pc = "tidy" /\ End /\ UNCHANGED <<file, disk, bounds>>

\* The process is killed, or ends because a step of the start-up or the HTTP
\* server fails.
Crash ==
    /\ pc # "down"
    /\ stops < MaxStops
    /\ stops' = stops + 1
    /\ End
    /\ UNCHANGED <<file, disk, edits>>

Next ==
    \/ \E blocks \in Configs : EditConfig(blocks)
    \/ Start
    \/ CheckLog
    \/ InitLog
    \/ AddRoutes
    \/ Serve
    \/ \E p \in DOMAIN routes : Submit(p)
    \/ ListLogs
    \/ \E l \in runners : BecomeMaster(l)
    \/ \E l \in jobs : ExecutePass(l)
    \/ \E l \in jobs : PassFails(l)
    \/ \E l \in jobs : CommitFails(l)
    \/ EndPass
    \/ Signal
    \/ SleepEnds
    \/ Exit
    \/ Crash

Spec == Init /\ [][Next]_vars

\* The supervisor restarts the process (Restart=always), main and the signer's
\* loop go on, runners win, and a log whose turn comes again and again is served
\* at last: its passes do not fail for ever.
Fairness ==
    /\ WF_vars(Start \/ CheckLog \/ InitLog \/ AddRoutes \/ Serve)
    /\ WF_vars(ListLogs \/ EndPass)
    /\ WF_vars(SleepEnds \/ Exit)
    /\ \A l \in Log : WF_vars(BecomeMaster(l)) /\ SF_vars(ExecutePass(l))

FairSpec == Spec /\ Fairness

-----------------------------------------------------------------------------

BlocksOf(blocks) == {blocks[i] : i \in DOMAIN blocks}

\* The routes are those of the config the process has read, one prefix per log:
\* rows on disk and objects are named by the id alone, so two blocks with one id
\* would give one tree two prefixes, states and keys.
RoutesSeparate ==
    Serving =>
        /\ \A b \in BlocksOf(logs) : routes[b.prefix] = b.id
        /\ \A p, q \in DOMAIN routes : routes[p] = routes[q] => p = q

\* Before clients and the signer are served every log of the config has a root,
\* though the process may end between the initialisation of one log and the
\* next, and logs may be added, taken out and put back between two starts.
ServedLogsInitialised ==
    Serving => \A b \in BlocksOf(logs) : size[b.id] # NoRoot

\* A log that is not active in the config the process has read takes no new leaf,
\* and one that is neither active nor draining no new root, whichever other logs
\* are served at the same time: Trillian looks the state up by id on every
\* request and pass.
StatesRespected ==
    [][\A b \in BlocksOf(logs) : Serving /\ b.state # "ACTIVE" =>
          /\ size'[b.id] + queue'[b.id] = size[b.id] + queue[b.id]
          /\ b.state # "DRAINING" => size'[b.id] = size[b.id]]_vars

\* A config the process can serve: the states can be read, every block loads, no
\* two share a prefix.
Servable(blocks) ==
    /\ FromFile(blocks)
    /\ \A b \in BlocksOf(blocks) : Readable(b.state) /\ b.loads
    /\ \A i, j \in DOMAIN blocks : blocks[i].prefix = blocks[j].prefix => i = j

\* With a config it can serve the process comes to serve, whatever the start-ups
\* before have left half done: a log that was initialised by one that then failed
\* does not stop the next.
EventuallyServes == []<>(Serving \/ ~Servable(file))

ActiveIn(blocks, l) == \E b \in BlocksOf(blocks) : b.id = l /\ b.state = "ACTIVE"

DrainingIn(blocks, l) == \E b \in BlocksOf(blocks) : b.id = l /\ b.state = "DRAINING"

\* "A tree that is draining will continue to integrate queued entries."
\* (TreeState_DRAINING, trillian.pb.go): the queue of a draining log is emptied
\* again and again, unless a failed commit has left the transaction open.
DrainingLogsDrain ==
    \A l \in Log : []<>(queue[l] = 0 \/ txOpen \/ ~DrainingIn(logs, l))

\* The queue of every active log is emptied again and again, though the signer
\* serves the logs one after the other, passes fail, and other logs are frozen;
\* unless a failed commit has left the transaction open, which blocks them all.
EveryLogProgresses ==
    \A l \in Log : []<>(queue[l] = 0 \/ txOpen \/ ~ActiveIn(logs, l))

=============================================================================
