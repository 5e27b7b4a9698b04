-------------------------- MODULE LogServerProofs --------------------------
(***************************************************************************)
(* The safety properties of LogServer, for any logs and config files, and  *)
(* any number of edits and crashes.                                        *)
(***************************************************************************)
EXTENDS LogServer, TLAPS

TypeInv ==
    /\ file \in Configs
    /\ size \in [Log -> Nat \cup {NoRoot}]
    /\ queue \in [Log -> Nat]
    /\ pc \in {"down", "check", "init", "routes", "sleep", "pass", "tidy"}
    /\ logs \in Seq(Block)
    /\ at \in 1 .. Len(logs) + 1

\* How far main has got.
ProgressInv ==
    /\ IF pc = "down" THEN at = 1 ELSE FromFile(logs)
    /\ pc \in {"init", "routes"} => at <= Len(logs)
    /\ Serving => at = Len(logs) + 1

\* The logs that main is done with have a root.
RootsInv ==
    /\ \A i \in 1 .. at - 1 : size[logs[i].id] # NoRoot
    /\ pc = "routes" => size[logs[at].id] # NoRoot

\* They have the routes, each its own.
RoutesInv ==
    /\ \A i \in 1 .. at - 1 : logs[i].prefix \in DOMAIN routes /\ routes[logs[i].prefix] = logs[i].id
    /\ \A p \in DOMAIN routes : \E i \in 1 .. at - 1 : p = logs[i].prefix

JobsInv == jobs \subseteq IF pc = "pass" THEN GetActiveLogIDs(logs) ELSE {}

IInv == TypeInv /\ ProgressInv /\ RootsInv /\ RoutesInv /\ JobsInv

-----------------------------------------------------------------------------

\* The id of an accepted block is that of a log.
LEMMA BlockTypes ==
    ASSUME NEW blocks \in Seq(Block), NEW i \in 1 .. Len(blocks)
    PROVE  /\ blocks[i].id \in Log \cup {0}
           /\ FromFile(blocks) => blocks[i].id \in Log
<1>1. blocks[i] \in Block
  OBVIOUS
<1> QED BY <1>1, ServerAssumption DEF Block, FromFile

\* Two blocks of an accepted config with one id are the same.
LEMMA SameBlock ==
    ASSUME NEW blocks \in Seq(Block), FromFile(blocks),
           NEW i \in 1 .. Len(blocks), NEW j \in 1 .. Len(blocks), blocks[i].id = blocks[j].id
    PROVE  i = j
<1>1. DOMAIN blocks = 1 .. Len(blocks)
  OBVIOUS
<1> QED BY <1>1 DEF FromFile, IdsDistinct

\* adminTx.GetTree finds the block with the id.
LEMMA GetTreeFinds ==
    ASSUME logs \in Seq(Block), FromFile(logs), NEW i \in 1 .. Len(logs)
    PROVE  GetTree(logs[i].id) = logs[i]
<1> DEFINE id == logs[i].id
           P(k) == k \in DOMAIN logs /\ logs[k].id = id
                   /\ \A j \in DOMAIN logs : logs[j].id = id => k <= j
<1>1. DOMAIN logs = 1 .. Len(logs)
  OBVIOUS
<1>2. P(i)
  <2>1. \A j \in DOMAIN logs : logs[j].id = id => j = i
    BY <1>1, SameBlock
  <2> QED BY <1>1, <2>1
<1>3. \A k : P(k) => k = i
  BY <1>1, SameBlock
<1>4. (CHOOSE k \in DOMAIN logs : logs[k].id = id /\ \A j \in DOMAIN logs : logs[j].id = id => k <= j) = i
  BY <1>2, <1>3
<1> QED BY <1>4, Zenon DEF GetTree

LEMMA InitIInv == Init => IInv
<1> SUFFICES ASSUME Init PROVE IInv
  OBVIOUS
<1>1. TypeInv
  BY DEF Init, TypeInv, NoRoot
<1>2. ProgressInv /\ RootsInv /\ RoutesInv /\ JobsInv
  BY DEF Init, ProgressInv, RootsInv, RoutesInv, JobsInv, Serving
<1> QED BY <1>1, <1>2 DEF IInv

\* The end of the process leaves nothing to be kept but the disk.
LEMMA EndIInv ==
    ASSUME End, file' \in Configs, size' \in [Log -> Nat \cup {NoRoot}],
           queue' \in [Log -> Nat]
    PROVE  IInv'
<1>1. TypeInv'
  BY DEF End, TypeInv
<1>2. (ProgressInv /\ RootsInv /\ RoutesInv /\ JobsInv)'
  BY DEF End, ProgressInv, RootsInv, RoutesInv, JobsInv, Serving
<1> QED BY <1>1, <1>2 DEF IInv

\* A step that leaves the set-up alone and takes no root from a log.
LEMMA SetUpKept ==
    ASSUME IInv, UNCHANGED <<logs, at, routes>>,
           file' \in Configs, size' \in [Log -> Nat \cup {NoRoot}], queue' \in [Log -> Nat],
           \A l \in Log : size[l] # NoRoot => size'[l] # NoRoot,
           jobs' \subseteq IF pc' = "pass" THEN GetActiveLogIDs(logs) ELSE {},
           \/ pc' = pc
           \/ Serving /\ pc' \in {"sleep", "pass", "tidy"}
    PROVE  IInv'
<1>1. TypeInv' /\ JobsInv'
  BY DEF IInv, TypeInv, JobsInv, Serving, GetActiveLogIDs
<1>2. ProgressInv' /\ RoutesInv'
  BY DEF IInv, ProgressInv, RoutesInv, Serving, FromFile, IdsDistinct
<1>3. RootsInv'
  <2>1. ASSUME NEW i \in 1 .. Len(logs), pc # "down", size[logs[i].id] # NoRoot
        PROVE  size'[logs[i].id] # NoRoot
    BY <2>1, BlockTypes DEF IInv, TypeInv, ProgressInv
  <2>2. \A i \in 1 .. at - 1 : i \in 1 .. Len(logs) /\ pc # "down"
    BY DEF IInv, TypeInv, ProgressInv
  <2>3. pc' = "routes" => at \in 1 .. Len(logs) /\ pc = "routes"
    BY DEF IInv, TypeInv, ProgressInv, Serving
  <2> QED BY <2>1, <2>2, <2>3 DEF IInv, RootsInv
<1> QED BY <1>1, <1>2, <1>3 DEF IInv

-----------------------------------------------------------------------------

\* Start-up

LEMMA StartIInv == ASSUME IInv, Start PROVE IInv'
<1> USE DEF Start, disk, signer, bounds
<1>1. CASE ~FromFile(file)
  <2>1. UNCHANGED <<logs, at, routes, file, size, queue, jobs, pc>>
    BY <1>1
  <2> QED BY <2>1, SetUpKept DEF IInv, TypeInv, JobsInv
<1>2. CASE FromFile(file)
  <2>1. logs' = file /\ pc' = "check" /\ at = 1 /\ at' = 1 /\ file \in Seq(Block)
    BY <1>2, ConfigAssumption DEF IInv, TypeInv, ProgressInv
  <2>2. TypeInv'
    BY <2>1 DEF IInv, TypeInv
  <2>3. ProgressInv' /\ RootsInv' /\ RoutesInv'
    BY <1>2, <2>1 DEF IInv, ProgressInv, RootsInv, RoutesInv, Serving, FromFile, IdsDistinct
  <2>4. JobsInv'
    BY <1>2, <2>1 DEF Start, signer, IInv, JobsInv
  <2> QED BY <2>2, <2>3, <2>4 DEF IInv
<1> QED BY <1>1, <1>2

\* CheckLog and InitLog move on within the set-up of one log.
LEMMA CheckIInv == ASSUME IInv, CheckLog PROVE IInv'
<1> USE DEF CheckLog, Goto, disk, signer, bounds
<1>1. CASE ~Readable(GetTree(logs[at].id).state)
  BY <1>1, EndIInv DEF IInv, TypeInv
<1>2. CASE Readable(GetTree(logs[at].id).state)
  <2>1. /\ pc' = IF size[logs[at].id] = NoRoot THEN "init" ELSE "routes"
        /\ at <= Len(logs)
        /\ UNCHANGED <<file, size, queue, logs, at, routes, jobs>>
    BY <1>2
  <2>2. pc = "check"
    OBVIOUS
  <2> QED BY <2>1, <2>2 DEF IInv, TypeInv, ProgressInv, RootsInv, RoutesInv, JobsInv, Serving,
                            FromFile, IdsDistinct
<1> QED BY <1>1, <1>2

LEMMA InitLogIInv == ASSUME IInv, InitLog PROVE IInv'
<1> DEFINE l == logs[at].id
<1>1. l \in Log /\ at \in 1 .. Len(logs)
  BY BlockTypes DEF InitLog, IInv, TypeInv, ProgressInv
<1>2. CASE size[l] = NoRoot
  <2>1. /\ size' = [size EXCEPT ![l] = 0]
        /\ pc = "init" /\ pc' = "routes"
        /\ UNCHANGED <<file, queue, logs, at, routes, jobs>>
    BY <1>2 DEF InitLog, Goto, signer, bounds
  <2>2. TypeInv' /\ size'[l] = 0 /\ \A k \in Log : size[k] # NoRoot => size'[k] # NoRoot
    BY <1>1, <2>1 DEF IInv, TypeInv, NoRoot
  <2>3. RootsInv'
    <3>1. \A i \in 1 .. at - 1 : logs[i].id \in Log
      BY <2>1, BlockTypes DEF IInv, TypeInv, ProgressInv
    <3> QED BY <2>1, <2>2, <3>1 DEF IInv, RootsInv, NoRoot
  <2>4. ProgressInv' /\ RoutesInv' /\ JobsInv'
    BY <1>1, <2>1 DEF IInv, ProgressInv, RoutesInv, JobsInv, Serving, FromFile, IdsDistinct
  <2> QED BY <2>2, <2>3, <2>4 DEF IInv
<1>3. CASE size[l] # NoRoot
  BY <1>3, EndIInv DEF InitLog, IInv, TypeInv
<1> QED BY <1>2, <1>3

LEMMA AddRoutesIInv == ASSUME IInv, AddRoutes PROVE IInv'
<1> DEFINE b == logs[at]
<1>1. CASE b.loads /\ b.prefix \notin DOMAIN routes
  <2>1. /\ pc = "routes" /\ pc' = "check"
        /\ at' = at + 1
        /\ routes' = [p \in DOMAIN routes \cup {b.prefix} |-> IF p = b.prefix THEN b.id ELSE routes[p]]
        /\ UNCHANGED <<file, size, queue, logs, jobs>>
    BY <1>1 DEF AddRoutes, signer, disk, bounds
  <2>2. at \in 1 .. Len(logs)
    BY <2>1 DEF IInv, TypeInv, ProgressInv
  <2>3. \A i \in 1 .. at' - 1 : i \in 1 .. at - 1 \/ i = at
    BY <2>1, <2>2
  <2>4. TypeInv' /\ ProgressInv' /\ JobsInv'
    BY <2>1, <2>2 DEF IInv, TypeInv, ProgressInv, JobsInv, Serving, FromFile, IdsDistinct
  <2>5. RootsInv'
    BY <2>1, <2>3 DEF IInv, RootsInv
  <2>6. RoutesInv'
    <3>1. ASSUME NEW i \in 1 .. at' - 1
          PROVE  logs[i].prefix \in DOMAIN routes' /\ routes'[logs[i].prefix] = logs[i].id
      <4>1. CASE i = at
        BY <2>1, <4>1
      <4>2. CASE i \in 1 .. at - 1
        <5>1. logs[i].prefix \in DOMAIN routes /\ routes[logs[i].prefix] = logs[i].id
          BY <4>2 DEF IInv, RoutesInv
        <5> QED BY <1>1, <2>1, <5>1
      <4> QED BY <2>3, <4>1, <4>2
    <3>2. ASSUME NEW p \in DOMAIN routes' PROVE \E i \in 1 .. at' - 1 : p = logs[i].prefix
      <4>1. CASE p = b.prefix
        BY <2>1, <2>2, <4>1
      <4>2. CASE p \in DOMAIN routes
        <5>1. PICK i \in 1 .. at - 1 : p = logs[i].prefix
          BY <4>2 DEF IInv, RoutesInv
        <5> QED BY <2>1, <2>2, <5>1
      <4> QED BY <2>1, <4>1, <4>2
    <3> QED BY <2>1, <3>1, <3>2, Zenon DEF RoutesInv
  <2> QED BY <2>4, <2>5, <2>6 DEF IInv
<1>2. CASE ~(b.loads /\ b.prefix \notin DOMAIN routes)
  BY <1>2, EndIInv DEF AddRoutes, disk, IInv, TypeInv
<1> QED BY <1>1, <1>2

LEMMA ServeIInv == ASSUME IInv, Serve PROVE IInv'
<1>1. /\ pc = "check" /\ pc' = "sleep" /\ at > Len(logs)
      /\ UNCHANGED <<file, size, queue, logs, at, routes, jobs>>
  BY DEF Serve, Goto, disk, signer, bounds
<1> QED BY <1>1 DEF IInv, TypeInv, ProgressInv, RootsInv, RoutesInv, JobsInv, Serving,
                    FromFile, IdsDistinct

-----------------------------------------------------------------------------

\* Serving

\* The steps that leave the disk alone, or end the process.
LEMMA DiskKept ==
    ASSUME IInv,
           \/ \E blocks \in Configs : EditConfig(blocks)
           \/ ListLogs
           \/ \E l \in runners : BecomeMaster(l)
           \/ \E l \in jobs : PassFails(l) \/ CommitFails(l)
           \/ EndPass \/ Signal \/ SleepEnds \/ Exit \/ Crash
    PROVE  IInv' /\ UNCHANGED <<size, queue>>
<1> USE DEF disk, signer, bounds
<1>1. size \in [Log -> Nat \cup {NoRoot}] /\ queue \in [Log -> Nat] /\ file \in Configs
  BY DEF IInv, TypeInv
<1>2. UNCHANGED <<size, queue>> /\ file' \in Configs
  BY <1>1 DEF EditConfig, ListLogs, BecomeMaster, JobDone, PassFails, CommitFails, EndPass,
              Signal, SleepEnds, Exit, Crash, Goto
<1>3. CASE Exit \/ Crash
  BY <1>1, <1>2, <1>3, EndIInv DEF Exit, Crash
<1>4. CASE ~(Exit \/ Crash)
  <2>1. UNCHANGED <<logs, at, routes>>
    BY <1>4 DEF EditConfig, ListLogs, BecomeMaster, JobDone, PassFails, CommitFails, EndPass,
                Signal, SleepEnds, Goto
  <2>2. /\ jobs' \subseteq IF pc' = "pass" THEN GetActiveLogIDs(logs) ELSE {}
        /\ pc' = pc \/ (Serving /\ pc' \in {"sleep", "pass", "tidy"})
    BY <1>4 DEF EditConfig, ListLogs, BecomeMaster, JobDone, PassFails, CommitFails, EndPass,
                Signal, SleepEnds, Goto, Serving, IInv, JobsInv
  <2> QED BY <1>1, <1>2, <2>1, <2>2, SetUpKept
<1> QED BY <1>3, <1>4

\* A submission changes the queue of one log, which is active.
LEMMA SubmitStep ==
    ASSUME IInv, NEW p \in DOMAIN routes, Submit(p)
    PROVE  /\ IInv'
           /\ \E i \in 1 .. Len(logs) :
                /\ logs[i].id \in Log
                /\ logs[i].state = "ACTIVE"
                /\ UNCHANGED size
                /\ queue' = [queue EXCEPT ![logs[i].id] = @ + 1]
<1>1. PICK i \in 1 .. at - 1 : p = logs[i].prefix /\ routes[p] = logs[i].id
  BY DEF IInv, RoutesInv
<1>2. pc # "down" /\ FromFile(logs) /\ logs \in Seq(Block) /\ i \in 1 .. Len(logs)
  BY DEF IInv, TypeInv, ProgressInv, Submit, Serving
<1>3. logs[i].id \in Log /\ GetTree(logs[i].id) = logs[i]
  BY <1>2, BlockTypes, GetTreeFinds
<1>4. /\ queue' = [queue EXCEPT ![logs[i].id] = @ + 1]
      /\ logs[i].state = "ACTIVE"
      /\ UNCHANGED <<file, size, pc, logs, at, routes, jobs>>
  BY <1>1, <1>3 DEF Submit, signer, bounds
<1>5. queue' \in [Log -> Nat]
  BY <1>3, <1>4 DEF IInv, TypeInv
<1>6. IInv'
  BY <1>4, <1>5, SetUpKept DEF IInv, TypeInv, JobsInv
<1> QED BY <1>2, <1>3, <1>4, <1>6, Zenon

\* A pass changes one log, which is active.
LEMMA PassStep ==
    ASSUME IInv, NEW l \in jobs, ExecutePass(l)
    PROVE  /\ IInv'
           /\ \E i \in 1 .. Len(logs) :
                /\ logs[i].id = l
                /\ logs[i].state = "ACTIVE"
                /\ \A k \in Log \ {l} : size'[k] = size[k] /\ queue'[k] = queue[k]
<1>1. pc = "pass" /\ FromFile(logs) /\ logs \in Seq(Block)
  BY DEF IInv, TypeInv, ProgressInv, ExecutePass, JobDone
<1>2. PICK i \in 1 .. Len(logs) : logs[i].id = l /\ logs[i].state = "ACTIVE"
  BY <1>1 DEF IInv, JobsInv, GetActiveLogIDs
<1>3. l \in Log
  BY <1>1, <1>2, BlockTypes
<1>4. PICK batch \in Nat : /\ batch <= queue[l]
                           /\ size' = [size EXCEPT ![l] = @ + batch]
                           /\ queue' = [queue EXCEPT ![l] = @ - batch]
  <2> DEFINE batch == IF queue[l] < BatchSize THEN queue[l] ELSE BatchSize
  <2>1. batch \in Nat /\ batch <= queue[l]
    BY <1>3, ServerAssumption DEF IInv, TypeInv
  <2>2. size' = [size EXCEPT ![l] = @ + batch] /\ queue' = [queue EXCEPT ![l] = @ - batch]
    BY DEF ExecutePass
  <2> HIDE DEF batch
  <2> QED BY <2>1, <2>2, Zenon
<1>5. /\ size[l] \in Nat /\ queue[l] \in Nat
      /\ size' \in [Log -> Nat \cup {NoRoot}]
      /\ queue' \in [Log -> Nat]
      /\ \A k \in Log \ {l} : size'[k] = size[k] /\ queue'[k] = queue[k]
  BY <1>3, <1>4 DEF ExecutePass, IInv, TypeInv
<1>6. \A k \in Log : size[k] # NoRoot => size'[k] # NoRoot
  BY <1>3, <1>4, <1>5 DEF NoRoot, IInv, TypeInv
<1>7. /\ UNCHANGED <<file, pc, logs, at, routes>>
      /\ jobs' \subseteq IF pc' = "pass" THEN GetActiveLogIDs(logs) ELSE {}
  BY <1>1 DEF ExecutePass, JobDone, IInv, JobsInv
<1>8. IInv'
  BY <1>5, <1>6, <1>7, SetUpKept, ZenonT(30) DEF IInv, TypeInv
<1> QED BY <1>2, <1>5, <1>8

LEMMA NextIInv == IInv /\ [Next]_vars => IInv'
<1> SUFFICES ASSUME IInv, [Next]_vars PROVE IInv'
  OBVIOUS
<1>1. CASE UNCHANGED vars
  <2>1. UNCHANGED <<file, size, queue, pc, logs, at, routes, jobs>>
    BY <1>1 DEF vars
  <2> QED BY <2>1, SetUpKept DEF IInv, TypeInv, JobsInv
<1> QED BY <1>1, StartIInv, CheckIInv, InitLogIInv, AddRoutesIInv, ServeIInv, DiskKept,
           SubmitStep, PassStep DEF Next

\* The start-up and the signer keep the set-up, the roots and the jobs in step.
THEOREM Invariant == Spec => []IInv
BY InitIInv, NextIInv, PTL DEF Spec

-----------------------------------------------------------------------------

\* While main serves, each block of its config has the route of its prefix, and
\* no log is reached by two, whatever the config files.
THEOREM RoutesAreSeparate == Spec => []RoutesSeparate
<1>1. IInv => RoutesSeparate
  <2> SUFFICES ASSUME IInv, Serving PROVE RoutesSeparate
    BY DEF RoutesSeparate
  <2>1. logs \in Seq(Block) /\ FromFile(logs) /\ at - 1 = Len(logs)
    BY DEF IInv, TypeInv, ProgressInv, Serving
  <2>2. \A b \in BlocksOf(logs) : routes[b.prefix] = b.id
    BY <2>1 DEF IInv, RoutesInv, BlocksOf
  <2>3. ASSUME NEW p \in DOMAIN routes
        PROVE  \E i \in 1 .. Len(logs) : p = logs[i].prefix /\ routes[p] = logs[i].id
    BY <2>1, SMTT(30) DEF IInv, RoutesInv
  <2>4. ASSUME NEW p \in DOMAIN routes, NEW q \in DOMAIN routes, routes[p] = routes[q]
        PROVE  p = q
    <3>1. PICK i \in 1 .. Len(logs) : p = logs[i].prefix /\ routes[p] = logs[i].id
      BY <2>3
    <3>2. PICK j \in 1 .. Len(logs) : q = logs[j].prefix /\ routes[q] = logs[j].id
      BY <2>3
    <3> QED BY <2>1, <2>4, <3>1, <3>2, SameBlock
  <2> QED BY <2>2, <2>4 DEF RoutesSeparate
<1> QED BY <1>1, Invariant, PTL

\* When main serves, every log of its config has a root, whatever start-ups
\* ended half way before.
THEOREM AllInitialised == Spec => []ServedLogsInitialised
<1>1. IInv => ServedLogsInitialised
  <2> SUFFICES ASSUME IInv, Serving PROVE ServedLogsInitialised
    BY DEF ServedLogsInitialised
  <2>1. logs \in Seq(Block) /\ at - 1 = Len(logs)
    BY DEF IInv, TypeInv, ProgressInv
  <2> QED BY <2>1 DEF IInv, RootsInv, ServedLogsInitialised, BlocksOf
<1> QED BY <1>1, Invariant, PTL

\* What a step may do to the disk while main serves: change one active log.
\* Draining logs are not listed by GetActiveLogIDs, so they stay as they are too.
LEMMA InactiveFixedStep ==
    ASSUME IInv, [Next]_vars, Serving, NEW b \in BlocksOf(logs), b.state # "ACTIVE"
    PROVE  size'[b.id] = size[b.id] /\ queue'[b.id] = queue[b.id]
<1>1. logs \in Seq(Block) /\ FromFile(logs) /\ pc \notin {"down", "check", "init", "routes"}
  BY DEF IInv, TypeInv, ProgressInv, Serving
<1>2. PICK n \in 1 .. Len(logs) : b = logs[n] /\ b.id \in Log
  BY <1>1, BlockTypes DEF BlocksOf
<1>3. ASSUME NEW i \in 1 .. Len(logs), logs[i].state = "ACTIVE" PROVE logs[i].id # b.id
  BY <1>1, <1>2, <1>3, SameBlock
<1>4. CASE \E p \in DOMAIN routes : Submit(p)
  <2>1. PICK i \in 1 .. Len(logs) :
            /\ logs[i].id \in Log
            /\ logs[i].state = "ACTIVE"
            /\ UNCHANGED size
            /\ queue' = [queue EXCEPT ![logs[i].id] = @ + 1]
    BY <1>4, SubmitStep
  <2> QED BY <1>2, <1>3, <2>1 DEF IInv, TypeInv
<1>5. CASE \E l \in jobs : ExecutePass(l)
  BY <1>2, <1>3, <1>5, PassStep
<1>6. CASE UNCHANGED vars
  BY <1>6 DEF vars
<1>7. CASE Start \/ Serve
  BY <1>1, <1>7 DEF Start, Serve
<1>8. CASE CheckLog \/ InitLog \/ AddRoutes
  BY <1>1, <1>8 DEF CheckLog, InitLog, AddRoutes
<1> QED BY <1>4, <1>5, <1>6, <1>7, <1>8, DiskKept DEF Next

\* While the server serves, a log that its config does not call active takes no
\* new leaf, and no new root unless it is draining.
THEOREM StatesAreRespected == Spec => StatesRespected
<1>step. ASSUME IInv, [Next]_vars, NEW b \in BlocksOf(logs), Serving, b.state # "ACTIVE"
         PROVE  /\ size'[b.id] + queue'[b.id] = size[b.id] + queue[b.id]
                /\ b.state # "DRAINING" => size'[b.id] = size[b.id]
  BY <1>step, InactiveFixedStep, Zenon
<1>1. IInv /\ [Next]_vars =>
        [\A b \in BlocksOf(logs) : Serving /\ b.state # "ACTIVE" =>
            /\ size'[b.id] + queue'[b.id] = size[b.id] + queue[b.id]
            /\ b.state # "DRAINING" => size'[b.id] = size[b.id]]_vars
  BY <1>step, Zenon
<1> QED BY <1>1, Invariant, PTL DEF Spec, StatesRespected

=============================================================================
