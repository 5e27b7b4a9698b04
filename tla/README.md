# A TLA+ model of ct-log

ct-log is a Certificate Transparency log: Trillian's log server, its signer and
the CT front end in one process, over a local LevelDB and a remote object store.
This directory models the parts of it that hold or change state, checks them
with TLC and proves the main safety properties with TLAPS.

## The system

| part | state | operations |
|---|---|---|
| add-chain path (`ct/log_storage.go`, `ct/tree_tx.go`) | one goroutine per request: the root it read, where it is | look up the cache, look up the identity index, fetch a duplicate from the object store, write the queue row (synced), fill the cache, answer |
| sequencing pass (Trillian's `IntegrateBatch` on a `logTreeTX`) | the root and frontier it began from, the rows it read, the batch it will write | dequeue up to a cutoff, rebuild the tree, upload the leaves, sign, commit |
| transaction state machine (`ct/fsm.go`) | its state | `emit`, before every method of a transaction |
| leaf cache (`ct/cache`) | a map, a slice with the same keys, a lock | `Set` with random eviction, `Get`, the janitor's `DeleteExpired` |
| quota manager (`ct/quota_manager.go`) | a count per log | `GetTokens`, `PutTokens`, the goroutine of `WatchLog` |
| local database (`custom/local.go`) | queue rows, root, frontier, two hash indexes, subtrees by revision | synced writes, one atomic transaction per pass, ordered seeks |
| object store (`custom/remote.go`) | objects of 1024 leaves | read, merge and write back; read leaves of several objects |
| frontier (`custom/frontier`) | roots of the right-most perfect subtrees | `Append`, `Head`; gob to and from the database |
| readers (`ct/read_tree_tx.go`), the worker `devdata/get-entries.js` | the root or tree size they read first | leaves by index, range and hash; entries |
| start-up and shutdown (`cmd/server/main.go`) | the log it sets up, the routes | read the config, check and initialise each log, add its routes, serve; a signal ends the signer's loop |
| signer loop (Trillian's `LogOperationManager`, as `main` sets it up) | election runners, the logs it is master for, the jobs of a round | list the active logs, serve them one after the other |
| configuration (`config`, `ct/read_log_tx.go`) | the trees, read once per start | `FromFile`, `GetTree`, `GetActiveLogIDs` |
| log tester (`cmd/admin/ct-log-tester`) | what it has submitted and been answered | fill an empty log in stages, submit again, compare |
| metrics, cache headers | none | not modelled |

What makes it hard: requests run concurrently with each other, with the signer,
the janitor and the quota refresher; the process may end anywhere and is
restarted; uploads fail with or without effect and are retried with other leaves
at the same indexes; LevelDB and the object store are not updated together;
objects are read through a cache; each request works with a root that may be
stale; several logs share one process, one database and one signer.

What must be true: a leaf that was promised is never lost and is integrated in
the end; the log only grows; everything a signed root commits to can be read;
indexes, subtrees and frontier describe that root; readers are answered from the
root they hold; caches and counters never corrupt any of this.

`PROJECT.json` lists the parts, the hazards with the lines where they bite, the
source lines of every definition, and the runs.

## Modules

* `AppendOnlyLog` - what a CT log promises, and nothing else.
* `CTLog` - the core: add-chain requests, the signer, LevelDB, the object store,
  crashes and restarts, for one log. One action per step between two shared
  accesses. A leaf is named by the request that brings it; a root hash is the
  sequence of leaves it commits to (no collisions). LevelDB's commit is one step;
  the uploads of a pass are one step per object, in any order. `ImplementsLog`
  maps it to `AppendOnlyLog`. `MCCTLog` has its instances.
* `TreeTx` - one `logTreeTX` and its state machine under a caller that makes any
  calls in any order but obeys `ReadWriteTransaction` (stops at the first error).
  What it passes on are the leaves it dequeued and the tree built from them. The
  state machine allows a commit right after the dequeue, which deletes the rows
  and stores no root: `LeavesConserved` names it as its one exception. Trillian's
  sequencer commits there only if it got no leaves. A dequeue returns any number
  of the rows, as the counts do not tell how many lie beyond the cutoff. The
  transaction's frontier is the real one: it is decoded from disk, appended to
  and stored with the root.
* `LeafCache` - the cache, with the clock read once per element in a sweep and
  before the lock in `Set`. `CTLog` relies only on this: an entry is what was
  put there, or gone.
* `QuotaManager` - one log's count, the requests Trillian's interceptor charges,
  the refresher, restarts.
* `Frontier` - `Append`, `Head` and gob as operators for `TreeTx`, and a recursive
  definition of the RFC 6962 tree hash to compare them with.
* `SubtreeStore` - row keys of subtrees and the backward seek of `getSubtree`,
  over lexicographically ordered keys.
* `LeafReader` - readers and the get-entries worker against a signer that
  uploads, fails and commits. Two kinds of fault of the object store
  are modelled, up to `MaxFaults` of them: an earlier version of an object may
  linger in the cache at the edge, and an upload that was lost may still land,
  over what was written since. The worker may work with any tree size the log
  ever had.
* `LogServer` - the process with several logs: `main` step by step, the signer's
  loop, signals, crashes, restarts, and an operator who edits the config between
  them. A log is the size of its tree and of its queue. `FromFile` is what the
  config must satisfy; a block of it has an id, a prefix, a state, and whether
  its keys and times parse and its files load. The executor takes the jobs of a
  round in any order, which includes the code's. `MCLogServer` has the files.
* `LogTester` - extends `CTLog` by the first two stages of the log tester, which
  then is the only client. It is sequential, so time passes between two of its
  submissions, and the cache's lifetime of an hour is longer than it takes to
  integrate a leaf or to answer a request. Where it is in its test follows from the
  requests it has made and the answers, so it has no variables. A behaviour of `MCLogTester` has
  either the tester or other clients, never both.
* `CTLogProofs`, `LogTesterProofs`, `TreeTxProofs`, `SubtreeStoreProofs`,
  `LeafReaderProofs`, `LeafCacheProofs`, `QuotaManagerProofs`, `LogServerProofs` -
  proofs. Those of `Frontier` are in `TreeTxProofs`.

Definitions marked `Mutant:` are plausible bugs; replacing the definition that
follows by one of them makes TLC report the property it is paired with.

## Runs

| run | instance | shows |
|---|---|---|
| `ctlog` | 3 requests, 2 of one certificate, or the tester with 2 + 1 certificates and a duplicate of each stage; cache of 1; objects of 2 leaves; passes of 2; no faults; deadlock checked | `AnswersMatchRequests`, `IndexesMatchLog`, `DuplicatesSettle`, `TesterAccepts`, `TesterInv` (the invariant of its proof) |
| `ctlog_faults` | 2 requests for one certificate; objects of 1 leaf, so a pass uploads several; one fault of any kind; one forced empty root | `TypeOK`, `PromisedLeavesKept`, `PublishedLeavesReadable`, `IntegratedOnce`, `RootsAdvance`, `ImplementsLog`, and under fairness `PromisesHonoured` |
| `treetx` | trees of up to 34 leaves, passes of up to 3, any calls, any of them failing | `DiskConsistent`, `LeavesConserved`, `HeadIsTreeHash`, `RootsArePerfect` |
| `leafcache` | 4 keys, room for 3, clock to 3 | `TypeOK`, `Consistent`, `NeverPanics`, `SweepDeletesHalf`, `LiveItemsKept`, and under fairness `ExpiredEventuallyDeleted` |
| `quota` | limit 2, 5 requests, 2 restarts or failed reads | `TypeOK`, `OvershootBounded`, and under fairness `CountRecovers` |
| `server` | 2 logs, 13 config files (good, partly frozen or draining, with shared ids or prefixes, bad keys, times, states, roots), 2 edits, 2 signals or crashes | `RoutesSeparate`, `ServedLogsInitialised`, `StatesRespected`, and under fairness `EventuallyServes`, `EveryLogProgresses` |
| `subtreestore` | 2 trees, 4 prefixes that padding confuses, revisions of 3 commits | `FindsLatest`, `SnapshotsStable` |
| `leafreader` | 3 leaves in batches of 2, passes of up to 3, requests of up to 2 indexes, a range, 2 hashes or entries; one stale copy or lost upload | `AnswersFitRoot`, `EntriesFitRoot`, `NoFalseAlarm`, `RootCovered` |
| `ctlog_index0` | the requests and faults of `ctlog_faults`, two noise values, no forced root | violates `DuplicatesReported` |
| `ctlog_opentx` | as `ctlog_index0` | violates `TransactionsClosed` |
| `leafreader_hashes` | as `leafreader`, no faults | violates `MatchesByHash` |
| `server_draining` | as `server`, one leaf, 1 edit, 1 signal or crash, the same fairness | violates `DrainingLogsDrain` |

Bounds. Duplicates are recognised only at positive indexes, so `ctlog` has a
third request to put a leaf in front; one object boundary and one batch boundary
are crossed with two leaves each. The tester's 2 + 1 certificates are the fewest
with a duplicate of a leaf in the tree and one of a leaf that may still be
queued; the sizes of the real stages (30, 45) differ only in how many nodes and
batches they span. In `server` one log may be frozen, draining, removed and put
back, or wait for the other; two edits and two stops allow a start-up that ends
half way, a changed config and a second failure. Three leaves in batches of two
(`leafreader`) make a full batch and a partial one, and an abandoned pass that
differs from the one after it. `ctlog_faults` takes one fault because the proofs
cover any number; one noise value suffices there, since rows never share
a key and two rows of one instant are in `ctlog`. 34 leaves take the frontier
through six positions. Two expired items suffice for a sweep to skip one; with
room for three it also goes on past the swap.
Symmetry is used over requests with the same certificate (`ctlog`) and leaves
(the `leafreader` runs), never where a
liveness property is checked. Deadlock is not checked in
`ctlog_faults` (with a transaction left open and the faults used up, nothing
moves, and that is what LevelDB does), nor in `ctlog_index0` and
`ctlog_opentx`, nor in `subtreestore` (it stops at the revision bound).

Fairness. `CTLog`: the signer's loop runs for ever (`OperationLoop`), the
service manager restarts the process, storage answers in the end, and the clock
advances between roots (strong fairness of signing at a later time, because
passes may be restarted in between). `QuotaManager`: the refresher runs for ever
and handlers have deadlines. `LeafCache`: the ticker fires for ever. `LogServer`:
the supervisor restarts the process (`Restart=always` in
`devdata/ct-log.service`), `main` and the loop go on, election runners without
rivals win, and a log whose turn comes again and again is served once (strong
fairness: passes may fail in between, but not for ever). Requests, edits, crashes
and failures get none.

## Findings

1. A certificate at index 0 is never reported as a duplicate
   (`ct/tree_tx.go:118`, `seq > 0`): run `ctlog_index0`.
2. `LocalTx.Commit` does not discard a transaction whose commit failed
   (`custom/local.go:368`); all writes then wait until a restart: run
   `ctlog_opentx`, in a pass that has rows to write. `PromisesHonoured` has to except this case.
3. A log set to `DRAINING` is not listed (`ct/read_log_tx.go:33`), so that leaves
   still in its queue stay there: run `server_draining`. Trillian says of the
   state that such a tree "will continue to integrate queued entries".
   `StatesRespected` is what holds: only active logs accept leaves, and only
   active or draining ones may integrate them.
4. `GetLeavesByHash` with several hashes out of tree order reports a corrupt leaf
   (`ct/read_tree_tx.go:136`): run `leafreader_hashes`. With hashes in tree order,
   and so with one hash, as the CT front end asks, `NoFalseAlarm` holds.

Also seen, without a run:

* A certificate in the tree is queued once more if another leaf of it, from a
  submission that ran at the same time, is integrated after `queueLeaf`'s
  transaction read the root and before it reads the index. This takes four
  submissions of one certificate; `DuplicatesSettle` says that it comes to an end.
* `DeleteExpired` skips the key it swaps in (`ct/cache/cache.go:96`), so one call
  does not "Delete all expired items from the cache." (line 86).
  `SweepDeletesHalf` and `ExpiredEventuallyDeleted` are what does hold.
* `max_unsequenced_leaves`, "the max number of unsequenced leaves to allow"
  (`devdata/config.dev.yaml:28`), is exceeded when `WatchLog` overwrites the count
  while requests hold tokens, when a failed iterator counts 0, and after a
  restart. `OvershootBounded` counts what is forgotten in these ways as slack and
  shows that nothing else lets more in; it does not bound the slack itself.
* `keyList.insert` panics if it draws the smallest int.
* `config.go:152` names the wrong log in its message (the index into a subslice).
* A transaction left open by one log blocks the writes of all (`EveryLogProgresses`
  excepts it).
* An upload that lands late may replace an object by a shorter one; then a pass that
  needs the lost leaves is refused with a gap until someone repairs the object.
* `PutLeaves` merges into what it reads. Given a stale copy of an object that an
  abandoned pass wrote, it puts that pass's leaf back in place of the published
  one, whose content is then gone. `RootCovered` shows only that the place is
  filled, and `AnswersFitRoot` that readers through the transaction do not take
  the wrong leaf, if they ask by index or by hash in tree order.
* The tester's duplicates are all answered from the cache, which holds more
  entries for longer than the test needs, so it never exercises the index.

## Proofs

For every value of the constants that satisfies the named assumptions (sizes are
positive, identity hashes are a function of the request, the random suffixes are
numbers, the leaves of `LeafReader` and the prefixes of `SubtreeStore` are finitely
many; a configured `leaf_cache_size` of 0 keeps the positive default,
`cmd/server/main.go:76`; the cache holds the certificates of the log tester, or the
tester submits only one of its last stage again), and for any number of requests, faults and restarts:

* `CTLogProofs`: `TypeOK`, `PromisedLeavesKept`, `AnswersMatchRequests`,
  `PublishedLeavesReadable`, `IntegratedOnce`, `IndexesMatchLog`, `RootsAdvance`,
  `DuplicatesSettle` and the refinement of `AppendOnlyLog` (`ImplementsLog`).
* `LogTesterProofs`: `TesterInv` and `TesterAccepts`, for stages of any size and any
  interleaving with the signer, and that a log under test is a log (`TestIsLog`), so
  that what is proved of `CTLog` holds during the test.
* `TreeTxProofs`: `DiskConsistent`, `LeavesConserved`, and of the frontier
  `RootsArePerfect` and `HeadIsTreeHash`, for trees of any size.
* `SubtreeStoreProofs`: `FindsLatest` and `SnapshotsStable`, for any finite set of
  prefixes and any tree ids.
* `LeafReaderProofs`: `RootCovered`, `AnswersFitRoot`, `EntriesFitRoot` and
  `NoFalseAlarm`, for any finite set of leaves, batch size and requests.
* `LeafCacheProofs`: `TypeOK`, `Consistent`, `LiveItemsKept`, `SweepDeletesHalf`, and
  `NeverPanics` if the smallest int is not among the samples.
* `QuotaManagerProofs`: `TypeOK` and `OvershootBounded`.
* `LogServerProofs`: `RoutesSeparate`, `ServedLogsInitialised` and
  `StatesRespected`, for any logs and any set of config files.

`PublishedLeavesReadable` rests on `CTLog`'s object store, whose reads are current
and whose failed writes do not land late; what happens otherwise is under
"Findings".

The argument for `CTLog` is the invariant `IInv`. The properties are not
inductive: a commit needs to know that what it publishes is in the store, that
the root it extends is still the root, and that the rows it deletes are those it
integrates; an answer needs to know that what the cache or the index leads to is
durable and of the right certificate. `QueueInv` (one row per leaf),
`RequestInv` (a request's leaf is durable exactly from its write on, and the
index it follows is right for the root it read), `CacheInv` (cached leaves are
durable and filed under their identity) and `PassInv` (only the pass itself
changes the root it began from, its rows stay queued, what it has uploaded is
stored) say so. `NextIInv` proves that every step keeps `IInv`, one named step per
action; the commit is the longest. `DuplicatesSettle` needs one thing more
(`SettledIndex`): the index entry of a certificate changes only in a commit that
integrates a leaf of it, so that with none queued it stays. For the quota the
strengthening is `Covered`: what waits or is on its way is covered by the count,
except for what was taken off it.

For `LogTester` the invariant is `TesterInv`, inductive together with `IInv`.
`TesterAccepts` speaks of the moments at which the tester looks; between them a
second leaf of a certificate, or two leaves in the wrong order, could be on their
way. `ThreadInv` says that the tester is one thread and the only client. `FirstInv`
says that a leaf is the first submission of its certificate, and the answer of all
of them. `TreeInv` says that the tree and the rows of a pass continue each other in
the order of the certificates, for which `KeyInv` has the keys of the queue in the
order of submission: time passes between two submissions, so a later row has a
greater key, and a pass takes rows from the front. `AgainInv` is why a certificate
submitted again is recognised: those of the first stage are in the tree, at a
positive index, before the request reads its size, because the tester has waited
for them; those of the second are in the cache until they are in the tree. The cache
drops nothing that the tester relies on if it has room for all its certificates: it
holds 75000 by default, and the two stages need 45. `CacheAssumption` says so, or that
one certificate is submitted again right after it was cached; that is the instance
that TLC checks, whose cache of one entry makes the other duplicates go through the
index.

For `TreeTx` the strengthening (`StateInv`) says what a transaction holds in each
state of the machine: nothing new before `UpdateSequencedLeaves`, then frontier
and indexes of the new size, then subtrees too, then the root; so the commit that
the machine allows writes all of them or none of them. For `LogServer` it says how far
`main` has got (`ProgressInv`), that the logs it is done with have a root
(`RootsInv`) and a route each (`RoutesInv`), and that the executor's jobs are
active logs of the config (`JobsInv`); distinct ids, which `FromFile` checks, make
the look-up by id find the block that the route or the job came from.

For the frontier it is `FrontInv`: the frontier on disk, decoded, and the one of
the transaction are `Perfect` for the leaves counted under them, that is, position
`i` is nil or the root of `2^(i-1)` leaves as the binary digit says, and there are
as many positions as digits. Adding 1 to a number clears its low ones and sets the
first zero (`DigitsOfNext`, `Carry`), which is what `Append` does to the positions
(`AppendedIsPerfect`); `Head` adds the digits up from the lowest, and the sum is
split by RFC 6962 at the top digit (`HashOfHalves`, `HeadIsRoot`). The round trip
through gob is safe because no root is the empty slice (`DecodedIsEncoded`).

For `SubtreeStore` the invariant (`StoreInv`) is that the rows are those of the
subtrees stored and of the roots, each under its own key, and that no subtree is
newer than the root of its tree. The work is in the keys: although prefixes are
padded, a key determines its row (`RowKeyInjective`), the rows of one subtree are
in the order of their revisions (`RowOrder`), and what the store has between the
stop key and the key sought are rows of that subtree, not of another prefix, tree
or table (`OnlyRows`); so the last of them is the latest. A commit writes at a
revision that no row has yet, above those that readers ask for, hence
`SnapshotsStable`.

For `LeafReader` the disk's part (`DiskInv`) says that the objects are long enough
for the root and for the batches the pass has uploaded if no upload was lost
(`CoverInv`), and hold the right leaves if no copy is stale either (`ContentInv`).
The second is about the pass as well as the log because only the batch that a pass
has uploaded may be relied on when it commits. The reader's part (`ReaderInv`)
says that it wants nothing beyond the root it read, which the log keeps as a
prefix (`RequestInv`), that the sequence numbers it fetches are the sorted ones of
its hashes (`HashInv`), and that what it has so far is right (`AnswerInv`).
`SweepInv` is the argument for `SweepDeletesHalf`: the loop of `DeleteExpired` has
passed over no more overdue keys than it has deleted.

Induction. The library's induction theorems take an operator, which the provers
cannot instantiate. The proofs use the principle for sets instead
(`NaturalInduction`: a set that has 0, and `n + 1` with every `n`, has all numbers;
it follows from the library's theorem that `<` is well-founded on the naturals). A
recursive function is first shown to exist, by induction on its domain, so that
its equation may be used; then what it computes is proved by a second induction.
`Pow2`, `TreeHash`, `Carried`, `AppendedUpTo`, `FrontierHead` and the filter `Known`
are treated this way.

Only model-checked: the liveness properties (`PromisesHonoured`,
`ExpiredEventuallyDeleted`, `CountRecovers`, `EventuallyServes`,
`EveryLogProgresses`), as the prover has neither fairness nor `ENABLED`. Every
safety property of a passing run is also a theorem.

## Not modelled

* Row keys are assumed distinct (a nanosecond and 32 random bits).
* In `CTLog` reads of the object store return the last write, and a write that
  was reported failed takes effect at once or never; what stale reads and late
  writes do to readers and to the objects is in `LeafReader`.
* `CTLog` is one log. Logs share the process, the database and the signer but no
  rows: `LogServer` has what is shared, `SubtreeStore` two trees because its
  iterator crosses them.
* Of the tester: the requests to an empty log (their answers come from Trillian
  and the CT front end), the stages of 300 and 530 entries, and the rate-limit
  stage, which depends on timing.
* Of `main`: addresses, TLS, connection limits. Of the config: the checks of
  single values that end in a constant of another module.
* Hash collisions, signatures, HTTP, JSON, certificate checks, Trillian's subtree
  cache and proof construction (library code), cache headers and metrics (no
  state), the generator of the client stubs (no part of the server).

## Plan

1. Built: the modules, runs and proofs above.
2. Next: readers of `CTLog`'s own state in place of the signer in `LeafReader`;
   late uploads and stale reads as an option of `CTLog`'s environment.
3. Then: the larger stages of the tester, with readers of that kind.
