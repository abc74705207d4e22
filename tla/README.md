# Formal models of JellyTorrent

TLA+ models of the concurrent and crash-prone parts of JellyTorrent, a
BitTorrent client with a DHT node, written in Go. TLC checks them on small
instances; TLAPS proves the most important results for every instance.

`PROJECT.json` lists the runs, the map from definitions to source lines, the
hazards and the theorems. Run a model with `tlc -config X.cfg M`, and check
proofs with `tlapm M.tla`.

## 1. Inventory

### Download (internal/downloader, internal/peer)

* **PieceManager** (`piece_manager.go`, `selector.go`). State: for each piece
  pending, in progress or completed, its owner's address, its bytes, its
  availability; the counter of completed pieces, the channel `done`, the
  endgame flag, one cancel channel per piece, the Have subscriptions. Its
  methods are called by all workers and guarded by one mutex; Have
  notifications have a second one.
* **Worker** (`worker.go`, `peer.go`). One goroutine per peer: connect,
  handshake, bitfield, unchoke, then the loop Assign, GetPiece, Complete or
  Release; waits for Have messages when it finds nothing to do; its deferred
  cleanup gives back what it owns.
* **Downloader** (`downloader.go`). Starts the workers, the PEX worker spawner,
  the goroutine that closes the results channel after the last worker, and
  collects the results until that channel is closed or the deadline passes.
* **PEXManager** (`pex_manager.go`). Addresses seen, a bounded channel of
  addresses discovered, and for each peer what it was last told.
* **TrackerUpdater** (`tracker_updater.go`). Periodic announces, with the
  progress read from the piece manager.

Hard here: workers racing for the same piece (above all in endgame, where
duplicates are wanted), a worker that dies at any point, completion by one
while another releases, channels closed exactly once, bounded channels that
drop, goroutines started by PEX while others end, and termination.

### Storage (internal/storage)

* **DiskStore** (`disk_store.go`). One file per piece and a bitfield file that
  is replaced by rename. A later session resumes from it without checking
  hashes. Hard: a crash or an error between any two system calls.

### Seeding (internal/seeder)

* **Seeder** and **SeedPeer**: accept loop with a limit on peers, a goroutine
  per connection, Have broadcast, shutdown. **Choker**: rounds that give the
  unchoke slots to interested peers. Hard: flags shared without a lock, the
  limit checked before the handshake and used after it, shutdown with
  connections in every phase.

### DHT (internal/dht)

* **RoutingTable** and **Bucket**: at most K nodes a bucket, oldest first;
  replacement of dead nodes by a goroutine that pings the oldest one; failure
  counts; FindClosest. Hard: the goroutine acts on a node it looked up two
  seconds ago.
* **TransactionManager** and **Server** (krpc): pending queries by transaction
  ID. Hard: timeouts against late responses, reuse of two-byte IDs.
* **DHT**: lookups in rounds of concurrent queries, announce with tokens,
  maintenance goroutines, saving the table, a node ID that may be regenerated.
* **TokenManager**, **PeerStore**, **RateLimiter**: secrets rotated every five
  minutes, announced peers with a time to live, counters per IP.

### Trackers (internal/tracker)

* **UDPTracker**: connection ID valid for a minute, retries with exponential
  deadlines. **MultiTracker**: the first tracker that answers. **HTTP**: one
  request.

### Without interesting state

bencode, metainfo, magnet links, KRPC message encoding, BEP 42 checksums,
metrics, logging, configuration and the command line.

## 2. Plan

| stage | modules | question |
|---|---|---|
| 1 (done) | `PieceManager`, `Downloader`, `DownloadBoard`, `DownloaderProofs` | is a piece ever lost, duplicated, recounted; does Download return |
| 1 (done) | `DiskStore`, `DiskStoreProofs` | what a resumed session may trust |
| 1 (done) | `Seeder` | are the slots respected, are peers told their state, does Run return |
| 1 (done) | `RoutingTable`, `DHTTable`, `DHTTableProofs` | who is evicted, by goroutines that looked their victim up two seconds ago |
| 1 (done) | `Transactions` | does a query always end; late and duplicated responses, reused IDs |
| 2 (done) | `BlockExchange` | what happens inside `GetPiece`: chokes, cancels and stale blocks against the pipeline |
| 2 (done) | `UDPTracker`, `TrackerSession` | two goroutines on one socket; retries, failover, what is announced |
| 2 (done) | `DHTLookup` | find_node, get_peers and announce: what a lookup misses, tokens that age, termination |
| 3 (done) | `DownloaderProofs`, more | `HavesServable` |
| 3 (done) | `SeederProofs` | slots, messages in step with the choker's state |
| 3 (done) | `TrackerProofs` | `OwnAnswer` and `NothingLeftIsComplete` for every number of retries and every length |
| 3 (done) | `BlockExchangeProofs` | `BlocksAsRequested` for every pipeline and every number of blocks |
| 3 (done) | `DHTLookupProofs` | `SearchFinds`, `NearestStores` and `NeverRefused` for every network of nodes |
| 4 | `DiskStore`, `BlockExchange` | abstract specifications of a durable set of pieces and of a transfer, and their refinements |
| later | `PexManager` | are the deltas sent to a peer a faithful account of the connected peers |

## 3. Modules

### PieceManager

Action fragments, one per method of `PieceManager`: a method holds `pm.mu` from
its first to its last statement, so it is one step. `Complete` is two:
everything under `pm.mu` (`Complete`, with `Persist` for the call of the disk
store) and the notification of the Have subscribers under `haveSubsMu`
(`NotifyHave`). The bytes of a piece are abstracted to where they are: `data`
(memory) and `stored` (marked in the disk store). `WriteResult` has the three
ways `DiskStore.WritePiece` can end; the third, file written and bit set but
bitfield file not saved, leaves the piece both in memory and on disk.

### Downloader

Extends `PieceManager`. `pc[w]` is the statement that worker `w` is about to
execute, one label per critical section or blocking call:

| labels | code |
|---|---|
| connect, setup, setupUnchoke, register, subscribe | `Run`, `connect`, `setup` |
| loop, assign, finished, endgame, get, release*, recoverUnchoke, complete, notify, send | `pieceLoop` |
| wait, waitRead, serve, pendingFor, reUnchoke | `waitForNewPieces` |
| unsubscribe, releaseAll, removeAvailability | the deferred calls and `cleanup` |

The other goroutines are the actions `SpawnWorker` and `StopSpawner`
(`pexWorkerSpawner`), `CloseResults` (the closer), `CollectOne`, `CollectAll`
and `CollectTimeout` (`collectResults`) and `Timeout` (the context's deadline).
Channels that are only closed have the states open, closed and panic; the last
is entered by closing twice or by sending after the close, and is terminal.

Abstractions, each with its reason:

* `GetPiece` is one step with its four outcomes (verified piece, error or wrong
  hash, choked, cancelled): blocks never leave it, and it verifies the hash.
* `IsEndgame` and `CancelCh` are one step: endgame never ends.
* `sendPendingHaves` and the select after it are one step: the sends touch
  nothing that another goroutine reads.
* A Have queue is a set: a piece is completed once, so it is queued at most
  once per subscription.
* Bitfield messages have full length; a short one makes `SetPiece` drop bits,
  which is a peer offering less.
* `WaitHave` stops counting at `MaxAvailability`, a bound of the model only.

`DownloadBoard` is the abstract specification: pieces are obtained and never
lost, Download returns once, and it returns the file only if it has all pieces.

### DiskStore

`WritePiece` and `saveBitfield`, one system call at a time, in a process that
may crash before any of them and be restarted. `os.WriteFile` truncates first,
so the file is partial between two steps. Every call may fail, the read of the
bitfield file too: `loadBitfield` then starts afresh, whatever is on the disk. The
history variable `unread` holds the pieces that a session has failed to read in
this way and that have not been stored again; without such an error it is empty, and
the properties say what they would without it. A crash is one of
the process: what the system has been given stays. Nothing calls fsync, so a
failure of the machine could lose more (see the observations).

### Seeder

The accept loop (`Accept`, `AcceptEnds`), one goroutine per connection
(`AddPeer` for the handshakes up to `addPeer`; `ServeTop` to `WriteBlock` for
`serve`; `Leave` for the deferred calls), the choker (`Tick...` for `tick`,
which reads or sets one flag a step, since it holds no lock) and `Run`
(`CloseListener`, `ClosePeers`, `Return`). A connection is open or closed;
what is read from it is chosen freely; what is written to it is kept only as
the last Choke or Unchoke (`told`). The Have broadcaster is left out: the only
caller passes no channel.

### RoutingTable and DHTTable

`RoutingTable` has the buckets: what each method of `RoutingTable` and `Bucket`
does under the table's lock. IDs are sequences of `Bits` bits and the bucket of
an ID is the length of the prefix it shares with the node's own. `LastSeen` is
kept as whether it lies within `refreshInterval`; no code asks more of it.

`FindClosest` is here too, as a function of what a node knows: the client and the
nodes it asks use the same one.

`DHTTable` extends it with the goroutines that change the table: `HandleQuery`
(the read loop), `Replace...` (a goroutine of `replaceIfDead` each; `Remove` and
`Insert` are two critical sections), `Sweep...` (`sweepStaleNodes`, with the
list it took at its start), `BootstrapInsert`, and `LookupSilent`
and `LookupAnswered`, the only effect of lookups on the table, with any node, since
other nodes may report any. Some addresses never answer. Any query may end with
nil, whoever was asked: by its timeout, the end of the lookup's context, a failed
send, or the cancel of another query with its ID. A node ID may be known at several addresses. The test of
`LastSeen` at the start of `replaceIfDead` is part of `HandleQuery`: the
goroutine reads it moments later. The code starts
any number of these goroutines; `Replacers` bounds them, and a query that would
start one too many is not taken. The rate
limiter, the answers to queries (see `DHTLookup`), saving the table and the change of the node's
own ID are left out.

### Transactions

Queries of one node: `Add`, `Complete` and `Cancel` are the methods of
`TransactionManager`, each under its lock; `Write` and `WriteFails` are `Send`;
`Receive`, `Timeout` and `CancelTxn` the cases of the select in `sendQuery`, of
which the last two are apart because the response may come between the choice
and the call of `Cancel`; `Deliver` is the read loop. The network loses, delays
and duplicates responses. Responses that answer no query are left out: they
have the effect of a duplicate.

### BlockExchange

One connection at the level of messages: the worker's `pieceLoop`, `getBlocks`,
`WaitForUnchoke` and `waitForNewPieces`, and at the other end a seeder with its
serve loop and choker, or another worker. Each direction is a queue (TCP). `pc`
is where the worker is: top, send and read are the three parts of the loop of
`getBlocks`. A block is its piece and number, and the hash of a piece stands for
the sequence of its own blocks. The other workers only complete pieces, which
closes cancel channels. The choker's flag and its message are two steps, as in
`tick`. Keep-alives, requests that the worker serves meanwhile, and extension
messages change nothing that is kept here. Nothing is assumed about time: a round
of the choker may overtake all that was sent before it, and the deadline of
`waitForNewPieces` may pass with messages on their way. `MaxChanges` bounds how often
the choker changes its mind. `HandleRequest` has the case that GetBlock cannot read
the piece from the disk: the request gets no answer (`ignored`). `leftBehind` records
that `getBlocks` has returned, on a Choke or a cancel, with requests or blocks still
under way; from then on the blocks of one piece may be taken for those of another,
since nobody looks at their index.

### UDPTracker and TrackerSession

`UDPTracker` has `sendWithDeadline` as a loop per caller (`at`): write, then
read a datagram or time out; a call whose connection ID has expired runs the
same loop for connect inside its own. `n` and the socket are shared by the
callers. A transaction ID only serves to recognise a response, so an ID is the
caller whose request it belongs to, or `Old` once that request is over. A tracker
answers, refuses or loses each copy of a request.

`TrackerSession` extends it with the two callers: `handleDownload` (connect,
"started", Download, "stopped", exit) and the `TrackerUpdater`, whose select
takes any event that is ready; and with `MultiTracker`, here a UDP tracker and
an HTTP tracker. A download is the number of its completed pieces. When the
command returns, the process and with it the updater end.

### DHTLookup

Extends `RoutingTable`. One client makes calls one after the other:
`iterativeFindNode`, `GetPeers` and `Announce` share their rounds (`NextRound`,
`Receive`, `GiveUp`) and differ in `Stops`. `candidates` counts how often a node
is on the list, since `Announce` sends to it as often. The nodes that answer run
the same code: `HandleLookup`, `HandleAnnouncePeer`, `Rotate`, and their peer
stores. A token is its age in secrets; `Rotate` ages what its issuer has given
out. Node IDs are bit sequences, and distances are compared bit by bit.
No node's table holds more than K nodes of one distance (`DHTLookupAssumption`),
which is what its buckets allow.
The other nodes' tables do not change, and calls do not overlap in time: calls of
the code that overlap share only the routing table, whose concurrent changes are
the subject of `DHTTable`.

## 4. Runs

| run | instance | result |
|---|---|---|
| `downloader_pex` | 1 initial worker, 1 more by PEX, 2 pieces, disk store, any resumed subset | safety, `CompletedForever`, `ImplementsBoard` |
| `downloader_live` | 2 workers, 1 piece, no store, no PEX, peers may offer nothing and be silent | `CompletionReturns`, `WorkersEnd` |
| `downloader_spawn` | as `downloader_pex` | violated: results closed with a PEX worker running |
| `disk_store` | 3 pieces, any number of sessions | crash safety, up to what a session failed to read |
| `seeder` | 2 connections, 1 peer allowed, 1 slot | slots, messages, no block after a Choke, `RunReturns` |
| `dht_table` | 3-bit IDs, buckets of 2, 2 failures, 3 IDs at 4 addresses in one bucket, 1 replacer, mode tableOnly | buckets well formed, who stays, who leaves |
| `dht_table_off` | the same with BEP 42 off | violated: an eviction without a ping |
| `krpc` | 3 queries, 3 IDs | no panic, no leak, every query returns |
| `block_exchange` | 3 pieces of 3 blocks, pipeline of 2, endgame from 2 pieces left, a seeder that changes its mind 3 times or a worker | blocks and requests add up, `GetBlocksReturns` |
| `blocks_cancel` | the same with 2 pieces and no Choke | violated: blocks of a cancelled piece in the next one |
| `trackers` | UDP tracker with 2 attempts and a receive buffer of 2, HTTP tracker, 2 pieces of lengths 2 and 1 | own answers only, `NothingLeftIsComplete`, `MainGoesOn` |
| `dht_lookup` | 6 nodes with 3-bit IDs, K = 2, 2 queries a round, 3 rounds, 2 failures, 1 change of a secret | what is found and stored, `NeverRefused`, `CallReturns` |

Bounds. Two workers are enough for every race in the piece manager, whose
methods involve a caller and the owner of a piece. Two pieces let one be
completed while the other is pending or in endgame; in `downloader_pex` the
threshold is 1, so that the first piece is downloaded before endgame and the
second in it. `HaveCap` and `PexCap` are 1, so that both channels overflow.
`downloader_live` has no PEX (all workers start at once) and one
piece, because TLC's liveness check is costly and termination does not
depend on how many there are. Three pieces in `disk_store` let a failed save be
followed by a successful one while a third piece is partial.

Fairness. `Downloader!FairSpec`: the Go scheduler runs every goroutine that is not
blocked (weak fairness of `Local`, the spawner, the closer and the collector), and
the read in `waitForNewPieces` has a deadline (`WaitRead`). The other reads have
none, nor have the writes, so nothing is said about them. A worker is `HeldByPeer` while
it depends on its peer: in a read of the handshake, of `getBlocks` or of
`WaitForUnchoke` (also where, after `waitForNewPieces`, no second Unchoke need come),
or in a write of Haves, of interest or of a block. `CompletionReturns` and
`WorkersEnd` say that a peer which holds a worker for ever is the only thing that can
keep Download from returning, or a worker from ending.

`Seeder!FairSpec`: goroutines that are not blocked run; a write to a closed
connection returns, a write to an open one may block for ever. Where both cases
of the choker's select are ready Go chooses at random, hence strong fairness of
the context's case. No handshake need end: the first has a deadline, but the
extension handshake has none. `RunReturns` therefore says that Run returns unless
a peer stays in its handshake for ever.

Two connections and a limit of one let one be rejected, let both pass the limit
together, and make the single slot contended.

`DHTTable!FairTableSpec`: pings end after `queryTimeout` at the latest (`Replace`,
`Sweep`), the refresh runs every fifteen minutes (`Sweep`), and time passes
(`Age`). Queries, bootstrap and lookups come as they please. Three IDs in a
bucket of two make it full with one left over, and one ID at two addresses, one
dead and one not, makes what is recorded by ID differ from what was pinged.
In mode tableOnly both evictions by compliance, in `Insert` and in the sweep,
happen. TLC has one replacer; the proofs have any number.

`Transactions!FairSpec`: goroutines run, and the timer of a waiting query fires;
the network owes nothing. With three queries an ID can be freed and drawn again
while the old holder is about to cancel it and a third query is pending.

`BlockExchange!FairSpec`: the worker, the remote's reader and the second half of a
choker's step run. The choker may never change its mind and connections need not
break. Three changes are an Unchoke, a Choke and an Unchoke again, with which
requests from before the Choke can be answered after it. A pipeline shorter than a piece lets requests be in flight, unanswered and
unsent at once; three pieces give a cancelled piece, a next one and one that is
completed elsewhere.

`TrackerSession!FairSpec`: goroutines run, reads time out, and the select of the
updater, which chooses at random, takes the end of the context in the end (strong
fairness). Nothing is said about the HTTP request, which has no timeout of its own.
A tracker that never answers is given up after finitely many timeouts. But `n` is
shared, and set back to 0 by any datagram, so a tracker that answers every connect
and no announce keeps a caller for ever. `MainGoesOn` says that these two are all that
can hold up the command: if main's HTTP requests end and the reconnects do, it
goes on. Retries are cut down to `MaxN`, with the same comparison; the last piece is
shorter than the others, so that the clamp in `computeLeft` is reached.

`DHTLookup!FairSpec`: the client goes on, each query ends by an answer or its
timeout, and what is sent to a reliable node is handled. One of
the six nodes knows more than K others, so that `FindClosest` leaves one out; one
(n2) loses datagrams. If n2 is silent, three rounds reach every node that a lookup
can learn of, and a GetPeers that finds nothing ends because nobody is left to ask,
which is the case of `SearchFinds`; if n2 answers, a lookup without peers runs out
of rounds. One change of a secret while a token is held is
all that five minutes between changes allow, against at most ten rounds and eight
announcements of two seconds each.

## 5. Proofs

`DownloaderProofs` proves, for any finite sets of pieces and workers and any
capacities, under the assumptions that the modules state (`PieceManagerAssumption`,
`DownloaderAssumption`: the endgame threshold is the number of initial workers):
`TypeOK`, `NoOrphan`, `Accounting`, `Recoverable`, `CompletedForever`,
`Exclusive`, `HavesServable` and the refinement `ImplementsBoard`.

The inductive invariant `OInv` strengthens `NoOrphan`. A worker that is
cancelled leaves its piece without `Release`; that is right only if the piece
is completed. So one needs that a worker holds a cancel channel only while it
is in `GetPiece` (`CancelScope`), that a closed cancel channel belongs to a
completed piece (`CancelSound`), and that a worker that PEX starts is new, so
that its address is that of no other worker's piece (`PexInv`). Most steps
touch none of this: the lemma `QuietSteps` shows that each step is either quiet
or one of the few piece steps, and each invariant is then proved for those.
`Accounting` needs the cardinality of the completed pieces to grow by one with
each `Complete` (FiniteSetTheorems); `Exclusive` that before endgame a piece
that is downloaded is in progress and owned by its downloader; `HavesServable` that
only completed pieces are queued (`Queued`), because a worker that is about to
notify has completed its piece (`Announcing`).

`DiskStoreProofs` proves `TypeOK`, `ResumeSound`, `Durable` and `BitfieldFileGrows` from
the invariant `DInv`: up to the pieces in `unread`, the bitfield file is contained in
the bitfield in memory while the process runs, and the copy being written lies
between the two. `unread` must be part of it, since a session that could not
read the file writes a smaller one over it.

`DHTTableProofs` proves `TableTypeOK`, `TableOK` and `SteadyStay` for any IDs, K,
`MaxFailures`, mode and number of replacers. Lemmas say what each bucket
operation keeps and removes. A bucket is well formed only because operations by
ID find at most one entry, so `TableOK` is itself part of the invariant; the
rest (`IInv`) is that the table, the arguments of every `replaceIfDead` and the
list of a sweep speak only of nodes of the network, and that only nodes that are
valid, where that is looked at, are marked compliant. This ties an ID to its
one address, and so what is evicted by ID to the query that brought nothing:
`SteadyStay` says that a compliant node with one address leaves the table only at the
end of such a query to itself, whatever else runs at the same time.

`Transactions` ends with its own proofs: `TypeOK`, `NoPanic` and `NoLeak` for any
number of queries and IDs. The invariant: the query registered under an ID drew this ID, has not
returned, and its channel is open (`Registered`); whoever closes a channel
takes it from the map in the same critical section.

The names of the specification in `DHTTable` (`TableSpec`, `tableVars`, ...) are
its own, so that `DHTLookupProofs` can use the lemmas of `DHTTableProofs` about
the metric, the buckets and the methods of the table.

`SeederProofs` proves `TypeOK`, `UnchokedWithinSlots`, `ToldItsState` and
`ChokedNotServed` for any number of connections, peers and slots. The properties
speak of the time between two rounds; the invariant `SInv` says what holds in
the middle of one. Only the peers of the round, and then only those chosen and
those not yet decided about, may be unchoked (`Rounds`), so the slots are
exceeded only while `tick` applies its choice. A peer has been told its state
except the one the choker has decided about and not written to, which was told the
opposite (`Told`): the choker writes only changes. A block is written to an
unchoked peer, or the choker waits for the lock of that connection (`Serving`,
`Locks`).

`TrackerProofs` proves `TypeOK`, `OwnAnswer` and `NothingLeftIsComplete` for any
lengths, any number of attempts and any receive buffer (`TInv`). A response with
the ID of a request that is under way exists only if the tracker has taken it
(`Answers`), and outside a request nothing with its ID is left in the network or
the socket (`Quiet`). That `computeLeft` is 0 only at the end is arithmetic with
a product of two variables, done once in a lemma. The bound on `n` counts the
callers that have written and not yet timed out (`Counted`).

`BlockExchangeProofs` proves `TypeOK` and `BlocksAsRequested` for any number of
pieces and blocks, any pipeline, any number of choker rounds and both kinds of remote
(`BInv`). The core is `Flow`: in `getBlocks` the blocks stored, the blocks under way
and the requests under way continue one another, except for requests that a choking
remote has dropped (`Flowing`); between two pieces nothing is under way
(`Drained`), until something has been left behind or ignored (`InStep`). Several
Chokes and Unchokes may be under way at once. The argument rests on their order:
between two Unchokes there is a Choke (`Signals`), and a worker that takes itself to
be unchoked reads a Choke before the next Unchoke (`ActiveOK`); so whatever is missing
among the blocks is missing behind a Choke, at which `getBlocks` gives up (`Gapless`).

`DHTLookupProofs` proves `TypeOK` and `SearchFinds` for any network, IDs, K,
number of concurrent queries and rounds (`LInv`). While no peers are found, each
reliable node that has answered has none and what it named are candidates
(`Explored`; `Answered` for answers on their way). When there is nobody left to
ask, the reliable candidates are closed under what reliable nodes name, and so
contain all that is `Reachable`. The attempt to prove this showed that an earlier
form of `Reachable`, which followed the client's own table too, was wrong: the
table may change during the call. `NearestStores` and `NeverRefused` have the
hypothesis `MaxRotations = 1`: a secret is replaced at most once while a token
from it is held. In the code secrets are replaced every five minutes and a call
takes at most `MaxRounds + K` timeouts of two seconds. Without it `Validate`, which
knows two secrets, would rightly refuse. `Placing` says that the first
announcement goes to the nearest node that gave a token: distances to a target
are a strict total order, so there is exactly one.

Only model-checked are the liveness properties, which are out of the prover's reach
(`CompletionReturns`, `WorkersEnd`, `RunReturns`, `DeadLeave`, `QueryEnds`,
`GetBlocksReturns`, `MainGoesOn`, `CallReturns`), and the three properties that the
code violates. Every invariant and action property of the passing runs is proved.
`NoOrphan` is proved for every assignment of addresses to workers, two workers
with one address included; the runs have distinct ones.

## 6. Findings

* The PEX worker spawner adds to the wait group after the closer may have
  waited: the results channel is closed while a worker starts (`downloader_spawn`).
* With BEP 42 off, nodes that ask are marked compliant and evict nodes from
  bootstrap without a ping, against the comment in `Bucket.Insert`
  (`dht_table_off`).
* Blocks of a piece that was cancelled in endgame are taken for blocks of the next
  piece, which then fails its hash (`blocks_cancel`).

### Observations

Seen in the code while modelling, and visible in the models, but contradicted by
no run: the code either promises nothing about them, or only in passing.

* `cleanup` calls `RemoveAvailability` also when setup failed after the bitfield
  was read and before `AddAvailability` (`worker.go:355`), and for pieces learned
  from Have messages that were never counted: availability becomes negative. It
  only orders the choice of pieces.
* "all writes are already synced" (`disk_store.go:103`): nothing calls fsync, so
  after a power failure the bitfield file may mark a piece whose file is empty.
* `loadBitfield` takes every read error for a missing file, "no bitfield file — fresh
  start" (`disk_store.go:143`): the session downloads the marked pieces again,
  truncates their files while the bitfield file still marks them, and forgets the
  others with its first save.
* The limit on seed connections is compared with the connections whose
  handshakes are over (`seeder.go:129`): more than `MaxPeers` may become peers.
* After a Have, `waitForNewPieces` sends Interested again and waits for an Unchoke
  without a deadline (`worker.go:278`): a remote that has not choked the worker
  since its first Unchoke does not send another, and the worker hangs.
* The updater is not waited for: when Download returns, both its context and
  `pm.Done` are ready, and the command may exit before "completed" is announced,
  or announce "stopped" twice (`tracker_updater.go:43`, `command.go:202`).
* An announce that finds its connection ID expired reconnects and then sends the
  bytes marshalled with the old ID (`udp.go:127`).
* After nine timeouts in a row every later call of a UDP tracker fails at once
  (`udp.go:125`). A tracker that answers every connect and no announce keeps its
  caller for ever, as each answer sets n back to 0 (`udp.go:148`), and `http.Get` has
  no timeout at all (`http.go:27`).
* The extension handshake of an incoming connection reads without a deadline before
  the connection is in `s.peers` (`seeder.go:176`): a silent peer keeps `Run` from
  returning.
* Requests made before a Choke that a slow link delivers after the next Unchoke are
  served, and their blocks taken for the next piece's (`peer.go:373`). A request whose
  piece cannot be read from the disk gets no answer (`peer.go:213`), and `getBlocks`
  waits for it without a deadline.
* A ping that cannot be sent, or whose transaction is cancelled by another query with
  the same ID, counts as unanswered (`dht.go:884`): `replaceIfDead` evicts the node.
* Lookups never insert the nodes they hear of into the routing table, although
  "iterative lookup on our own ID to fill nearby buckets" (`dht.go:417`) and
  "to keep the routing table populated" (`dht.go:262`) speak of that.
* `FindClosest` stops at the first pair of buckets that gives enough nodes and
  may miss nearer ones in buckets further right (`table.go:127`).
* `Announce` counts a node that several answers named several times towards the
  K nodes it announces to (`dht.go:614`).
* A lookup whose context has expired counts failures for the healthy nodes it
  was asking (`dht.go:905`, `dht.go:784`).

## 7. Not modelled

* Handshakes and the metadata download of magnet links: sequential parsing on one
  connection, whose errors are visible in unit tests. The models begin after the
  handshake, or let it succeed or fail freely.
* `ComputeDelta` and the PEX send loops; the rate limiter; `SequentialSelector`,
  which is not the default; Scrape, which no part of a download calls.
* The DHT node's change of ID, its persistence and its shutdown.
* Power failures; `SaveFile` and `DownloadFile`.
* The bytes of messages, torrents and bencode, BEP 42 checksums: functions without
  state. The command line (except the tracker calls of `handleDownload`),
  metrics, logging and configuration.
