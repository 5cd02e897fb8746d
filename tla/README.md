# Verification of rinha-fraud

TLA+ models, TLC runs and TLAPS proofs about the fraud scorer of this
repository: an HTTP service that turns a card transaction into a 14-dimension
vector, finds its five nearest labelled neighbours in an in-memory IVF index
of three million reference rows, and answers with the share of frauds among
them. Paths below are relative to `src/`; modules are in this directory.

## 1. The system

Two API processes stand behind a TCP load balancer. Each of them, on its own,
loads an index file baked into its image (or builds the index from the
dataset), announces itself ready, and scores requests; the two share nothing.

| component | state it keeps | operations | hard behaviour |
|---|---|---|---|
| grid and hard buckets, `internal/index/index.go:64-152` | none | `quantize`, `dequant`, `bucketOf`, `bucketPenalty`, `dist2`, `intDist` | two distances, one exact and one on integer codes, that must order candidates alike; a sentinel for "no last transaction" |
| sorted buffers, `index.go:400-430, 720-809` | `topK`, `intTopK`, the `pd`/`pc` probe arrays | `consider`, `insertProbe`, `worst`, `full` | ties, the last slot, the count apart from the arrays |
| query, `index.go:180-300, 430-706` | the candidate collector, rows scanned, the running pass | `ScoreCount`, `searchTopKTrace`, `scanRange`, `probeBucketRange`, `scanCellCollect`, `refine`, the `Set...` knobs | pruning, a row cap, a second pass that extends the first |
| builder, `internal/index/build.go` | rows, centroids, assignment, CSR offsets | `Add`, `Build`, `kmeans.run`, `parallelFor` | goroutines sharing one array; two counting sorts; empty cells |
| storage, `build.go:139-196`, `index.go:293-377` | transposed codes, packed labels | `dist2SoA`, `intDist`, `bucketOfRow`, `isFraud`, chunks of the SIMD kernel | addresses that shift with the size of every bucket; borders of chunks and blocks |
| index file, `internal/index/serialize.go`, `cmd/buildindex` | a file | `Save`, `LoadIndex` | written in place, read by another process, perhaps at the same time |
| dataset loader, `internal/dataset` | none | `Load` | the end of the file taken for the end of the array |
| API server, `main.go` | index pointer, ready flag, `bufPool` | startup goroutine, `handleReady`, `handleScore` | handlers concurrent with startup; pooled buffers; panics with deferred calls; fatal exits |
| vectorizer, `internal/vectorize` | constants | `VectorizeJSON`, `Vectorize` | a scanner that searches for keys instead of parsing, beside the `encoding/json` path; 0/0 |
| load balancer, `cmd/lb/main.go` | round-robin counter, two copies per connection | `main`, `proxy` | half-close, failover, goroutines ending together |
| diagnostics, kernel arithmetic, deployment | | | measurement, assembly, configuration |

How they interact: `dataset.Load` drives `Builder.Add` and `Build`;
`cmd/buildindex` saves the result; the API's startup goroutine loads it, calls
the eight setters of `tune`, stores the pointer and then sets the ready flag.
A handler reads the body into a pooled buffer, parses it, loads the pointer
once and runs the query on its own stack, over memory nobody writes any more.
The balancer splices bytes and knows nothing of HTTP.

What makes each part correct:

- buffers: they keep exactly the nearest items, first come first on ties;
- query: what it collects does not depend on the probe order, on the buckets
  pruned or on the escalation being incremental; no row votes twice; with all
  cells probed the answer is exact; the row cap bounds the work;
- builder: every row is in the index once, in its own bucket, in the cell of
  its nearest centroid, whatever the goroutines do; the build ends;
- server: one answer per request, from that request's bytes, from a complete
  index; readiness never lies; every request is answered;
- storage: what the distances read of a row is what was stored, and each row of
  a cell is scanned once, whatever the sizes;
- index file: a partial file is never taken for an index, and a process that is
  started comes up;
- vectorizer: what is scored is what the client meant, or nothing;
- balancer: no response is cut off by the end of the request stream, every
  connection ends, clients of a dead backend are served by the other.

`PROJECT.json` lists the components and the hazards, each at its line and with
the properties that would catch it.

## 2. Modules

    SortedBuffer  <- TopK            (implements KSmallest)
                  <- ProbeTiers
    Grid <- Layout <- Build --+
    Layout, SortedBuffer <- Search --+-> Engine
    Dataset, IndexFile <- Boot
    Json <- Vectorize
    Server
    Balancer, Splice (implements Duplex)

An `MC` module gives the constants of the module it is named after. A `_proofs`
module holds theorems: `Buffers_proofs` those of TopK and ProbeTiers,
`LoadBalancer_proofs` those of Balancer and Splice, the others those of the module
they are named after.

**SortedBuffer** is the insertion buffer the code writes three times. `Consider`
is the whole of `consider`/`insertProbe`: the early return (`Admits`), the
place found by the shifting loop (`InsertSlot`), the shift (`ShiftIn`) and the
count (`CountAfter`). **TopK** feeds it any sequence of distances and
**KSmallest** is its promise, stated without slots: the first `Cap` offers in
order of (distance, arrival).

**ProbeTiers** runs the selection of cells for both tiers side by side over the
same distances and then scans the ranks `[0, nprobe)` and
`[nprobe, nprobeHigh)`. Each call of `probeBucketRange` repeats the selection
from scratch in the code; since the inputs are the same, both run in one loop
here.

**Grid** is the arithmetic: a query component is an integer multiple of
`1/(G*Sub)`, a stored one a code of a grid of `G` steps (10000 in the code).
Every `float64` expression of the search is a sum of squares of such numbers,
so it is exact here.

**Layout** is where an index keeps its rows: `Transposed` and `Packed` write the
blocks of codes and the words of labels (`build.go` steps 4 to 6), `CodeAt` and
`isFraud` read them back (`dist2SoA`, `intDist`, `bucketOfRow`), and
`BlockStarts` and `ScalarTail` are the kernel's and the scalar loop's parts of a
scan of consecutive entries. A `uint64` of labels is the set of its bits.

**Build** goes through the 16 buckets: seed, train, assign in chunks by
concurrent workers, join, place. A centroid is a quotient `[sum, cnt]`; two
quotients are compared by cross-multiplication. `BuiltIndex` is what the code
returns, in the storage of Layout, including the centroid codes of cells that
never got a row; **Search** reads rows, centroids and labels only through
Layout's operators.

**Search** is one query. `pc` is the place in the code: the loop over buckets
(`at`), the cells of the open bucket (`cells`), the rows of the open cell or the
candidates of refine (`run`). `col` is the collector and `tk` the five nearest. A step is
one decision about a bucket, one cell opened or one row considered. The rows of
a cell are added to `scanned` when it is opened and not when it is left: the cap
is read only between cells.

**Engine** puts Build and Search together: the index a query searches is the one
Build made, directly or reloaded from a file, after `Tuned`, the setters in the
order of `main.tune`. **MCData** has the datasets.

**Dataset** is `dataset.Load` over a file of JSON pieces: `More` is false at the
closing bracket and at the end of the file, `CanDecode` fails on half a record.
**IndexFile** is the format: `Image` is the words `writeTo` writes, `Shape` the
lengths Build gives the slices, and `TakeHeader`, `TakeNumber`, `TakeSlice` and
`Consistent` are the steps of `readFrom`. A word says which slice of which build
it belongs to, so that a mixture of two files can be told from either. **Boot**
puts them between two processes: `buildindex` builds (`StartBuild`), truncates
(`Create`), writes word by word (`WriteWord`) and may be killed anywhere
(`AbortBuild`); the API opens the file, reads it word by word as it is at that
moment, and publishes it or falls back to its own references. `Start` is a start
or restart at any time. A word that is no number where a number is
expected is read as any of `Lengths`, or as `Huge`, a length on which `make`
panics. `refs`, `saved`, `torn` and `noise` are history. A read sees the file as
it is: read-ahead by the buffered reader would only make a mixture rarer.

**Json** is the scanner of `fast.go` over a sequence of tokens: the first
occurrence of the key, the next colon, and what the value's first token asks
for. **Vectorize** has both vectorizers, each with its own table of merchant
risks as in the code. A component is a quotient, so 0/0 is a value of its own.
`Vectorize` works on the payload the client means, `VectorizeJSON` on the tokens it
sends; that they agree is the property. `Writes` says what a client may send: wherever
a name stands that the scanner looks for, the payload's value follows; order,
omissions, cuts and any other tokens are free.

**Server** is one API process: the startup goroutine (`boot`), the published
pointer and flag, the pool, and for each request slot the place in
`handleScore` (`pc`), the buffer held, the vector's origin and what `writeBody`
was called with. A panic goes through the deferred `Put` and then through the
deferred `recover`, in the order Go runs them. `DropPooled` is the collector
emptying a `sync.Pool`; `GetNew` may be taken whatever the pool holds. A search
is one step, because it reads only the published index and its own stack.

**Balancer** is the accept loop and the dialling of `proxy`: the counter value
goes with the connection (`n`), the first dial and the failover are steps of
their own, so that backends stop and return between them. **Splice** is the rest
of `proxy`: the two goroutines (`copy`), the channel (`done`) and the deferred
closes (`main`). The peers and the kernels are external; they are modelled as far
as the balancer sees them. Bytes are counted, not named, because a copy neither
changes nor reorders them: of the bytes `sent` by a peer, `taken` were read by
its copy, `put` written on and `got` read by the other peer, with a window
between any two sockets. A socket closed with unread bytes, by a peer or by the
balancer, answers with a reset, and so does one that gets bytes after its close. **Duplex** is the promise: two
streams with ends, where an end comes after the last byte unless one peer walked
away from bytes sent to it.

## 3. Runs

| run | question | bounds |
|---|---|---|
| `topk` | does the buffer keep the K smallest, in order, for every sequence of offers? | capacity 3, up to 6 offers of 4 distances: ties inside, ties at the last slot, twice the capacity |
| `tiers` | do the two tiers scan what one scan would? | 5 cells, 3 distances, nprobe 2 and 4, probe arrays of 4: every assignment of tied distances |
| `build` | is the index a permutation of the rows in their own cells, readable from its storage, in every schedule of the workers? | 7 datasets of at most 11 rows, 3 cells, 2 iterations, samples of 4, up to 3 workers; kernel blocks of 2, chunks of 4, words of 4 bits |
| `search` | is what a query collects independent of pruning, probe order and escalation; is the cap respected? | 7 datasets x 7 queries x 6 settings x built or reloaded; 5 cells per bucket, probe arrays of 3; 6 candidates, 5 votes |
| `server` | one own answer, exclusive buffers, honest readiness; is every request answered? | 2 slots reused for ever, 2 buffers, a well-formed and a malformed body, 1 setter |
| `splice` | does the splice implement Duplex; do bytes and half-closes get through whatever the other direction does; is everything released? | 3 bytes each way, windows of 2, so that writers block |
| `balancer` | failover while backends stop and return; does every client settle? | 2 backends, 4 clients, a counter modulo 4, 2 outages |
| `boot` | is only a whole index served, however writer, reader, crashes, restarts and damage fall; does a started process come up? | one dimension and one bucket, a file of 16 words, 2 builds, 1 damaged word, references whole or cut at any piece |
| `vectorize` | does the scanner read what the client meant, or refuse; what escapes the clamp? | 4 objects and the last transaction, 3 orders of members, every cut of two bodies, every single member missing |

Why the bounds are enough. The buffers compare distances only with each other,
so few values give every order; a capacity of three has a first, a middle and a
last slot. In `search` the candidate capacity is above the number of votes and below
the number of rows, so candidates are dropped; with `G = 50` and `Sub = 2` odd
query components lie halfway between codes, the worst case of the rounding. A bucket has more cells than a
probe array has places, as with nlist above `maxProbe`: a reloaded index, whose nprobe is
its nlist, overruns them unless `probeBucketRange` clamps once more, and no pass sees all
cells. The datasets cover rows
in neighbouring buckets, only rows without a last transaction, a mixture, fewer
rows than candidates, ties of rows and of centroids, one row repeated, a crowded bucket beside one that is one flag away, and none. Each of the
following was checked to happen by asking TLC for its negation: an escalation,
a skipped non-empty bucket, a cap reached inside the home bucket and one reached
between buckets, an escalation that improves the answer, an escalation by radius alone,
an nprobe above the probe array, and rows left out by an escalated search. In `build` a chunk is two blocks, and there are cells of
more rows than a chunk, of fewer than a block, and of none. In `server` two slots are the least that can share a buffer, and a
slot serves any number of requests. In `splice` three bytes over windows of two
let a byte wait at each place of the path while another one is blocked; in
`balancer` the counter wraps within the clients. In `boot` the order of the
slices and the checks between them are those of the code and only their lengths
are small; two indexes of equal shape are what a mixture needs to pass the
length checks, two builds let the second one cut off or overtake a load of the
first, and `Lengths` has values that are too short and too long for where they
are read. In `vectorize` keys occur in two objects (`id`, `avg_amount`) and in
front of the object they are meant for, every rule of the payload is on both
sides of its bounds, and last transactions are before and after the current
one. Several of the safety properties are in
addition proved for every size (section 5), and three invariants are only proved
and in no run: `Ranked` and `Aligned` of the buffer, `TiersTypeOK` of the tiers.

`CHECK_DEADLOCK FALSE` is set everywhere: the buffer model stops at its bound on
offers (`MaxOffers`), the peers of a splice at theirs on bytes (`MaxBytes`), the
balancer at its clients and outages (`MaxConns`, `MaxOutages`), a search ends when it has answered, a build when it is
built, a vectorization when it has returned, and the server when its process
exits. Boot can always start its process again; its runs bound the builds and the
damage (`MaxBuilds`, `MaxNoise`).

Three runs expect a violation. Each checks one sentence of a comment or of the
docs that the code does not keep:

| run | sentence | what happens |
|---|---|---|
| `sentinel` | the true 5-NN are always among the `candK` integer-nearest (`index.go:57-62`, and the prune of `565-569`) | -1 is stored as code 0 and 0.0 as code 1, so the integer distance between them is one step and not 1.0; a crowd of null rows takes the places of the true neighbours |
| `corrupt` | a missing or corrupt index file means the old path, "sem crash" (`docs/performance/05-preprocessamento-no-build.md:50-51`) | a corrupt length goes to `make` unchecked (`serialize.go:246`); the panic is in the startup goroutine, which has no `recover` |
| `clamped` | every value but the two sentinels is clamped to [0, 1] (`vectorize.go:63-64`) | amount 0 over average 0 is NaN, and `clamp` returns it |

Further sentences say something else than the code does; they are noted from reading,
not from a run:

- escalation equals a fresh scan (`index.go:517-521`): not with `INDEX_MAX_SCAN`,
  since the cells the cheap pass left at the cap have ranks below `nprobe`, where
  the second pass starts. The deployed setting is 0, no cap;
- the margin is an AND-gate with the radius (`index.go:189`, `286`): with the
  margin gate on the radius is not read (`index.go:551`), as the comment at
  `543-549` says;
- the splice lasts "until either side closes" (`cmd/lb/main.go:67`): it lasts until
  both directions have ended, as `84-94` explains;
- nprobe defaults to all cells (`build.go:67`): not above `maxProbe`, as lines 71-74
  explain;
- HIGH at or below NPROBE disables the escalation (`main.go:170`, `index.go:233`): only the
  common value, a per-vote knob above NPROBE still escalates (`index.go:535-540`);
- without `index.bin` the process still comes up (`docs/performance/05-preprocessamento-no-build.md:82`):
  only where the references are, and the runtime image leaves them out (line 47),
  so there the fallback ends in `log.Fatalf`.

`ServesWhatWasBuilt` exempts a file that was damaged, since it carries no
checksum, and one that was created anew while it was being read: two builds of
equal lengths can then mix unnoticed. `ComesUp` exempts the panic on
such files, and the exit for want of references. In `vectorize` no string value
equals a field name, and the objects hold no objects of their own (`Writes`): the scanner
would take such a value, a merchant's `id` say, for the key.

Properties that the sentinel would break are stated for the queries it does not
touch (`NullUniform`: query and rows agree on the null flag), and those that the
rounding of a query would break for queries on the grid or when no candidate was
dropped. Within those limits they cover everything the search does.

## 4. Fairness

`BuildSpec` is weakly fair to Build, `Spec` of Engine to Build and to the query: straight-line code on
goroutines the Go scheduler keeps running; the run of Build uses it
(`BuildCompletes`), that of Engine checks safety only. `Spec` of Server is weakly fair to the startup goroutine and to each handler: a body read
ends with the body or with the two-second `ReadTimeout` of `main.go:247`. No
fairness is assumed for the arrival of requests, of probes, for the garbage
collector or for the failure of the listener. Two buffers for two handlers
suffice since `New` always makes one in the code; a handler waiting for a buffer
is no behaviour of the program, and `EveryRequestAnswered` would fail if the
model had one. `SpliceSpec` is weakly fair to each copy, to `proxy` and to
the reading of a peer that has not left: without a reader no proxy delivers. No
peer has to send, finish or leave. `Spec` of Balancer is weakly fair to the
waking of the loop (a sleep of 5 ms) and to each proxy (a dial ends within its
second), and strongly fair to `Accept`: accept errors are transient by the
code's own comment, so an accept that is possible again and again succeeds. `TiersSpec` is weakly fair to its
loops, straight-line code too. `Spec` of Boot is weakly fair to the startup goroutine and to a
`buildindex` that has begun to save; nobody has to start either of them, and a
process that is restarted again and again need not come up.

## 5. Proofs

All proofs are checked by TLAPS to the last leaf; they assume only the named
assumptions on the constants, which TLC evaluates on every run: positive sizes,
distinct model values, data sets of codes and queries of normalized values, integer
knobs, and

- `InfAssumption`: the distance of a free slot lies above every sum of fourteen
  squares, of codes (`math.MaxInt32`, true of the code's grid by `IntDistFitsInt32`)
  and of differences between values in [-1, 1] (`math.MaxFloat64`);
- `SearchAssumption`: the candidates are at least as many as the voters (64 and 5);
- `KeyDimsAssumption`: flags are 0 or 1, and dimensions 5 and 6, and no others, are
  the sentinel, together. `Vectorize` makes such queries (`vectorize.go:82-91`);
  of the references the code takes it for granted (`bucketOf`), it does not check;
- `FilesAssumption`: a file of references opens with its bracket and has its closing one
  only at the end; `HugeAssumption`: no index has a slice of a length on which `make`
  panics;
- `RequestsAssumption`: amounts, counts, times and distances are whole numbers from 0, and
  a body is one that `Writes` allows; a whole one holds every object and member (`Complete`).

Module by module:

- `SortedBuffer_proofs`: lemmas about `Consider`. The place of an insertion
  exists and is unique (`InsertSlotExists`), an insertion is a rejection or a
  shift (`ConsiderCases`), it keeps the order (`ConsiderSorted`), and a smaller
  buffer fed the same offers stays a prefix of a larger one (`ConsiderPrefix`).
  After k different offers below the sentinel the first k slots hold different ones
  of them (`HoldsOffers`, kept by `ConsiderHolds`).
- `Buffers_proofs`. Of TopK, `BufferCorrect` and `WorstMonotone` for every capacity. The
  invariant is the conjunction of the checked ones, with the kept items pairwise
  distinct through their ranking. `ImplementsKSmallest` maps each offer to the
  step of KSmallest that keeps it, refuses it, or keeps it in place of the worst.
  Of ProbeTiers, `CheapIsPrefix`, `NoRescan`, `NoSentinelRank` and
  `EscalationEndsFresh`: the cells scanned in the end are those of a fresh escalated
  scan, the clamps of both counts included. The invariant adds that exactly the first `cell` slots hold a considered cell
  (`Filled`), that these are distinct (`Distinct`) and that the cells visited are
  the escalated selection rank by rank (`Visits`); without `Filled` two free
  slots would hold the same cell 0.
- `Server_proofs`: all six safety properties for any number of handlers, buffers
  and bodies. The invariant ties each place of the startup goroutine to what it
  has published (`BootInv`), each place of a handler to the buffer it holds
  (`HeldInv`), to the bytes in it (`BytesInv`), to the vector and index it uses
  (`QueryInv`) and to what it has written (`WroteInv`); `LateInv` relates a probe
  answered 200 to the requests after it.
- `LoadBalancer_proofs`. Of the accept loop and its proxies, `BalancerTypeCorrect` and
  `Failover`: the invariant says that a backend that is down has been missed by every
  connection, and that one that dials again, or gave up, has missed the backends it
  tried. Of one proxied connection, `SpliceTypeCorrect` and `ImplementsDuplex`: each
  step of the two copies, their kernels and the peers is a step of the two lossless
  streams or leaves them alone. The invariant orders, per direction, the bytes sent,
  read, written and received (`OrderInv`), says that an end follows the last byte
  (`EndInv`) and what a reset excuses (`ResetInv`).
- `Boot_proofs`: `BootTypeCorrect`, `ServesBuilt` and `EndsSettled`, for every data set,
  layout and interleaving of a `buildindex` that saves, of crashes and of an API that
  reads. `ServesWhatWasBuilt` alone says nothing of a file half written, so the invariant
  follows the file: undamaged, it is the beginning of the image of one index, the one
  being written or an earlier one, and what `readFrom` has taken off it is what that
  image holds up to there (`DiskInv`, `OnDisk`, `ReadOf`). An image ends where its fifth
  slice does (`SliceRead`, `WholeRead`), so a reader that has five slices has read a file
  that was saved to its end. Of a fallback, `LoadFacts` and `BuiltIsIndex`: an array that
  decodes has its records at the even places, commas between them, and nothing behind, and what
  `Build` makes of it is an index. `EndsSettled` is the safety half of `ComesUp`: an API
  that is ready, has exited or crashed is so for the reason `ComesUp` names.
- `Build_proofs`, first the facts about the data for every size. On a grid of at most 10000
  steps fourteen squares stay below 2^31 (`IntDistFitsInt32`, through
  `QuantizeIsCode` and `IntDistBounded`). `PenaltyIsALowerBound` adds up, dimension by
  dimension, what `bucketPenalty` may charge against what `dist2` must
  (`FlagPenalty`, `NullPenalty`); it assumes of query and row what the vectorizer
  gives, flags 0 or 1 and both sentinels or none (`Flagged`). `TranspositionRoundTrip`
  needs that a row lies in exactly one block (`BlockOfRow`, `BlockOfUnique`) and that
  `d * count + local` is undone by division (`DivMod`); `LabelsRoundTrip` is the same
  for bits. `ScanTakesEachOnce` follows from chunks that tile the scan
  (`ChunkOfEntry`, `ChunkUnique`) and blocks that tile a chunk (`BlockFacts`).
  Then the five safety properties of the builder, for every data set,
  number of cells, sample, number of processors and interleaving. A recursive
  function has a value by induction along the loop it models (`LoopInduction`,
  `RunExists`), so the counting-sort scatter is the increasing enumeration of its bin
  (`ScatterInOrder`), the walk of `nearest` ends at the one centroid that none beats
  and that beats all before it (`NearestIs`), flattening the cell runs lays each at
  its offset (`FlattenFacts`), and a total over a cell is an integer (`TotalBounded`).
  The invariant `IInv` has what was added (`RowsInv`), the types of each phase
  (`TrainInv`), the chunks, consecutive by their multiples of `Chunk` and covering
  what is not assigned (`ChunkInv`), and for the buckets already placed: all their
  rows are there (`RowsDone`), their cells are consecutive and within the bounds of
  the bucket (`CellsDone`) and hold the rows nearest to their centroid in order of
  insertion (`RunsDone`). `PlaceKeeps` is the step that extends these by a bucket.
  `LayoutReadsBack` then applies the facts about the data to the finished index.
- `Search_proofs`: `QueryTypeCorrect`, `NoRowTwice` and `CapOvershoot`, of the engine
  as a whole: the build's `IInv` makes every index a query can be given usable, built
  or reloaded and with any knobs (`BuiltHasArrays`, `TunedIsUsable`). The selection of
  the nearest cells is a run of `Consider`, so it yields different cells of the bucket
  (`NearestCellsFacts`) and a smaller selection is a prefix of a larger one
  (`NearestCellsPrefix`, the code comment on the escalation); hence the two tiers have
  no cell in common (`TiersDisjoint`), and cells of different buckets or runs of
  different cells have nothing in common either (`BlocksDisjoint`, `RowsDisjoint`).
  `NoRowOfferedTwice` alone is not inductive: the invariant also says that every row
  offered, or waiting in the open cell, belongs to a cell the query is past
  (`StreamInv`), that the cells still waiting are different ones of the open bucket's
  pass (`CellsInv`), that what is left after the cap is nothing (`CapInv`) and that
  the collector holds different rows offered (`ColInv`).
  `CollectorHoldsNearest` adds `NearInv` to it. A slot holds the distance of its row
  (`Records`, kept by `ConsiderRecords`), and what a buffer keeps or has beaten stays
  kept or beaten (`Keeps`, `ConsiderKeeps`), so all rows of the cells behind the query
  are kept, beaten or about to be offered (`CoverInv`). A pruned bucket is behind it as well:
  every row of a bucket has its flags (`HardRows`, from the build's `RunsDone`), so
  in code units it is at least the penalty away (`PenaltyOnTheGrid`; this is where the null
  flags have to agree) and beaten by a full collector (`PrunedAreBeaten`). At the end the
  ranks of the two passes are those of one (`SeenAreNearest`).
  `AnswersExactly`: every row probed is a candidate or beaten by 64 of them
  (`DoneHolds`). `RefineInv` says the same of the refine: of the candidates considered the
  K nearest are kept. For a query on the grid the two distances differ by a factor
  (`OnGridDistance`), so the K-th neighbour beats what the last candidate beats
  (`BeatenIsBeaten`). What is left out is said in terms of the centroids alone, without
  the selection: a cell that the probe buffer does not hold at the end was beaten by all
  it holds (`SelectionRanks`), which are different cells of its bucket, as many as were
  probed (`LeftOutIsOutranked`). A pass that probes all cells therefore considers all rows; with nlist
  above 512, the default of 1024 included, no pass does: the probe arrays end before the
  cells do (`index.go:638`), which `QueryTypeCorrect` says of the cells open at a time
  (`OpenCellsFit`).
- `Vectorize_proofs`: `NoneIsMisread`, `WholeIsRead` and `OnlyZeroOverZero`, for every body
  that `Writes` allows. Bottom up: brackets counted from the first one balance at
  the first that closes (`BalancedIs`), the first occurrence of a key leads to what stands
  behind its colon (`FieldAt`), so an object is found to its own closing brace, or not at
  all (`ObjectIs`), and in it a member of one token, the merchants or nothing (`KeyInObject`,
  `MemberIs`, `MerchantsIs`). An object that is all there has one end (`HasIs`), which is
  why a whole request is read. The switch and the table of risks agree on every merchant
  category (`OneTableOfRisks`). The state is one call, so what is inductive is only that
  the answer is missing or `VectorizeJSON`'s (`AnswerInv`); the work is in
  `ReadsWhatIsMeant` and `Ranges`.

Only model-checked are the liveness properties, which are out of TLAPS' reach under
fairness: `EscalationIsFreshScan`, `BuildCompletes`, `EveryRequestAnswered`,
`EveryByteArrives`, `HalfClosePassesOn`, `ProxyEnds`, `EveryClientSettles` and
`ComesUp`. The safety halves of two are proved: `EscalationEndsFresh` of the first,
`EndsSettled` of the last. All other invariants and action
properties of the runs are also proved.

## 6. Not modelled

- Rounding of `float64`, and infinities other than the ratio by an average of 0.
  A NaN component is left at the door of the query: quantizing it is
  platform-dependent, and the queries of `search` are vectors of the grid.
- The arithmetic of the SIMD assembly: which rows and addresses it reads is
  Layout's; the repository's tests compare its values with the scalar code.
- White space, escapes, signs and digits in a body, and braces inside strings;
  seconds of a timestamp.
- Offsets of timestamps. `Writes` lets a client send UTC only, as the comment on `parseTime`
  has it (`vectorize.go:105`). The code does not insist: `parseTime` honours an offset
  (`vectorize.go:107-113`), and `parseRFC3339Z` never looks at byte 19 or behind it and
  takes the local time for UTC (`fast.go:278-303`), so on a timestamp with an offset the
  two vectorizers differ and `NeverMisread` claims nothing.
- gzip and `encoding/json` inside `dataset.Load`, and records that decode to
  fewer than 14 numbers.
- In the balancer: TCP keep-alive, a host that disappears without a reset (its
  connection never ends, there is no idle timeout), more than two backends.
- `cmd/diag`, the environment helpers, profiling, logging, HTTP itself, container limits.

## 7. Plan

Done: SortedBuffer, KSmallest, TopK; ProbeTiers; Grid, Layout, Build, Search,
Engine; Server; Balancer, Splice and Duplex; Dataset, IndexFile and Boot; Json and
Vectorize; the proofs of section 5. Left: **Service**, both APIs and the balancer,
implementing a service that answers each request once.
