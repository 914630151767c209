# A verification of the IDs crawler

TLA+ specifications of the crawler in this repository, checked with TLC and, in
part, proved with TLAPS. The crawler finds the newest items of a server whose
items have consecutive IDs. It probes some IDs above the highest known one,
fetches everything below the highest probe that exists, tries failed items
again, and sends what it got to websocket clients.

To repeat a check: `tlc -config MCWorkersManager.cfg MCWorkersManager`; to
repeat a proof: `tlapm WorkersManagerProofs.tla`. `PROJECT.json` lists the runs,
the mutants (definitions with a plausible mistake, for which the property named
beside them is violated), the lines every definition stands for, the hazards of
the code and the theorems.

Paths below are relative to `src/app/pkg/`; `crawler/` holds most of them.

## 1. Inventory

### The parts and what they keep

| part | source | state | operations |
|---|---|---|---|
| thresholds controller | `thresholds/thresholds-controller.go`, `crawler/thresholds-adjustment-policies.go` | the number of thresholds of the next batch (uint16), the last timestamp | `NewThresholdsController`, `GetThresholdsAmount`, `Update` |
| workers manager | `crawler/workers-manager.go` | batch ID, drifting offset, highest threshold, last successful ID, the results of the batch | `run`: send thresholds, collect, scan from the top, fill the gaps, report |
| thresholds workers | `crawler/workers/thresholds-worker.go` | the ID at hand | take, wait for the rate limit, fetch, ask for a refresh, count, answer |
| subordinate workers | `crawler/workers/sub-worker.go` | the item at hand | take, wait, fetch once; deliver, or hand over to the backup workers and ask for a refresh |
| backup workers | `crawler/workers/backup-worker.go` | the item at hand, `retriesAmount` | take, wait, fetch up to `max_retries_per_item` times; deliver or count as lost |
| websocket worker | `crawler/workers/websocket-worker.go`, `safe-ws/safe-ws.go` | `currentConnIdx`, a goroutine per content, a mutex per connection | receive, start a goroutine, advance; marshal, choose, lock, write |
| cookie sessions | `crawler/workers/cookies-refresher-worker.go`, `crawler/network/requests.go`, `network.go` | per session: the jar, the channel of refresh requests | first fetch, refresh on request and drain, periodic fetch |
| status log | `crawler/workers/status-mgmt.go`, `workers-types/types.go` | `State` and `Outcome`, each with a mutex | snapshot, averages, line, resets |
| start | `crawler/crawler.go` | sizes, channels, the wait group | make channels, start pools, wait for the sessions, fetch the highest ID, run the manager |
| main program | `cmd/crawler/main.go` | none after the start | read and parse files, compile policies, load the pools, start |
| configuration and assets | `assets-handler/` | none after the start | read a file, its lines, the YAML |
| network profiles | `crawler/network/profiles.go`, `common-headers.go`, `client-hello-ids.go` | the pool of user agents | detect browser, version and system; choose client hello and headers |
| fetches and proxies | `crawler/network/requests.go`, `network.go`, `utils/httpx/` | a socket and a deadline per request | dial, CONNECT, handshake, request, read, decompress, decode |
| assertions, shutdown | `assert/assert.go`, `shutdown/shutdown.go`, `utils/mapx/` | the cancel function | cancel, log, end the process after 250 ms |

### How they interact

    manager --thresholdsWkIDsChan--> thresholds workers --thresholdsWkResultsChan--> manager
    manager --subordinateWkIDsChannel--> subordinate workers --backupChan--> backup workers
    manager, subordinate, backup workers --wsChan--> websocket worker --> goroutines --> connections
    all workers --RefreshChan--> refresh worker of a session;  refresh workers --> jars --> all workers
    all workers --Outcome, State (mutexes)--> status log;  Outcome.RateLimits --> workers (wait)

All channels are bounded. The sends wait for room, except the refresh requests of
the backup workers. Every goroutine runs until the context is cancelled; a worker
looks at the context only between two items. A failed assertion cancels the
context, keeps its goroutine from going on and ends the process.

### What is hard here

* *Order.* Results of the thresholds come in any order, and late ones during a
  later batch. They have to be discarded exactly when the batch that follows does
  not cover their IDs any more. All goroutines of the websocket worker read one
  index, two goroutines replace one jar that every response may change.
* *Waiting in circles.* The manager sends all thresholds before it collects one
  result, subordinate workers wait for three channels one after the other, the
  status log holds two mutexes at a time.
* *Things that fail half way.* A fetch with a cause that asks for something else
  (refresh, counter), a write while a mutex is held, a session that cannot be
  refreshed, an assertion while other items are under way.
* *Silence.* A proxy or a server that stops answering at any point of a request;
  what still looks at the timeout then, and who closes the socket.
* *Numbers.* `uint8` loop counters, `uint16` products and sums, `float32`
  percentages that are compared at their boundaries.
* *Counting.* Retries, cookies and outcomes decide when a loop ends or what a
  line says.

### What makes each part correct

| part | correct when |
|---|---|
| controller | a batch that reached further is not answered with fewer thresholds; the amount is never 0, or at least never for the batch loop |
| manager and thresholds workers | no ID is sent twice; none below the frontier is left out; no result that matters is discarded; every batch ends |
| item pipeline | every item handed out is delivered or counted as lost, once; it is lost only after all its tries; nobody waits for ever |
| websocket worker | one writer per connection; each content written once or logged |
| fetches | every path closes its socket or leaves it to the deadline; a request ends; the keys looked for in a response are those its url asks for |
| cookie sessions | a fetch without an error has found cookies that the server accepts; requests never hold up a worker for good; a dead session is replaced |
| status log | no outcome in two lines, none lost but in one known place; no line claims more requests than outcomes or mixes two batches; no deadlock |
| main program, start | the manager starts with the pools, files and sessions it needs, or the process exits |
| network profiles | every user agent gets a client hello that exists, and headers that fit it |

## 2. Plan

In the order of importance; the last two points are open.

1. `ThresholdsController`, `WorkersManager`, abstract `Frontier`. *Done*, with
   proofs of all its safety properties and of the refinement.
2. `ItemPipeline`, abstract `ItemDelivery`. *Done*, with proofs of the same.
3. `WebsocketWorker`, `CookieSession`, `StatusLog`, `Startup`. *Done*, with proofs.
4. `Crawler`: manager, thresholds workers and pipeline over the channels they
   share, with their liveness. *Done*, with proofs of its safety properties, and
   that it implements the batch loop and both abstract specifications.
5. `Fetch`: requests, sockets, deadlines and keys. *Done*, with proofs.
   `Profiles` and the main program in `Startup`. *Done.*
6. The shutdown as a module of its own, with the order of the deferred functions
   of every goroutine. Its parts are in `ItemPipeline`, `CookieSession`, `Crawler`
   and `Startup`.
7. The averages of the status log with their widths.

## 3. The modules

### ThresholdsController
`thresholdsAmount` and `currentTimestamp` are the fields of the controller's
state. `Update` is the method of that name; `MinMatchingLevel` computes
`policy.Percentage * float32(amount)` bit by bit, since rounding decides whether
a level matches, and `Increased` cuts to 16 bits as the code does. A compiled
expression is the constant operator `ComputeIncrement`, which returns an integer
(the expression library is external; a failing expression is an assertion). The
checks of `NewThresholdsController` are the assumptions on the constants.
`MCThresholdsController` has the four policies of `config.yml`.

### WorkersManager and Frontier
One process for `run`, with `pc` for its place in the loop, and one for each
thresholds worker (`phase`, `item`). Both channels are sequences with the
capacity `IdealMaxThresholdsAmount`. One action per statement that another
goroutine can see or that waits: `StartBatch`, `SendThreshold`, `DiscardResult`,
`AcceptResult`, the three outcomes of the scan, `FillGap`, `FinishBatch` (which
includes `Update`). What goes to the websocket worker and to the subordinate
workers is kept as the histories `successfulItems` and `subordinateItems`. That
these sends may wait, and what a thresholds worker does besides taking, fetching
and answering, is in `Crawler`.

`Frontier` states the promise without batches: IDs above the frontier are
delivered or assigned at most once, and the frontier moves to the highest
delivered ID when all IDs it passes are delivered or assigned, or when batches
are limited and none of the passed IDs was assigned. The mapping, at the end of
`WorkersManager`, takes `stateHighestID` for the frontier and the histories for
the sets.

### ItemPipeline and ItemDelivery
Subordinate and backup workers are processes with a `phase` and a `task` (item,
retries, what its failure asks for); the four kinds of channels are sequences of
items or, for the refresh requests, numbers. The order inside a handler is
kept: the item goes to the backup channel before the refresh request is sent, the
content goes to the websocket channel before the timestamp is parsed. The
cancelled context, the failing assertion and the end of the process are actions.
The other ends of the channels are reduced to what they do there. `ItemDelivery`
states the promise for each item: pending, delivered or lost, for good, lost only
after one try and `MaxRetriesPerItem` retries.

### Crawler
An instance of `WorkersManager` (`B`) and one of `ItemPipeline` (`P`) over common
channels. A step in which one hands something to the other is a step of both:
`FillGap` is the manager's and the pipeline's `Assign`; a content is held in
`pending` until `DeliverThreshold` finds room. The thresholds workers have here
all their steps: the wait for rate limits, the counting, the refresh request,
the timestamp that ends the program. `LoopIsConfigured` and
`PipelineIsConfigured` repeat what the two modules assume of their constants, since
an instance does not bring its assumptions along.

### Fetch
All requests for one item, that of a subordinate worker and those of a backup
worker, each with its deadline and, for https, its socket (net/http
dials and closes those of plain http itself, so the properties about sockets say nothing
of them). A step is what the proxy or the
server may do next: accept, answer CONNECT, shake hands, answer, end; each may
fail, or never come. `http.Client` follows redirects, each hop over a connection of
its own (`Connection: close`) and under the deadline of the first (`Redirect`): a request
that was past its dial can come back to it. `appended` and `asked` follow whether the addition was
appended to the url, from the random choice of the first try through the packet
to the keys that are looked for in the response. net/http and x/net/http2 are
external: what they do with a context and a body is modelled from their use.

### WebsocketWorker
The worker, a goroutine per content, the mutex of `SafeConn` as its holder.
`Select` reads `currentConnIdx` in a step of its own. The read is a data race
with the worker's assignment; on the platforms Go supports a word is read before
or after it, which the interleaving shows.

### CookieSession
One session. `FetchCookie` is split into the response (`Respond`, which also
stands for no response when it is not taken) and what is done with it (`Succeeds`,
`Fails`). The server may send none, one or two cookies of each target name. `Accepts`
counts them (`Targets`) as the code does, so two of one name count twice. The assignment
`*jar = tmpJar` is one step: both values have one dynamic type, so a racing reader sees
the old or the new jar. The jar is also that of every worker's client (`httpx.go:78`):
any response may set, replace or delete a cookie in it, and cookies expire. What is in
the jar matters only as whether the server accepts it (`jarValid`): a fetch, a response
(`Use`) and the end of the session (`Expire`) change that. The periodic fetch is a second process. It logs to the channel that
the refresh worker closes when it returns (`RefresherStops`), so that an error it
has to log after that is a panic (`TimerFetchPanics`).

### StatusLog
The loop's critical sections one by one; those of the workers and the manager
are one step each, since only the loop ever holds two mutexes. The sleep of a
second is the freedom to take `Snapshot` as late as one likes. `occurred`,
`reported` and `missed` are histories: what happened, what is in a line, and what
was counted between a line and the reset that follows it. The averages are left
out.

### Startup and Profiles
`Startup` follows `main` and then `Start` step by step, for a configuration and
files chosen at the beginning: every error that `main` checks, what each kind of
line of a file leads to, the sizes as they are computed, the `uint8` loop
counter, the wait group, the first fetches of the sessions, the assertions and
an interrupt at any time. `AmountIsUint32` is what makes the size of the backup
pool fit the `uint32` it is computed in; its triple, the size of the channel, is cut
(`BackupSize`). `Profiles` holds pure operators: a user agent is the
set of words the code looks for with what follows them, `BrowserInfo` takes the
first that matches as the `switch` does, `Hello` looks up the client hello with
its fallback, `FullHeaders` has the names of the headers.

## 4. The runs

All runs finish within three minutes with two workers.

| run | what it asks | bounds |
|---|---|---|
| `controller` | `MonotoneResponse`: a further level is never answered with less, from 4 thresholds on (below, a quarter is cut to 0). `RoundingAtMostOne`: `float32` moves the level a policy asks for by at most one, upwards | policies of `config.yml`, amounts up to 120, three timestamps on both sides of the 500 ms of the first policy |
| `batches` | types and channel bounds, `NothingOutstandingAbove`, `SettledOnce`, `LoggedFrontierConfirmed`, `SendNeverBlocks`, `OffsetInRange`, refinement of `Frontier`, `BatchCompletes` | 3 batches of 3, 2 and 1 thresholds or less, 2 workers, offset 2 (drifting to 3), a limit of 4 IDs per batch so that some batches are over it |
| `batches_deadlock` | finding, see below | a pool of 1, amounts up to 10 |
| `pipeline` | `EachItemInOnePlace`, refinement of `ItemDelivery` | 3 items, 2 + 2 workers, all channels of size 1, 2 retries, a rate limit at the first 429; symmetric in items and workers |
| `crawler` | `EachIDInOnePlace`, `NothingLeftBehind`, `BatchCompletes`, `FrontierIsSettled` | a batch of 3 thresholds, then one of 1; offset 1, IDs 1 to 4; one worker of each kind, one session, all channels of size 1, 1 retry, a rate limit at the first 429 |
| `fetch` | `NoSocketIsForgotten`, `OnlyTheItemKeyPanics`, `OnlyTheDialHangs` | 3 tries, http and https, 2 redirects of the 10 that net/http follows, every setting of the addition to the url |
| `fetch_timeout` | finding | as above |
| `websocket` | `OneWriterPerConnection`, `WrittenOrLogged`, `ReceivedIsHandled` | 4 contents, 2 connections |
| `cookies` | `FetchedIsUsable`, `CrashOnlyAfterCancel`, `RequestsAreTaken`, `SessionRecovers` | 2 names, up to two cookies of each; 1 worker that waits and 1 that does not, a channel of size 1, the server ends the sessions twice, responses change the jar at any time; both settings of crashing on a failed first fetch |
| `status` | `ReportedOnceOrMissed`, `LineAddsUp`, `LineIsOfOneBatch`, `NobodyIsStuck` | 2 workers, 2 outcomes of 3 kinds, 2 batches, any number of lines |
| `startup` | `ManagerStartsPrepared`, `NoPickFromNothing`, `ProfilesAreUsable`, `BackupPoolSuffices`, `StartsOrExits` | 2 sessions; expected maxima 0, 1, 254; offset 255; retries 0, 5; delays 100 and 1500 ms; 4 proxies files, 4 files with 11 kinds of user agents; 2 websockets; both values of the crash setting |
| `startup_max255` | finding | a maximum of 255 |

Why the bounds are enough: every rule of the batch loop relates a batch to the
one before it, so that three batches show a late result that meets a later
batch after another one; two workers already reverse two results; three
thresholds have a top, a middle and a bottom. In the pipeline, channels of size 1
are full as early as possible, and three items fill a worker, the channel behind
it and the one before it. In `Crawler` one worker of each kind closes a circle of
waits as soon as one exists, since nobody else could open it; three thresholds
are more than the IDs channel and the worker hold, so the manager sends and
waits; the second batch meets what is left of the first one. Three tries have a
first, a middle and a last one, with two responses left unread; after two redirects a
request has come back to its dial from a dial that it had come back to. Two connections
and four contents let the index come around while a goroutine waits. In
`CookieSession` a channel of size 1 makes the second request wait, be it of the same
worker, and two cookies of one of two names are the least that hide the other. The user
agents take each branch of the `switch` statements that can be reached. The
bounds are constants of the modules (`MaxBatches`, `MaxContents`, `MaxEvents`,
`MaxExpiries`, `MaxTries`, which is the configured number); where reaching one
would be a deadlock of the model it is a stuttering action (`BoundReached`,
`Quiet`, `Ended`).

Deadlock is checked except in `cookies` (a cancelled process stops), `fetch` (an
item that is fetched or given up is done), and `batches`, `crawler` and `status`,
where a liveness property of the run says the same and more. In `pipeline` and `startup`
it means little, since a cancellation, an interrupt or the end of the process is nearly
always possible: that nobody waits for ever is shown by `BatchCompletes`,
`FrontierIsSettled` and `StartsOrExits`, and of the guards by `CrawlerIsNeverStuck`.

### Fairness

* Every goroutine that can run is scheduled: weak fairness of each process. This
  is what Go's scheduler gives. In `Crawler` and `Startup` it holds while the
  process runs.
* In `Fetch` nothing is assumed of the proxy and the server: only the worker's own
  steps, the passing of time, and the end of a TCP dial, which has a timeout of 5
  seconds. `OnlyTheDialHangs` says for which requests that is enough.
* The other modules assume that every fetch and every write returns. After
  `fetch_timeout` that is an assumption about the proxies: they answer CONNECT and
  let the handshake end. A write on a websocket has no deadline either.
* A worker that wants a mutex gets it at some time although the loop takes it
  again and again: strong fairness of the locking steps. `sync.Mutex` hands a
  mutex over to a waiter that starves.
* `CookieSession`: the drain ends (strong fairness of `DrainEnds`). A worker needs
  a response between two requests and the drain only a receive, so it is faster;
  without the assumption TLC shows that new requests can keep it going for ever.
  And of infinitely many refreshes infinitely many are answered with the cookies
  (strong fairness of `Respond` with all cookies). A worker that waits for room in
  the channel gets it at some time although others fill it as well: strong fairness of
  `Request`, since a Go channel serves its waiting senders in the order they came.
* None is assumed of the periodic fetch, of the reset of the rate limits, of a
  cancellation or an interrupt, of the server's ending a session, of what responses
  set on a jar, or of a new outcome.

### Findings

* `batches_deadlock`: `crawler.go:35` says that the system slows down when the
  expected maximum of thresholds is exceeded. The manager sends all thresholds
  of a batch before it receives one result (`workers-manager.go:53-59`). When
  the IDs channel, the workers and the results channel are all full, manager and
  workers wait for each other. More than three times the maximum fill them; fewer
  do when results of the batch before are still on their way. The theorem
  `SlowsDownUpToTwicePool` says that twice the maximum and one more are safe. For a
  pool of 2, TLC finds the circle with 6 thresholds, the least the theorem leaves.
  Beyond three times the maximum no batch is ever decided
  (`LargerBatchesAreNeverDecided`).
* `fetch_timeout`: the README (line 81) calls `requests_timeout_seconds` the
  timeout for HTTP requests. `dialWithUTLS` ignores the context of the request
  and sets no deadline (`httpx.go:60-68`, `106`, `125`): a proxy that is silent
  after accepting the connection, or a server that is silent in the handshake,
  keeps the request, and its worker, for ever.
* `startup_max255`: `config.yml:3` allows 255. `k` is a `uint8`, `k <= 255` always
  holds (`crawler.go:142`), and the loop starts workers without end.

Seen while modelling, and not kept as runs:

* `uint16(max(1, ...))` (`thresholds-controller.go:142`) cuts after the maximum is
  taken, so that the amount need not be "always greater than 0" (line 154). With the
  policies of `config.yml` and batches that all reach their top, the amount grows to
  52429, and 52429 + 13107 is cut to 0 (`CutReachesZero`). In the batch loop the circle of waits comes first, at the
  latest beyond three thresholds per worker (`BatchesAreNotEmpty`).
* README line 192 documents `item_when_url_suffix` as the key of the item when the
  addition is appended. It is read from the file and never used
  (`backup-worker.go:163`): with an item key of its own a worker panics at the first
  such response. `OnlyTheItemKeyPanics` says that this is the only such key.
* README line 225 says that all session cookies must always be present, and that the
  logs tell when they are not. `FetchCookie` counts cookies and not names
  (`requests.go:89-102`): two of one name, with different domains or paths, stand for a
  missing one, the jar is replaced and no error is logged. `FetchedIsUsable` says that
  its count is wrong about nothing else.
* A product in `float32` can be above the written percentage: level 15 of 50 does
  not match the policy 0.3, whose product with 50 is 15.000001
  (`thresholds-controller.go:135`; the comment at 124 says it does). `RoundingAtMostOne` bounds the effect.
* `websocket-worker.go:19` says connections are chosen in a cycle. The goroutine
  reads `currentConnIdx` when it writes (line 85), after the worker has advanced
  it (line 97), once or several times. Without websocket urls line 97 divides by 0.
* The error of a requested refresh is dropped (`cookies-refresher-worker.go:81`),
  and that of the first fetch unless it is to crash the program.
* `subWorkersAmount*3` and `thresholdsAmount*offset` are products in 16 bits
  (`crawler.go:48`, `workers-manager.go:100`).
* A response with another status than 200, or one that cannot be decompressed,
  leaves its body open (`requests.go:223`); "deflate" is read as raw flate.
* A version of a browser without a client hello of its own falls back to that of
  Chrome 102, with the headers of its browser (`profiles.go:279`; line 67 calls
  profiles consistent). The system of an iPhone is called "iOS", so that the test
  for "iPhone" in `generateMatchingSecChUa` never holds; no browser is called "iOS",
  and an iPad that says "Mac OS X" is taken for a Mac.
* A blank line ends the program in the proxies file and is skipped in the file of
  user agents.
* `mapx.CopyNoDuplicates` does not return on a repeated key. No call passes one.

## 5. The proofs

Checked by tlapm, for every value of the constants that satisfies the ASSUMEs of
the modules (valid policies, integer increments, a pool of 1 to 254 workers, an
offset of 1 to 255, disjoint finite pools, channels with room for one message,
a finite set of sessions and of cookie names). A theorem that needs more says so
in an ASSUME of its own, which is named below. Hardly any of the invariants is
inductive by itself; each proof names what it adds.

### WorkersManagerProofs: the controller

`ControllerTypeCorrect`, `ResponseIsMonotone`, `RoundingIsAtMostOne`. The least
matching policy is one of the list (`LeastOfNaturals`, from the well-foundedness of
the naturals), and cutting to 16 bits gives a uint16. That the amount is positive is
not true of the controller by itself (`CutReachesZero`).

`ResponseIsMonotone` is about any list of policies whose percentages are `float32`
values (`PercentagesAreFloats`: mantissas of 24 bits) and in which an earlier
policy increments at least as much as a later one, for 4 thresholds or more
(`PoliciesAreOrdered`); TLC finds both true of the policies of `config.yml`. A level
that matches a policy keeps matching it when the level rises, so the first policy
that matches can only move up (`FurtherMatchesEarlier`), and `Increased` is
monotone where nothing is cut off (`IncreasedIsMonotone`).

`RoundingIsAtMostOne` bounds what `float32` does to the boundaries of the levels. Its
premise `PercentagesAreRounded` says that each percentage is the `float32` next to the
hundredths that were written, and at most 1, as every percentage from 0.01 to 1 with
two decimals is. The errors of the percentage and of the product are
together less than a hundredth of a threshold (`ErrorsAreSmall`), and the exact product
is a number of hundredths, so the two ceilings differ by at most one, upwards
(`NearbyCeilings`). The lemmas before these split the product into its 24 upper
bits and the rest, as `MinMatchingLevel` does (`ProductIsSplit`, `LevelOfParts`).
Powers with a variable exponent are beyond the solver; `PowersMultiply` gets them
from the number of subsets of a finite set.

### WorkersManagerProofs: the batch loop

`TypeCorrect`, `NothingIsOutstandingAbove`, `ManagerSendsWithoutBlocking`,
`OffsetStaysInRange`, `LimitIsExact`, from the invariant `Inv`. That nothing is outstanding above a
decided batch needs to be known of the batch while it runs:

* `HandedOnce`: an ID that a worker took is at one worker or once in the results
  channel, never at two places;
* `BatchIDs`: the thresholds of an open batch are `lastSuccID + k * offset`; the
  queue holds the last ones of them in order (both ends of the channel are
  first-in first-out); what was taken from it is older than the batch or one
  of the first `Taken` thresholds; a received result is at no other place;
* `Sending`: moreover `sent` thresholds are out and the highest is the last one;
* `Deciding`: moreover every threshold above the current level was received, so
  that the scan has only gone down past IDs that are no longer outstanding;
* `Decided`: the queue is empty and all that workers still have is below the
  chosen ID, which the next batch makes its `lastSuccID`: the reason why
  `result.ItemID < lastSuccID` discards exactly the late results.

`OffsetInRange` makes the offset positive, without which the thresholds of a
batch would not be distinct. `ManagerSendsWithoutBlocking` follows from
`Sending`: the queue holds only thresholds of this batch that were sent.
`LimitIsExact` needs that the offset stays below twice the configured one: the
product of `workers-manager.go:100` is not cut for up to 128 thresholds.

`LoopDrivesController`: the loop makes only
the calls of `Update` that `ControllerSpec` allows. `InputsInv` says that the level of the
scan never exceeds the amount that was asked for.

`SlowsDownUpToTwicePool` says when the manager cannot be waiting for workers that wait
for it. If it were, twice as many results as there are workers would be with the
workers and in their channel (`BlockedPool`). The thresholds of the batch that were taken are
too few for that, so the rest are late results of earlier batches, and `FewLate` keeps
these fewer than the workers: IDs are taken in order, so whatever is received after
a higher result was then at another worker (`Behind`, `Late`).

`LoopIsNeverStuck`: up to the same amount the manager or a worker can take a step. It
needs `NoneLost`: a threshold that was sent is in the queue, at a worker, in the results
channel or received, so that the manager does not wait for a result nobody owes. The
theorem is about the guards of the actions (`ManagerCanStep`, `WorkerCanStep`), written
out, since ENABLED is out of the provers' reach.

`LargerBatchesAreNeverDecided` and `BatchesAreNotEmpty`: nothing is received while a
batch is being sent, so everything that was sent is in the queue, in the results channel
or at a worker (`NoneLost`), each of which holds one threshold per worker at most
(`HandedFit`). So a batch that gets past its sending has at most three thresholds per
worker, and only such a batch reaches `Update`. The amount can become 0 only if an
increment for such an amount leads beyond 16 bits. `PoolIncrementsFit`, the premise of
`BatchesAreNotEmpty`, says that none does: a condition on the policies and the pool,
not on the behaviour. TLC finds it true of `config.yml` with the largest pool
(`IncrementsFitLargestPool`, amounts up to 762).

### WorkersManagerProofs: the frontier

`EachIDIsSettledOnce`, `LoggedFrontierIsConfirmed`, `LoopImplementsFrontier`, from
`FrontierInv`, which builds on `Inv`. Between two batches everything that was sent
is at or below the frontier (`BetweenBatches`). While a batch is open, what it
fetched is all that is above the old frontier, so that a result which is not
stale is new (`OpenBatch`). Once it is decided, the gaps are what is left to settle
between the old and the new frontier, or the whole stretch is skipped
(`ClosedBatch`). The refinement maps `AcceptResult` of a success to `Deliver`,
`FillGap` to `Assign`, `FinishBatch` of a batch with a hit to `Advance`, and every
other action to a stuttering step. `FrontierOnlyAdvances` is the action property that the
highest ID of the status log never falls. `NothingSkipped`, for the composition, says that
without limits every ID up to the frontier is settled.

### ItemPipelineProofs

`PipelineTypeCorrect`, `NoItemIsDroppedOrDoubled`. `Places` is a sum with one term per
place; every action makes one term of one item smaller by one and another larger
by one. That needs `WorkerInv`: a worker has an item in exactly the phases of
`Holding`, so that it takes none over another and sends none it has not; and a
backup worker fetches only while it has a retry left. The cardinality lemmas
(`CopiesAppend`, `CopiesTail`, `HeldTaken`, `HeldReleased`) say what a send, a
receive and a change of hands do to the terms.

`PipelineImplementsDelivery`. Because an item is in one place only, that place
determines its status and its number of failed tries (`PlaceDetermines`). So each
action needs to be looked at only for the item it moves: the place it comes from
and the place it goes to give the step of `ItemDelivery`, and the other items keep
their values (`KeptWhereItIs`).

### CrawlerProofs

`EachIDIsInOnePlace`, `NothingIsLeftBehind`, `CrawlerImplementsLoop`,
`CrawlerImplementsFrontier`, `CrawlerImplementsDelivery`: what was proved of the
manager and of the pipeline holds of the two together, and each ID passes from
the one to the other exactly once.

`Crawler` has its instances `B` and `P`, and the proofs about the two modules come
in with instances of their own, `BP` and `PP`. The provers take the definitions of
two instances for different operators, so the first section shows that they agree.
Then every step of the crawler is one of `BP` or leaves its variables (the detours of
a thresholds worker are invisible through `LoopPhase`), and one of `PP` or moves no
item. What is left is `CrawlerInv`, with `Linked`: the pipeline has not seen the IDs
that the loop has not settled, nor the content the manager still holds, which is
above the frontier and held only during the scan. A filled gap was not settled
before (`FilledIsNew`), nor was the ID of an accepted result (`AcceptedIsNew`), so both
find their ID unseen.

The theorems about where IDs are assume `IDs = Nat \ {0}`, all IDs there are; the
model has a set in its place because TLC needs a finite one. The two theorems
that the crawler implements the loop and `Frontier` need no such premise.

`CrawlerIsNeverStuck`: while the program runs, some goroutine can go on, for all pools
with a worker and all channels with room for one message, in batches of at most
twice as many thresholds, and one, as there are workers for them. The argument follows
the channels backwards: the websocket worker and the refreshers take whatever is in
theirs; so a backup worker that cannot go on has nothing to do, and its channel is
empty; the same then holds of a subordinate worker (`PoolsRest`); so the manager
and the thresholds workers wait for nothing but each other (`LoopGoesOn`), and
`LoopIsNeverStuck` applies, since the crawler implements the loop. `AllAlive` says that
nobody has ended while the context is not cancelled. Again the guards are written
out in place of ENABLED.

### The other components

* **FetchProofs**: `FetchTyped`, `SocketsAreClosed`, `PanicNeedsItemKey`. They need that
  the deadline of a request under way is never off, that a request that was not
  begun has no socket, and that packet and url agree about the addition.
* **WebsocketWorkerProofs**: `WebsocketWorkerTyped`, `WritersAreAlone`,
  `ContentsAreHandledOnce`. They need that whoever writes holds the mutex of its
  connection, and that a content whose goroutine has not ended is neither written
  nor logged.
* **StatusLogProofs**: `StatusLogTyped`, `OutcomesAreReportedOnce`, `LinesAddUp`,
  `LinesAreOfOneBatch`. The total of a line is covered by its counters because they
  only grow from the section that takes the total to the line that shows it
  (`TotalIsCovered`).
* **CookieSessionProofs**: `SessionTyped`, `PanicOnlyAfterCancel`,
  `SuccessfulFetchIsUsable`. The channel is closed only when the context is cancelled
  (`ClosedWhenDone`). If no name has two cookies, as many target cookies as there are
  names are one of each (`CountedOnceIsComplete`), and such a set is accepted by the
  server until it ends a session (`CompleteIsValid`).
* **StartupProofs**: `ManagerIsPrepared`, `PicksFromSomething`,
  `GeneratedProfilesAreUsable`, `BackupPoolIsLargeEnough`, for all configurations and
  files. `StartupInv` says what each line of `main` and `Start` leaves behind for the
  later ones, that the wait group counts the sessions that have not reported, and how
  far the loop over the `uint8` has come. That every profile is usable rests on
  lemmas about `Profiles` (`HelloIsFound`, `EncodingsAreDecodable`). The backup pool
  is a matter of integer arithmetic: the delay is rounded up before it is multiplied
  (`DelayIsRoundedUp`). `OnlyMax255Overflows` complements the finding
  `startup_max255`: if no configuration asks for 255, no loop starts more workers
  than configured.

### Only model-checked

* All liveness properties (`BatchCompletes`, `FrontierIsSettled`, `OnlyTheDialHangs`,
  `ReceivedIsHandled`, `RequestsAreTaken`, `SessionRecovers`, `NobodyIsStuck`,
  `StartsOrExits`): they need fairness and ENABLED, out of the prover's reach.
  That a step is possible in every state is proved of the guards (`LoopIsNeverStuck`,
  `CrawlerIsNeverStuck`); that the batches come to their end is not.

## 6. What is not modelled

* The contents of responses, cookies and messages, the texts and random values of
  headers, and which proxy, profile or session is picked.
* What the YAML decoder, the expression library, net/http, x/net/http2, utls and
  the websocket library do inside.
* Logging (each worker's log channel of 1000 lines is emptied by a goroutine of its
  own), except that the channel of the refresh worker is closed; delays and
  averages (`slicex`), log levels, paths (`pathx`).
* The merging of an assertion's data (`mapx`).
* An answer of a server that is not of the expected shape: the type assertions
  (`requests.go:160` and in the workers) panic and end the process like a failed
  assertion, but without the 250 ms. `Fetch` has the case of a missing key.
* Which cookies a response sets or deletes, and those without a target name: of the
  jar only matters whether the server accepts it.
* Whether a response called "deflate" has the zlib header (`Decodable`, see above).
