------------------------------ MODULE Startup -------------------------------
(***************************************************************************)
(* The start of the program: main (cmd/crawler/main.go) with the files it  *)
(* reads (assets-handler/) and the pools it fills (network/network.go),    *)
(* then crawler.Start (crawler/crawler.go) up to the loop of the workers   *)
(* manager, with the first fetch of every cookie session that it waits     *)
(* for, and the assertions that end the process (assert/assert.go,         *)
(* shutdown/shutdown.go).                                                  *)
(*                                                                         *)
(* The loops that start the subordinate and the backup workers are one     *)
(* step, the one with a uint8 counter is not.  What the policies are is    *)
(* abstracted to whether they compile and pass the checks of               *)
(* NewThresholdsController, and a line of the proxies file to whether it   *)
(* becomes a URL.                                                          *)
(***************************************************************************)
EXTENDS Naturals, FiniteSets, Sequences, SequencesExt, Profiles

CONSTANTS
  Sessions,       \* the cookie sessions, when cookies_sessions_amount is not 0
  ExpectedMaxs,   \* values of cfg.Core.ExpMaxThresholdsAmount,
  Offsets,        \* of ThresholdsOffset,
  RetriesSet,     \* of cfg.Http.MaxRetriesPerItem,
  DelaySet,       \* of cfg.Http.DelayBetweenRetries (ms)
  ProxyFiles,     \* what the proxies file may hold, as lines
  UserAgentFiles, \* and the file of user agents
  WsUrls          \* how many urls of websockets are configured

Uint8Range  == 256
Uint16Range == 65536

\* What a line of a file may be: a line that becomes a URL, or none.
ProxyLines == {"proxy", "blank", "invalid"}
BlankLine  == <<>>

ASSUME SessionsExist == Sessions # {} /\ IsFiniteSet(Sessions)
ASSUME ConfigurationsExist ==
  /\ ExpectedMaxs \cup Offsets \cup RetriesSet \subseteq 0 .. Uint8Range - 1
  /\ DelaySet \subseteq Nat
  /\ WsUrls \in Nat
ASSUME FilesHaveLines == \A file \in ProxyFiles : \A i \in DOMAIN file : file[i] \in ProxyLines

VARIABLES
  cfg,
  assets,    \* what was read from the files
  pools,     \* proxies, user agents, cookie jars and profiles of package network
  conns,     \* connections to websockets
  pc,        \* of main and Start
  capacity,  \* of the channels
  spawned,   \* how many workers of each pool were started
  k,         \* counter of the thresholds workers' loop
  wg,        \* sync.WaitGroup
  session,   \* of each cookie session
  ctx

mainVars  == <<cfg, assets, pools, conns>>
startVars == <<mainVars, pc, capacity, spawned, k>>
vars == <<startVars, wg, session, ctx>>

Configurations ==
  [expectedMax : ExpectedMaxs, offset : Offsets, maxRetries : RetriesSet,
   delay : DelaySet, crashOnFirstError : BOOLEAN, policiesValid : BOOLEAN,
   sessions : {{}, Sessions}]

\* Before the file is read every field is zero.
ZeroConfig ==
  [expectedMax |-> 0, offset |-> 0, maxRetries |-> 0, delay |-> 0,
   crashOnFirstError |-> FALSE, policiesValid |-> FALSE, sessions |-> {}]

-----------------------------------------------------------------------------
(* Sizes of the pools and of the channels                                  *)

SubWorkersAmount(c) == (c.offset * c.expectedMax) % Uint16Range

\* "the channel size is tripled", in 16 bits
SubordinateSize(c) == (SubWorkersAmount(c) * 3) % Uint16Range

\* Mutant: the delay is rounded down to seconds.
DelayFactorFloor(c) == 1 + c.delay \div 1000

\* 1 + uint32(math.Ceil(float64(delayBetweenRetries) / 1000))
DelayFactor(c) == 1 + (c.delay + 999) \div 1000

BackupWorkersAmount(c) ==
  SubWorkersAmount(c) * (IF c.maxRetries < 2 THEN 1 ELSE c.maxRetries) * DelayFactor(c)

\* "the channel size is tripled", in 32 bits: the upper and the lower half by
\* themselves, since TLC has no number beyond them.
BackupSize(c) ==
  LET amount == BackupWorkersAmount(c)
      low    == 3 * (amount % Uint16Range)
      high   == 3 * (amount \div Uint16Range) + (low \div Uint16Range)
  IN ((high % Uint16Range) * Uint16Range) + (low % Uint16Range)

\* "only if D is greater than 4.2 minutes" it is not.
ASSUME AmountIsUint32 ==
  \A c \in Configurations : BackupWorkersAmount(c) \div Uint16Range < Uint16Range

-----------------------------------------------------------------------------
(* main                                                                    *)

\* assert.NoError: the context is cancelled, the goroutine does not go on.
Assertion == ctx' = "cancelled"

GoTo(next) == pc' = next /\ UNCHANGED ctx
Halt       == pc' = "halted" /\ Assertion

GoToIf(condition, next) == IF condition THEN GoTo(next) ELSE Halt

notYet == <<capacity, spawned, k, wg, session>>

OpenStatusLog ==
  /\ pc = "status log"
  /\ \E opens \in BOOLEAN : GoToIf(opens, "config")
  /\ UNCHANGED <<mainVars, notYet>>

\* GetConfigFromFile: it can be opened, and is YAML with these fields.
ReadConfig ==
  /\ pc = "config"
  /\ \/ cfg' \in Configurations /\ GoTo("proxies")
     \/ UNCHANGED cfg /\ Halt
  /\ UNCHANGED <<assets, pools, conns, notYet>>

\* GetProxiesFromFile: every line must be a proxy, an empty one is not.
ReadProxies ==
  /\ pc = "proxies"
  /\ \E file \in ProxyFiles :
       /\ assets' = [assets EXCEPT !.proxies = Len(file)]
       /\ \E readable \in BOOLEAN :
            GoToIf(readable /\ \A i \in DOMAIN file : file[i] = "proxy", "user agents")
  /\ UNCHANGED <<cfg, pools, conns, notYet>>

\* GetUAsFromFile: empty lines are skipped.
ReadUserAgents ==
  /\ pc = "user agents"
  /\ \E file \in UserAgentFiles :
       /\ assets' = [assets EXCEPT !.userAgents = ToSet(file) \ {BlankLine}]
       /\ \E readable \in BOOLEAN : GoToIf(readable, "pools")
  /\ UNCHANGED <<cfg, pools, conns, notYet>>

\* Mutant: LoadUserAgents takes an empty slice.
LoadableWithoutUserAgents == assets.proxies > 0 /\ cfg.sessions # {}

\* LoadProxies, LoadUserAgents and InitCookieJars refuse to load nothing.
Loadable == assets.proxies > 0 /\ assets.userAgents # {} /\ cfg.sessions # {}

LoadPools ==
  /\ pc = "pools"
  /\ pools' = [pools EXCEPT !.proxies = assets.proxies,
                            !.userAgents = assets.userAgents,
                            !.jars = cfg.sessions]
  /\ GoToIf(Loadable, "profiles")
  /\ UNCHANGED <<cfg, assets, conns, notYet>>

GenerateAndLoadProfiles ==
  /\ pc = "profiles"
  /\ pools' = [pools EXCEPT !.profiles = GenerateProfiles(pools.userAgents)]
  /\ GoTo("dial")
  /\ UNCHANGED <<cfg, assets, conns, notYet>>

DialWebsocket ==
  /\ pc = "dial"
  /\ conns < WsUrls
  /\ \/ conns' = conns + 1 /\ GoTo("dial")
     \/ UNCHANGED conns /\ Halt
  /\ UNCHANGED <<cfg, assets, pools, notYet>>

CallStart ==
  /\ pc = "dial"
  /\ conns = WsUrls
  /\ GoTo("channels")
  /\ UNCHANGED <<mainVars, notYet>>

Main ==
  \/ OpenStatusLog \/ ReadConfig \/ ReadProxies \/ ReadUserAgents \/ LoadPools
  \/ GenerateAndLoadProfiles \/ DialWebsocket \/ CallStart

-----------------------------------------------------------------------------
(* Start                                                                   *)

MakeChannels ==
  /\ pc = "channels"
  /\ capacity' = [thresholds |-> cfg.expectedMax, subordinate |-> SubordinateSize(cfg),
                  backup |-> BackupSize(cfg), ws |-> BackupWorkersAmount(cfg)]
  /\ GoTo("cookies")
  /\ UNCHANGED <<mainVars, spawned, k, wg, session>>

StartRefreshers ==
  /\ pc = "cookies"
  /\ wg' = wg + Cardinality(pools.jars)
  /\ session' = [s \in Sessions |-> IF s \in pools.jars THEN "fetching" ELSE session[s]]
  /\ GoTo("workers")
  /\ UNCHANGED <<mainVars, capacity, spawned, k>>

StartPools ==
  /\ pc = "workers"
  /\ spawned' = [spawned EXCEPT !.subordinate = SubWorkersAmount(cfg),
                                !.backup = BackupWorkersAmount(cfg)]
  /\ k' = 1
  /\ GoTo("thresholds")
  /\ UNCHANGED <<mainVars, capacity, wg, session>>

InLoop == k <= cfg.expectedMax

\* for k := uint8(1); k <= idealMaxThresholdsAmount; k++
StartThresholdsWorker ==
  /\ pc = "thresholds"
  /\ InLoop
  /\ spawned' = [spawned EXCEPT !.thresholds = @ + 1]
  /\ k' = (k + 1) % Uint8Range
  /\ UNCHANGED <<mainVars, pc, capacity, wg, session, ctx>>

ThresholdsWorkersStarted ==
  /\ pc = "thresholds"
  /\ ~ InLoop
  /\ GoTo("controller")
  /\ UNCHANGED <<mainVars, capacity, spawned, k, wg, session>>

\* compilePolicies and NewThresholdsController
MakeController ==
  /\ pc = "controller"
  /\ GoToIf(cfg.policiesValid, "wait")
  /\ UNCHANGED <<mainVars, capacity, spawned, k, wg, session>>

\* wg.Wait()
SessionsReady ==
  /\ pc = "wait"
  /\ wg = 0
  /\ GoTo("highest ID")
  /\ UNCHANGED <<mainVars, capacity, spawned, k, wg, session>>

\* FetchHighestID; on success the status log and the manager are started.
FetchHighestID ==
  /\ pc = "highest ID"
  /\ \E fetched \in BOOLEAN : GoToIf(fetched, "running")
  /\ UNCHANGED <<mainVars, capacity, spawned, k, wg, session>>

Start ==
  \/ MakeChannels \/ StartRefreshers \/ StartPools \/ StartThresholdsWorker
  \/ ThresholdsWorkersStarted \/ MakeController \/ SessionsReady \/ FetchHighestID

-----------------------------------------------------------------------------
(* The refresh workers, up to OnSessionReady                               *)

FirstFetchSucceeds(s) ==
  /\ session[s] = "fetching"
  /\ session' = [session EXCEPT ![s] = "complete"]
  /\ wg' = wg - 1
  /\ UNCHANGED <<startVars, ctx>>

\* Mutant: the session is reported as ready before the error is looked at.
FirstFetchFailsReadyFirst(s) ==
  /\ session[s] = "fetching"
  /\ session' = [session EXCEPT ![s] = "incomplete"]
  /\ wg' = wg - 1
  /\ IF cfg.crashOnFirstError THEN Assertion ELSE UNCHANGED ctx
  /\ UNCHANGED startVars

\* Mutant: a session that failed is never reported as ready.
FirstFetchFailsSilently(s) ==
  /\ session[s] = "fetching"
  /\ session' = [session EXCEPT ![s] = "incomplete"]
  /\ IF cfg.crashOnFirstError THEN Assertion ELSE UNCHANGED ctx
  /\ UNCHANGED <<startVars, wg>>

FirstFetchFails(s) ==
  /\ session[s] = "fetching"
  /\ session' = [session EXCEPT ![s] = "incomplete"]
  /\ IF cfg.crashOnFirstError
       THEN Assertion /\ UNCHANGED wg
       ELSE wg' = wg - 1 /\ UNCHANGED ctx
  /\ UNCHANGED startVars

Refresher(s) == FirstFetchSucceeds(s) \/ FirstFetchFails(s)

-----------------------------------------------------------------------------
(* The process                                                             *)

\* HandleSIGTERM
Interrupt == ctx = "live" /\ ctx' = "cancelled" /\ UNCHANGED <<startVars, wg, session>>

\* Shutdown: os.Exit, 250 ms after the context was cancelled.
Exit == ctx = "cancelled" /\ ctx' = "exited" /\ UNCHANGED <<startVars, wg, session>>

Ended == (ctx = "exited" \/ pc = "running") /\ UNCHANGED vars

Init ==
  /\ cfg = ZeroConfig
  /\ assets = [proxies |-> 0, userAgents |-> {}]
  /\ pools = [proxies |-> 0, userAgents |-> {}, jars |-> {}, profiles |-> {}]
  /\ conns = 0
  /\ pc = "status log"
  /\ capacity = [thresholds |-> 0, subordinate |-> 0, backup |-> 0, ws |-> 0]
  /\ spawned = [thresholds |-> 0, subordinate |-> 0, backup |-> 0]
  /\ k = 0
  /\ wg = 0
  /\ session = [s \in Sessions |-> "not started"]
  /\ ctx = "live"

Step == Main \/ Start \/ (\E s \in Sessions : Refresher(s)) \/ Interrupt \/ Exit

Next == (ctx # "exited" /\ Step) \/ Ended

Spec == Init /\ [][Next]_vars

\* Every goroutine that can run is scheduled, and every fetch returns.
Fairness ==
  /\ WF_vars(ctx # "exited" /\ (Main \/ Start))
  /\ \A s \in Sessions : WF_vars(ctx # "exited" /\ Refresher(s))
  /\ WF_vars(Exit)

FairSpec == Spec /\ Fairness

-----------------------------------------------------------------------------
(* Properties                                                              *)

\* The manager runs only with the pool of thresholds workers it was configured
\* for, after every session had its first fetch, and, if failures are to crash
\* the program, with all of them complete: also when the process is just going
\* down because of one of them.
ManagerStartsPrepared ==
  pc = "running" =>
    /\ spawned.thresholds = cfg.expectedMax
    /\ \A s \in Sessions :
         session[s] \in IF cfg.crashOnFirstError THEN {"complete"}
                                                 ELSE {"complete", "incomplete"}

\* The random picks of a proxy, a profile and a session "are not assert checked
\* (len(pool) > 0)": whatever the files hold, no fetch begins with an empty pool.
NoPickFromNothing ==
  (\E s \in Sessions : session[s] = "fetching") \/ pc \in {"highest ID", "running"} =>
    pools.proxies > 0 /\ pools.profiles # {} /\ pools.jars # {}

\* Whatever the user agents are, known browsers or not: the pool has no profile
\* without a client hello, which the TLS handshake dereferences, none that asks
\* for an encoding which the responses are not decoded from, and none whose hello
\* is Safari's or Firefox's with an encoding or headers that these do not have.
ProfilesAreUsable ==
  \A p \in pools.profiles :
    /\ p.hello # NoHello
    /\ p.encodings \subseteq Decodable
    /\ p.hello.browser = "Safari" => "zstd" \notin p.encodings
    /\ p.hello.browser = "Firefox" => FullHeaders(p) \cap ClientHints = {}

\* "the amount of backup workers needed is N*M*(1+D/1000)", in whole numbers.
BackupPoolSuffices ==
  pc = "running" =>
    spawned.backup * 1000
      >= spawned.subordinate * cfg.maxRetries * (1000 + cfg.delay)

\* The start does not hang: the manager runs at last or the process exits,
\* whichever fetches fail and whatever they fail with.
StartsOrExits == <>(pc = "running" \/ ctx = "exited")

\* expected_max_thresholds_amount(max_255): no more workers than configured.
NoMoreThanConfigured == spawned.thresholds <= cfg.expectedMax
=============================================================================
