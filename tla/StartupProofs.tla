---------------------------- MODULE StartupProofs ----------------------------
(***************************************************************************)
(* Theorems about the start of the program, for any configuration, files,  *)
(* sessions and websockets, and any step that fails.                       *)
(***************************************************************************)
EXTENDS Startup, FiniteSetTheorems, TLAPS

Unstarted == {"status log", "config", "proxies", "user agents", "pools", "profiles",
              "dial", "channels", "cookies"}
Equipped  == {"dial", "channels", "cookies", "workers", "thresholds", "controller",
              "wait", "highest ID", "running"}
Working   == {"controller", "wait", "highest ID", "running"}

Types ==
  /\ pc \in Unstarted \cup Equipped \cup {"halted"}
  /\ cfg \in Configurations \cup {ZeroConfig}
  /\ pc \notin {"status log", "config", "halted"} => cfg \in Configurations
  /\ {"proxies", "userAgents"} \subseteq DOMAIN assets
  /\ {"proxies", "userAgents", "jars", "profiles"} \subseteq DOMAIN pools
  /\ DOMAIN spawned = {"thresholds", "subordinate", "backup"}
  /\ spawned.thresholds \in Nat
  /\ k \in 0 .. Uint8Range - 1
  /\ session \in [Sessions -> {"not started", "fetching", "complete", "incomplete"}]

PoolsAreLoaded == pools.proxies > 0 /\ pools.userAgents # {} /\ pools.jars = Sessions

\* No session is fetched before the pools are filled, whatever is halted later.
PoolsInv ==
  /\ pc = "profiles" => PoolsAreLoaded
  /\ pc \in Equipped => PoolsAreLoaded /\ pools.profiles # {}
  /\ (\E s \in Sessions : session[s] # "not started") =>
       PoolsAreLoaded /\ pools.profiles # {}

\* The sessions that wg is still to be told of.  A first fetch that fails is never
\* reported when failures crash the program.
Unreported ==
  {s \in Sessions : \/ session[s] = "fetching"
                    \/ session[s] = "incomplete" /\ cfg.crashOnFirstError}

SessionsInv ==
  /\ pc \in Unstarted => \A s \in Sessions : session[s] = "not started"
  /\ pc \in Equipped \ Unstarted => \A s \in Sessions : session[s] # "not started"
  /\ wg = Cardinality(Unreported)
  /\ pc \in {"highest ID", "running"} => Unreported = {}

\* The loop over a uint8 is left only when it was to count to less than 255.
WorkersInv ==
  /\ pc \in Unstarted \cup {"workers"} => spawned.thresholds = 0
  /\ pc = "thresholds" /\ cfg.expectedMax < Uint8Range - 1 =>
       k \in 1 .. cfg.expectedMax + 1 /\ spawned.thresholds = k - 1
  /\ pc \in Working => spawned.thresholds = cfg.expectedMax
  /\ cfg.expectedMax < Uint8Range - 1 => spawned.thresholds <= cfg.expectedMax
  /\ pc \in Working \cup {"thresholds"} =>
       /\ spawned.subordinate = SubWorkersAmount(cfg)
       /\ spawned.backup = BackupWorkersAmount(cfg)

StartupInv == Types /\ PoolsInv /\ SessionsInv /\ WorkersInv /\ ProfilesAreUsable

-----------------------------------------------------------------------------
(* Profiles                                                                *)

LEMMA FallbackExists == LookUp("Chrome", "102") # NoHello
BY DEF LookUp, NoHello, HelloVersions

\* A client hello is always found, and is the one of the browser or of Chrome.
LEMMA HelloIsFound ==
  ASSUME NEW info
  PROVE  Hello(info) # NoHello /\ Hello(info).browser \in {info.browser, "Chrome"}
<1>1. LookUp("Chrome", "102").browser = "Chrome"
  BY DEF LookUp, HelloVersions
<1>2. LookUp(info.browser, info.version) # NoHello
        => LookUp(info.browser, info.version).browser = info.browser
  BY DEF LookUp
<1> QED  BY <1>1, <1>2, FallbackExists DEF Hello

LEMMA EncodingsAreDecodable ==
  /\ DOMAIN AcceptEncodings = 1 .. 4
  /\ \A i \in 1 .. 4 : AcceptEncodings[i] \subseteq Decodable
  /\ "zstd" \notin AcceptEncodings[1]
BY DEF AcceptEncodings, Decodable

\* What ProfilesAreUsable asks of a profile holds of every one that is generated.
LEMMA GeneratedAreUsable ==
  ASSUME NEW userAgents, NEW p \in GenerateProfiles(userAgents)
  PROVE  /\ p.hello # NoHello
         /\ p.encodings \subseteq Decodable
         /\ p.hello.browser = "Safari" => "zstd" \notin p.encodings
         /\ p.hello.browser = "Firefox" => FullHeaders(p) \cap ClientHints = {}
<1>1. PICK ua \in userAgents, i \in 1 .. 4 : p = Profile(ua, AcceptEncodings[i])
  BY EncodingsAreDecodable DEF GenerateProfiles
<1> DEFINE info == BrowserInfo(ua)
<1>2. /\ p.hello = Hello(info)
      /\ p.browser = info.browser
      /\ p.encodings = IF info.browser = "Safari" THEN AcceptEncodings[1]
                                                  ELSE AcceptEncodings[i]
  BY <1>1 DEF Profile
<1> HIDE DEF info
<1>3. p.hello # NoHello /\ p.hello.browser \in {p.browser, "Chrome"}
  BY <1>2, HelloIsFound
<1>4. p.encodings \subseteq Decodable
  BY <1>2, EncodingsAreDecodable
<1>5. p.browser = "Safari" => "zstd" \notin p.encodings
  BY <1>2, EncodingsAreDecodable
<1>6. p.browser = "Firefox" => FullHeaders(p) \cap ClientHints = {}
  BY DEF FullHeaders, ClientHints, CommonHeaders
<1> QED  BY <1>3, <1>4, <1>5, <1>6

LEMMA ProfilesAreGenerated ==
  ASSUME NEW userAgents, userAgents # {}
  PROVE  GenerateProfiles(userAgents) # {}
BY EncodingsAreDecodable DEF GenerateProfiles

-----------------------------------------------------------------------------
(* Steps of main                                                           *)

LEMMA InitStartup == Init => StartupInv
<1> SUFFICES ASSUME Init
             PROVE  StartupInv
  OBVIOUS
<1>1. Types
  <2>1. 0 \in 0 .. Uint8Range - 1 /\ 0 \in Nat
    BY DEF Uint8Range
  <2> QED  BY <2>1 DEF Init, Types, Unstarted
<1>2. PoolsInv
  BY DEF Init, PoolsInv, Equipped
<1>3. SessionsInv
  <2>1. Unreported = {}
    BY DEF Init, Unreported
  <2> QED  BY <2>1, FS_EmptySet DEF Init, SessionsInv, Unstarted, Equipped
<1>4. WorkersInv
  <2>1. spawned.thresholds = 0 /\ cfg.expectedMax = 0
    BY DEF Init, ZeroConfig
  <2>2. spawned.thresholds <= cfg.expectedMax
    BY <2>1
  <2> QED  BY <2>1, <2>2 DEF Init, WorkersInv, Working
<1>5. ProfilesAreUsable
  BY DEF Init, ProfilesAreUsable
<1> QED  BY <1>1, <1>2, <1>3, <1>4, <1>5 DEF StartupInv

LEMMA ExpectedMaxIsUint8 ==
  ASSUME NEW c \in Configurations \cup {ZeroConfig}
  PROVE  /\ c.expectedMax \in ExpectedMaxs \cup {0}
         /\ c.expectedMax \in 0 .. Uint8Range - 1 /\ c.expectedMax \in Nat
<1>1. c.expectedMax \in ExpectedMaxs \cup {0}
  BY DEF Configurations, ZeroConfig
<1>2. ExpectedMaxs \subseteq 0 .. Uint8Range - 1
  BY ConfigurationsExist
<1>3. 0 \in 0 .. Uint8Range - 1 /\ 0 .. Uint8Range - 1 \subseteq Nat
  BY DEF Uint8Range
<1>4. c.expectedMax \in 0 .. Uint8Range - 1
  BY <1>1, <1>2, <1>3
<1> QED  BY <1>1, <1>3, <1>4

\* Nothing that a step changes is left to say of the workers and the sessions
\* while there are none.
LEMMA BeforeStart ==
  ASSUME StartupInv, pc \in Unstarted, pc' \in Unstarted \cup {"halted"},
         UNCHANGED <<capacity, spawned, k, wg, session>>,
         cfg' \in Configurations \/ cfg' = cfg
  PROVE  SessionsInv' /\ WorkersInv'
<1>1. \A s \in Sessions : session[s] = "not started"
  BY DEF StartupInv, SessionsInv
<1>2. Unreported = {} /\ Unreported' = {}
  BY <1>1 DEF Unreported
<1>3. SessionsInv'
  BY <1>1, <1>2 DEF StartupInv, SessionsInv, Unstarted, Equipped
<1>4. cfg'.expectedMax \in Nat
  BY ExpectedMaxIsUint8 DEF StartupInv, Types
<1>5. WorkersInv'
  <2>1. spawned'.thresholds = 0 /\ spawned'.thresholds <= cfg'.expectedMax
    BY <1>4 DEF StartupInv, WorkersInv
  <2> QED  BY <2>1 DEF WorkersInv, Unstarted, Working
<1> QED  BY <1>3, <1>5

LEMMA MainStartup ==
  ASSUME StartupInv, Main
  PROVE  StartupInv'
<1> USE DEF StartupInv, GoTo, GoToIf, Halt, notYet, mainVars
<1>0. \A s \in Sessions : session[s] = "not started"
  BY DEF SessionsInv, Main, OpenStatusLog, ReadConfig, ReadProxies, ReadUserAgents,
     LoadPools, GenerateAndLoadProfiles, DialWebsocket, CallStart, Unstarted
<1>1. CASE OpenStatusLog
  <2> USE <1>1 DEF OpenStatusLog
  <2>1. Types' /\ PoolsInv' /\ ProfilesAreUsable'
    BY <1>0 DEF Types, PoolsInv, ProfilesAreUsable, Unstarted, Equipped
  <2> QED  BY <2>1, BeforeStart DEF Unstarted
<1>2. CASE ReadConfig
  <2> USE <1>2 DEF ReadConfig
  <2>1. Types' /\ PoolsInv' /\ ProfilesAreUsable'
    BY <1>0 DEF Types, PoolsInv, ProfilesAreUsable, Unstarted, Equipped
  <2> QED  BY <2>1, BeforeStart DEF Unstarted
<1>3. CASE ReadProxies
  <2> USE <1>3 DEF ReadProxies
  <2>1. Types' /\ PoolsInv' /\ ProfilesAreUsable'
    BY <1>0 DEF Types, PoolsInv, ProfilesAreUsable, Unstarted, Equipped
  <2> QED  BY <2>1, BeforeStart DEF Unstarted
<1>4. CASE ReadUserAgents
  <2> USE <1>4 DEF ReadUserAgents
  <2>1. Types' /\ PoolsInv' /\ ProfilesAreUsable'
    BY <1>0 DEF Types, PoolsInv, ProfilesAreUsable, Unstarted, Equipped
  <2> QED  BY <2>1, BeforeStart DEF Unstarted
<1>5. CASE LoadPools
  <2> USE <1>5 DEF LoadPools
  <2>1. Types' /\ ProfilesAreUsable'
    BY DEF Types, ProfilesAreUsable, Unstarted, Equipped
  <2>2. cfg.sessions \in {{}, Sessions}
    BY DEF Types, Configurations, Unstarted
  <2>3. pc' = "profiles" => Loadable
    OBVIOUS
  <2>4. PoolsInv'
    BY <1>0, <2>2, <2>3 DEF Types, PoolsInv, PoolsAreLoaded, Loadable, Equipped
  <2> QED  BY <2>1, <2>4, BeforeStart DEF Unstarted
<1>6. CASE GenerateAndLoadProfiles
  <2> USE <1>6 DEF GenerateAndLoadProfiles
  <2>1. /\ pools'.profiles = GenerateProfiles(pools.userAgents)
        /\ pools'.proxies = pools.proxies /\ pools'.jars = pools.jars
        /\ pools'.userAgents = pools.userAgents
        /\ DOMAIN pools' = DOMAIN pools
    BY DEF Types
  <2>2. Types'
    BY <2>1 DEF Types, Unstarted, Equipped
  <2>3. PoolsInv'
    BY <1>0, <2>1, ProfilesAreGenerated DEF PoolsInv, PoolsAreLoaded
  <2>4. ProfilesAreUsable'
    BY <2>1, GeneratedAreUsable, Zenon DEF ProfilesAreUsable
  <2> QED  BY <2>2, <2>3, <2>4, BeforeStart DEF Unstarted
<1>7. CASE DialWebsocket
  <2> USE <1>7 DEF DialWebsocket
  <2>1. Types' /\ PoolsInv' /\ ProfilesAreUsable'
    BY <1>0 DEF Types, PoolsInv, PoolsAreLoaded, ProfilesAreUsable, Unstarted, Equipped
  <2> QED  BY <2>1, BeforeStart DEF Unstarted
<1>8. CASE CallStart
  <2> USE <1>8 DEF CallStart
  <2>1. Types' /\ PoolsInv' /\ ProfilesAreUsable'
    BY <1>0 DEF Types, PoolsInv, PoolsAreLoaded, ProfilesAreUsable, Unstarted, Equipped
  <2> QED  BY <2>1, BeforeStart DEF Unstarted
<1> QED  BY <1>1, <1>2, <1>3, <1>4, <1>5, <1>6, <1>7, <1>8 DEF Main

-----------------------------------------------------------------------------
(* Steps of Start and of the refresh workers                               *)

\* Steps of Start that leave the pools alone.
LEMMA PoolsKept ==
  ASSUME StartupInv, UNCHANGED mainVars, pc \in Equipped, pc' \in Equipped \cup {"halted"}
  PROVE  PoolsInv' /\ ProfilesAreUsable'
<1>1. PoolsAreLoaded /\ pools.profiles # {}
  BY DEF StartupInv, PoolsInv
<1> QED  BY <1>1 DEF StartupInv, PoolsInv, PoolsAreLoaded, ProfilesAreUsable, mainVars, Equipped

LEMMA SessionsKept ==
  ASSUME StartupInv, UNCHANGED <<cfg, wg, session>>,
         \/ pc \in Unstarted /\ pc' \in Unstarted
         \/ pc \in Equipped \ Unstarted /\ pc' \in (Equipped \ Unstarted) \cup {"halted"},
         pc' \in {"highest ID", "running"} => Unreported = {}
  PROVE  SessionsInv'
<1>1. Unreported' = Unreported
  BY DEF Unreported
<1> QED  BY <1>1 DEF StartupInv, SessionsInv, Unstarted, Equipped

LEMMA StartRefreshersStartup ==
  ASSUME StartupInv, StartRefreshers
  PROVE  StartupInv'
<1> USE DEF StartupInv, StartRefreshers, GoTo, mainVars
<1>1. PoolsInv' /\ ProfilesAreUsable'
  BY PoolsKept DEF Equipped
<1>2. pools.jars = Sessions /\ session' = [s \in Sessions |-> "fetching"]
  BY DEF PoolsInv, PoolsAreLoaded, Equipped
<1>3. Types'
  BY <1>2 DEF Types, Unstarted, Equipped
<1>4. Unreported = {} /\ Unreported' = Sessions
  BY <1>2 DEF SessionsInv, Unreported, Unstarted
<1>5. wg' = Cardinality(Unreported')
  <2>1. wg = 0
    BY <1>4, FS_EmptySet DEF SessionsInv
  <2>2. Cardinality(Sessions) \in Nat
    BY FS_CardinalityType, SessionsExist
  <2> QED  BY <1>2, <1>4, <2>1, <2>2
<1>6. SessionsInv'
  BY <1>2, <1>5 DEF SessionsInv, Unstarted, Equipped
<1>7. WorkersInv'
  BY DEF WorkersInv, Unstarted, Working
<1> QED  BY <1>1, <1>3, <1>6, <1>7

LEMMA LoopStartup ==
  ASSUME StartupInv, StartPools \/ StartThresholdsWorker \/ ThresholdsWorkersStarted
  PROVE  StartupInv'
<1> USE DEF StartupInv, GoTo, mainVars
<1>0. pc \in Equipped \ Unstarted /\ pc' \in Equipped \ Unstarted
      /\ pc' \notin {"highest ID", "running"} /\ UNCHANGED <<mainVars, wg, session>>
  BY DEF StartPools, StartThresholdsWorker, ThresholdsWorkersStarted, Equipped, Unstarted
<1>1. PoolsInv' /\ ProfilesAreUsable'
  BY <1>0, PoolsKept
<1>2. SessionsInv'
  BY <1>0, SessionsKept
<1>3. Uint8Range = 256 /\ Uint8Range - 1 = 255
  BY DEF Uint8Range
<1>4. cfg.expectedMax \in 0 .. 255
  <2>1. cfg.expectedMax \in 0 .. Uint8Range - 1
    BY ExpectedMaxIsUint8 DEF Types
  <2> QED  BY <1>3, <2>1
<1>5. CASE StartPools
  <2>1. k' = 1 /\ 1 \in 0 .. Uint8Range - 1 /\ 1 \in 1 .. cfg.expectedMax + 1
    BY <1>3, <1>4, <1>5 DEF StartPools
  <2>2. /\ DOMAIN spawned' = DOMAIN spawned
        /\ spawned'.thresholds = 0
        /\ spawned'.subordinate = SubWorkersAmount(cfg)
        /\ spawned'.backup = BackupWorkersAmount(cfg)
    BY <1>5 DEF StartPools, Types, WorkersInv
  <2>3. Types'
    BY <1>5, <2>1, <2>2 DEF StartPools, Types, Unstarted, Equipped
  <2>4. 0 <= cfg.expectedMax /\ 0 = 1 - 1
    BY <1>4
  <2>5. SubWorkersAmount(cfg)' = SubWorkersAmount(cfg)
        /\ BackupWorkersAmount(cfg)' = BackupWorkersAmount(cfg)
    BY <1>5 DEF StartPools, SubWorkersAmount, BackupWorkersAmount, DelayFactor
  <2>6. WorkersInv'
    BY <1>5, <2>1, <2>2, <2>4, <2>5 DEF StartPools, WorkersInv, Unstarted, Working
  <2> QED  BY <1>1, <1>2, <2>3, <2>6
<1>6. CASE StartThresholdsWorker
  <2>1. /\ DOMAIN spawned' = DOMAIN spawned
        /\ spawned'.thresholds = spawned.thresholds + 1
        /\ spawned'.subordinate = spawned.subordinate
        /\ spawned'.backup = spawned.backup
    BY <1>6 DEF StartThresholdsWorker, Types
  <2>2. k \in 0 .. 255 /\ spawned.thresholds \in Nat /\ k <= cfg.expectedMax
    BY <1>3, <1>6 DEF StartThresholdsWorker, Types, InLoop
  <2>3. k' \in 0 .. 255 /\ spawned'.thresholds \in Nat
    BY <1>3, <1>6, <2>1, <2>2 DEF StartThresholdsWorker
  <2>4. Types'
    BY <1>3, <1>6, <2>1, <2>3 DEF StartThresholdsWorker, Types, Unstarted, Equipped
  <2>5. ASSUME cfg.expectedMax < 255
        PROVE  /\ k' \in 1 .. cfg.expectedMax + 1
               /\ spawned'.thresholds = k' - 1
               /\ spawned'.thresholds <= cfg.expectedMax
    <3>1. k \in 1 .. cfg.expectedMax + 1 /\ spawned.thresholds = k - 1
      BY <1>3, <1>6, <2>5 DEF StartThresholdsWorker, WorkersInv
    <3>2. k' = k + 1
      BY <1>3, <1>4, <1>6, <2>2, <2>5 DEF StartThresholdsWorker
    <3> QED  BY <1>4, <2>1, <2>2, <3>1, <3>2
  <2>6. SubWorkersAmount(cfg)' = SubWorkersAmount(cfg)
        /\ BackupWorkersAmount(cfg)' = BackupWorkersAmount(cfg)
    BY <1>6 DEF StartThresholdsWorker, SubWorkersAmount, BackupWorkersAmount, DelayFactor
  <2>7. WorkersInv'
    BY <1>3, <1>6, <2>1, <2>5, <2>6
    DEF StartThresholdsWorker, WorkersInv, Unstarted, Working
  <2> QED  BY <1>1, <1>2, <2>4, <2>7
<1>7. CASE ThresholdsWorkersStarted
  <2>1. Types'
    BY <1>7 DEF ThresholdsWorkersStarted, Types, Unstarted, Equipped
  <2>2. k \in 0 .. 255 /\ k > cfg.expectedMax
    <3>1. k \in 0 .. Uint8Range - 1 /\ ~ (k <= cfg.expectedMax)
      BY <1>7 DEF ThresholdsWorkersStarted, Types, InLoop
    <3> QED  BY <1>3, <1>4, <3>1
  <2>3. cfg.expectedMax < 255
    BY <1>4, <2>2
  <2>4. spawned.thresholds = cfg.expectedMax
    <3>1. k \in 1 .. cfg.expectedMax + 1 /\ spawned.thresholds = k - 1
      BY <1>3, <1>7, <2>3 DEF ThresholdsWorkersStarted, WorkersInv
    <3> QED  BY <1>4, <2>2, <3>1
  <2>5. SubWorkersAmount(cfg)' = SubWorkersAmount(cfg)
        /\ BackupWorkersAmount(cfg)' = BackupWorkersAmount(cfg)
    BY <1>7 DEF ThresholdsWorkersStarted, SubWorkersAmount, BackupWorkersAmount, DelayFactor
  <2>6. WorkersInv'
    BY <1>7, <2>4, <2>5 DEF ThresholdsWorkersStarted, WorkersInv, Unstarted, Working
  <2> QED  BY <1>1, <1>2, <2>1, <2>6
<1> QED  BY <1>5, <1>6, <1>7

\* The steps that only go on, or halt.
LEMMA GoOnStartup ==
  ASSUME StartupInv,
         MakeChannels \/ MakeController \/ SessionsReady \/ FetchHighestID
  PROVE  StartupInv'
<1> USE DEF StartupInv, GoTo, GoToIf, Halt
<1>1. /\ \/ pc \in Unstarted /\ pc' \in Unstarted
         \/ pc \in Equipped \ Unstarted /\ pc' \in (Equipped \ Unstarted) \cup {"halted"}
      /\ pc \in Equipped /\ pc' \in Equipped \cup {"halted"}
      /\ UNCHANGED <<mainVars, spawned, k, wg, session>>
  BY DEF MakeChannels, MakeController, SessionsReady, FetchHighestID, Equipped, Unstarted
<1>2. pc' \in {"highest ID", "running"} => Unreported = {}
  <2>1. CASE SessionsReady
    <3>1. IsFiniteSet(Unreported) /\ Cardinality(Unreported) = 0
      BY <2>1, SessionsExist, FS_Subset DEF SessionsReady, SessionsInv, Unreported
    <3> QED  BY <3>1, FS_EmptySet
  <2>2. CASE ~ SessionsReady
    BY <2>2 DEF MakeChannels, MakeController, FetchHighestID, SessionsInv
  <2> QED  BY <2>1, <2>2
<1>3. PoolsInv' /\ ProfilesAreUsable'
  BY <1>1, PoolsKept
<1>4. SessionsInv'
  BY <1>1, <1>2, SessionsKept DEF mainVars
<1>5. Types'
  BY <1>1 DEF Types, mainVars, Equipped, Unstarted
<1>6. SubWorkersAmount(cfg)' = SubWorkersAmount(cfg)
      /\ BackupWorkersAmount(cfg)' = BackupWorkersAmount(cfg)
  BY <1>1 DEF mainVars, SubWorkersAmount, BackupWorkersAmount, DelayFactor
<1>7. pc' \in Working => pc \in Working
  BY DEF MakeChannels, MakeController, SessionsReady, FetchHighestID, Working
<1>8. WorkersInv'
  BY <1>1, <1>6, <1>7
  DEF WorkersInv, mainVars, Working, MakeChannels, MakeController, SessionsReady,
      FetchHighestID, Unstarted
<1> QED  BY <1>3, <1>4, <1>5, <1>8

LEMMA RefresherStartup ==
  ASSUME StartupInv, NEW s \in Sessions, Refresher(s)
  PROVE  StartupInv'
<1> USE DEF StartupInv, startVars, mainVars
<1>0. UNCHANGED startVars /\ session[s] = "fetching"
  BY DEF Refresher, FirstFetchSucceeds, FirstFetchFails
<1>1. session' \in [Sessions -> {"not started", "fetching", "complete", "incomplete"}]
      /\ session'[s] \in {"complete", "incomplete"}
      /\ \A r \in Sessions \ {s} : session'[r] = session[r]
  BY DEF Types, Refresher, FirstFetchSucceeds, FirstFetchFails
<1>2. Types'
  BY <1>0, <1>1 DEF Types
<1>3. PoolsInv' /\ ProfilesAreUsable'
  BY <1>0 DEF PoolsInv, PoolsAreLoaded, ProfilesAreUsable
<1>4. s \in Unreported /\ IsFiniteSet(Unreported)
  BY <1>0, SessionsExist, FS_Subset DEF Unreported
<1>5. wg' = Cardinality(Unreported')
  <2>1. CASE FirstFetchFails(s) /\ cfg.crashOnFirstError
    <3>1. Unreported' = Unreported
      BY <1>0, <1>1, <2>1 DEF FirstFetchFails, Unreported, Types
    <3> QED  BY <2>1, <3>1 DEF FirstFetchFails, SessionsInv
  <2>2. CASE FirstFetchSucceeds(s) \/ ~ cfg.crashOnFirstError
    <3>1. Unreported' = Unreported \ {s} /\ wg' = wg - 1
      BY <1>0, <1>1, <2>2 DEF Refresher, FirstFetchSucceeds, FirstFetchFails, Unreported, Types
    <3> QED  BY <1>4, <3>1, FS_RemoveElement DEF SessionsInv
  <2> QED  BY <2>1, <2>2 DEF Refresher
<1>6. SessionsInv'
  BY <1>0, <1>1, <1>4, <1>5 DEF SessionsInv
<1>7. WorkersInv'
  BY <1>0 DEF WorkersInv, SubWorkersAmount, BackupWorkersAmount, DelayFactor
<1> QED  BY <1>2, <1>3, <1>6, <1>7

LEMMA NextStartup == StartupInv /\ [Next]_vars => StartupInv'
<1> SUFFICES ASSUME StartupInv, [Next]_vars
             PROVE  StartupInv'
  OBVIOUS
<1>1. CASE Main
  BY <1>1, MainStartup
<1>2. CASE Start
  BY <1>2, StartRefreshersStartup, LoopStartup, GoOnStartup DEF Start
<1>3. CASE \E s \in Sessions : Refresher(s)
  BY <1>3, RefresherStartup
<1>4. CASE UNCHANGED <<startVars, wg, session>>
  <2> USE <1>4 DEF StartupInv, startVars, mainVars
  <2>1. Types' /\ PoolsInv' /\ ProfilesAreUsable'
    BY DEF Types, PoolsInv, PoolsAreLoaded, ProfilesAreUsable
  <2>2. Unreported' = Unreported
    BY DEF Unreported
  <2>3. SessionsInv'
    BY <2>2 DEF SessionsInv
  <2>4. WorkersInv'
    BY DEF WorkersInv, SubWorkersAmount, BackupWorkersAmount, DelayFactor
  <2> QED  BY <2>1, <2>3, <2>4
<1>5. Interrupt \/ Exit \/ Ended \/ UNCHANGED vars => UNCHANGED <<startVars, wg, session>>
  BY DEF Interrupt, Exit, Ended, vars
<1> QED  BY <1>1, <1>2, <1>3, <1>4, <1>5 DEF Next, Step

LEMMA StartupInvAlways == Spec => []StartupInv
BY InitStartup, NextStartup, PTL DEF Spec

-----------------------------------------------------------------------------

\* The manager runs with as many thresholds workers as configured, whatever
\* number that is, and after the first fetch of every session.
THEOREM ManagerIsPrepared == Spec => []ManagerStartsPrepared
<1>1. ASSUME StartupInv
      PROVE  ManagerStartsPrepared
  <2> SUFFICES ASSUME pc = "running"
               PROVE  /\ spawned.thresholds = cfg.expectedMax
                      /\ \A s \in Sessions :
                           session[s] \in IF cfg.crashOnFirstError THEN {"complete"}
                                           ELSE {"complete", "incomplete"}
    BY DEF ManagerStartsPrepared
  <2>1. spawned.thresholds = cfg.expectedMax
    BY <1>1 DEF StartupInv, WorkersInv, Working
  <2>2. \A s \in Sessions : session[s] # "not started" /\ s \notin Unreported
    BY <1>1 DEF StartupInv, SessionsInv, Unstarted, Equipped
  <2> QED  BY <1>1, <2>1, <2>2 DEF StartupInv, Types, Unreported
<1> QED  BY <1>1, StartupInvAlways, PTL

\* No fetch begins before there is a proxy, a profile and a session to pick,
\* whatever the files hold.
THEOREM PicksFromSomething == Spec => []NoPickFromNothing
<1>1. ASSUME StartupInv
      PROVE  NoPickFromNothing
  BY <1>1, SessionsExist
  DEF StartupInv, PoolsInv, PoolsAreLoaded, NoPickFromNothing, Equipped
<1> QED  BY <1>1, StartupInvAlways, PTL

\* Whatever user agents the file holds, their profiles have a client hello, no
\* encoding that cannot be undone, and nothing that their browser does not have.
THEOREM GeneratedProfilesAreUsable == Spec => []ProfilesAreUsable
<1>1. StartupInv => ProfilesAreUsable
  BY DEF StartupInv
<1> QED  BY <1>1, StartupInvAlways, PTL

\* The delay is rounded up to whole seconds.
LEMMA DelayIsRoundedUp ==
  ASSUME NEW d \in Nat
  PROVE  (1 + (d + 999) \div 1000) * 1000 >= 1000 + d
OBVIOUS

LEMMA ProductGrows ==
  ASSUME NEW n \in Nat, NEW a \in Nat, NEW b \in Nat, a <= b
  PROVE  n * a <= n * b
OBVIOUS

\* The backup workers are at least N*M*(1+D/1000), for all numbers of retries,
\* delays, offsets and thresholds.
THEOREM BackupPoolIsLargeEnough == Spec => []BackupPoolSuffices
<1>1. ASSUME StartupInv
      PROVE  BackupPoolSuffices
  <2> SUFFICES ASSUME pc = "running"
               PROVE  spawned.backup * 1000
                        >= spawned.subordinate * cfg.maxRetries * (1000 + cfg.delay)
    BY DEF BackupPoolSuffices
  <2> DEFINE n == SubWorkersAmount(cfg)
             m == IF cfg.maxRetries < 2 THEN 1 ELSE cfg.maxRetries
             f == DelayFactor(cfg)
  <2>1. cfg \in Configurations
    BY <1>1 DEF StartupInv, Types
  <2>2. cfg.maxRetries \in RetriesSet /\ cfg.delay \in DelaySet
        /\ cfg.offset \in Offsets /\ cfg.expectedMax \in ExpectedMaxs
    BY <2>1 DEF Configurations
  <2>3. cfg.maxRetries \in Nat /\ cfg.delay \in Nat /\ cfg.offset \in Nat
        /\ cfg.expectedMax \in Nat
    <3>1. ExpectedMaxs \cup Offsets \cup RetriesSet \subseteq 0 .. Uint8Range - 1
          /\ DelaySet \subseteq Nat
      BY ConfigurationsExist
    <3>2. 0 .. Uint8Range - 1 \subseteq Nat
      BY DEF Uint8Range
    <3> QED  BY <2>2, <3>1, <3>2
  <2>4. n \in Nat
    BY <2>3 DEF SubWorkersAmount, Uint16Range
  <2>5. m \in Nat /\ cfg.maxRetries <= m
    BY <2>3
  <2>6. f \in Nat /\ 1000 + cfg.delay <= f * 1000
    BY <2>3, DelayIsRoundedUp DEF DelayFactor
  <2>7. spawned.subordinate = n /\ spawned.backup = n * m * f
    BY <1>1 DEF StartupInv, WorkersInv, Working, BackupWorkersAmount
  <2> HIDE DEF n, m, f
  <2>8. n * cfg.maxRetries <= n * m
    BY <2>3, <2>4, <2>5, ProductGrows
  <2>9. (n * cfg.maxRetries) * (1000 + cfg.delay) <= (n * m) * (1000 + cfg.delay)
    <3>1. n * cfg.maxRetries \in Nat /\ n * m \in Nat /\ 1000 + cfg.delay \in Nat
      BY <2>3, <2>4, <2>5
    <3>2. (1000 + cfg.delay) * (n * cfg.maxRetries) <= (1000 + cfg.delay) * (n * m)
      BY <2>8, <3>1, ProductGrows
    <3> QED  BY <3>1, <3>2
  <2>10. (n * m) * (1000 + cfg.delay) <= (n * m) * (f * 1000)
    <3>1. n * m \in Nat /\ f * 1000 \in Nat /\ 1000 + cfg.delay \in Nat
      BY <2>3, <2>4, <2>5, <2>6
    <3> QED  BY <2>6, <3>1, ProductGrows
  <2>11. (n * m) * (f * 1000) = (n * m * f) * 1000
    BY <2>4, <2>5, <2>6
  <2> DEFINE a == (n * cfg.maxRetries) * (1000 + cfg.delay)
             b == (n * m) * (1000 + cfg.delay)
             c == (n * m * f) * 1000
  <2>12. a \in Nat /\ b \in Nat /\ c \in Nat
    BY <2>3, <2>4, <2>5, <2>6
  <2>13. a <= b /\ b <= c
    BY <2>9, <2>10, <2>11
  <2>14. a <= c
    <3> HIDE DEF a, b, c
    <3> QED  BY <2>12, <2>13
  <2> QED  BY <2>7, <2>12, <2>14
<1> QED  BY <1>1, StartupInvAlways, PTL

\* "max_255" is the only configured maximum whose loop starts more workers than
\* configured.
THEOREM OnlyMax255Overflows ==
  ASSUME Uint8Range - 1 \notin ExpectedMaxs
  PROVE  Spec => []NoMoreThanConfigured
<1>1. ASSUME StartupInv
      PROVE  NoMoreThanConfigured
  <2>1. cfg.expectedMax \in ExpectedMaxs \cup {0}
    BY <1>1, ExpectedMaxIsUint8 DEF StartupInv, Types
  <2>2. cfg.expectedMax \in 0 .. 255 /\ Uint8Range = 256
    <3>1. cfg.expectedMax \in 0 .. Uint8Range - 1
      BY <1>1, ExpectedMaxIsUint8 DEF StartupInv, Types
    <3> QED  BY <3>1 DEF Uint8Range
  <2>3. cfg.expectedMax < Uint8Range - 1
    BY <2>1, <2>2
  <2> QED  BY <1>1, <2>3 DEF StartupInv, WorkersInv, NoMoreThanConfigured
<1> QED  BY <1>1, StartupInvAlways, PTL
=============================================================================
