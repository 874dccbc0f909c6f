-------------------------- MODULE MainLoop_proofs --------------------------
(***************************************************************************)
(* Theorems about MainLoop, for all contents of the configuration files,   *)
(* open files limits and numbers of signals, whenever they come: every     *)
(* variable keeps its type; without two Shutdown goroutines side by side a *)
(* main loop that manages workers has its consumers, and no goroutine      *)
(* meets an empty table; as long as no signal is taken while one is        *)
(* active, it has the last good configuration, and its workers listen to   *)
(* the hostgroups of that one.                                             *)
(***************************************************************************)
EXTENDS MainLoop, FiniteSetTheorems, TLAPS

-----------------------------------------------------------------------------
(***************************************************************************)
(* What the open files limit makes of a configuration.                     *)
(***************************************************************************)
IsOptions(c) ==
    /\ {"maxWorker", "numResultWorker"} \subseteq DOMAIN c
    /\ c.maxWorker \in Int /\ c.numResultWorker \in Int

LEMMA MinOfTwo ==
  ASSUME NEW a \in Int, NEW b \in Int
  PROVE  Min({a, b}) \in {a, b} /\ Min({a, b}) <= a /\ Min({a, b}) <= b
  <1>1. \E x \in {a, b} : \A y \in {a, b} : x =< y
    OBVIOUS
  <1> QED
    BY <1>1 DEF Min

LEMMA MaxOfTwo ==
  ASSUME NEW a \in Int, NEW b \in Int
  PROVE  Max({a, b}) \in {a, b} /\ Max({a, b}) >= a /\ Max({a, b}) >= b
  <1>1. \E x \in {a, b} : \A y \in {a, b} : x >= y
    OBVIOUS
  <1> QED
    BY <1>1 DEF Max

LEMMA ClampedMaxWorker ==
  ASSUME NEW c, IsOptions(c), NEW limit \in Nat
  PROVE  /\ MaxPossibleWorker(limit) \in Int
         /\ IsOptions(ClampToOpenFiles(c, limit))
         /\ ClampToOpenFiles(c, limit).maxWorker \in {c.maxWorker, MaxPossibleWorker(limit)}
  <1>1. MaxPossibleWorker(limit) \in Int
    BY DEF MaxPossibleWorker, OpenFilesBase, OpenFilesPerWorker
  <1> DEFINE lowered == [c EXCEPT !.maxWorker = MaxPossibleWorker(limit)]
  <1>2. /\ lowered.maxWorker = MaxPossibleWorker(limit)
        /\ lowered.numResultWorker = c.numResultWorker
        /\ DOMAIN lowered = DOMAIN c
    BY DEF IsOptions
  <1>3. ClampToOpenFiles(c, limit) \in {c, lowered}
    BY DEF ClampToOpenFiles
  <1> HIDE DEF lowered
  <1>4. IsOptions(lowered)
    BY <1>1, <1>2 DEF IsOptions
  <1> QED
    BY <1>1, <1>2, <1>3, <1>4

LEMMA ResultServers ==
  ASSUME NEW c, IsOptions(c)
  PROVE  /\ NumResultServer(c) \in Int
         /\ c.maxWorker > 0 => NumResultServer(c) > 0
         /\ NumResultServer(c) < 0 => c.maxWorker < 0
  <1> DEFINE wanted == Max({c.maxWorker \div 10, MinResultServerWorker})
             byWorkers == Min({wanted, MaxResultServerWorker})
             asked == IF c.numResultWorker > 0 THEN c.numResultWorker ELSE byWorkers
  <1>1. wanted \in Int /\ wanted >= 10
    <2>1. c.maxWorker \div 10 \in Int /\ 10 \in Int
      BY DEF IsOptions
    <2> QED
      BY ONLY <2>1, MaxOfTwo DEF MinResultServerWorker
  <1>2. byWorkers \in Int /\ byWorkers >= 10
    <2> HIDE DEF wanted
    <2>1. 100 \in Int
      OBVIOUS
    <2>2. Min({wanted, 100}) \in {wanted, 100}
      BY ONLY <1>1, <2>1, MinOfTwo
    <2> QED
      BY <1>1, <2>2 DEF MaxResultServerWorker
  <1>3. asked \in Int /\ asked > 0
    <2> HIDE DEF byWorkers
    <2> QED
      BY <1>2 DEF IsOptions
  <1>4. NumResultServer(c) = Min({c.maxWorker, asked})
    BY DEF NumResultServer
  <1> HIDE DEF asked
  <1>5. NumResultServer(c) \in {c.maxWorker, asked}
    BY ONLY <1>3, <1>4, MinOfTwo, IsOptions(c) DEF IsOptions
  <1> QED
    BY <1>3, <1>5 DEF IsOptions

LEMMA ConfigsAreOptions == \A c \in Configs : IsOptions(c)
  BY ReadingsAssumption DEF IsOptions, Defaults

\* The limit changes nothing but maxWorker, and nothing at all the second time.
LEMMA ClampKeeps ==
  ASSUME NEW c \in Configs, NEW limit \in Nat
  PROVE  /\ ClampToOpenFiles(c, limit).dupserver = c.dupserver
         /\ Queues(ClampToOpenFiles(c, limit)) = Queues(c)
         /\ ClampToOpenFiles(ClampToOpenFiles(c, limit), limit) = ClampToOpenFiles(c, limit)
         /\ HasKey(ClampToOpenFiles(c, limit)) <=> HasKey(c)
  <1> DEFINE most == MaxPossibleWorker(limit)
             lowered == [c EXCEPT !.maxWorker = most]
  <1>1. DOMAIN c = DOMAIN Defaults
    BY ReadingsAssumption
  <1>2. /\ lowered.dupserver = c.dupserver
        /\ Queues(lowered) = Queues(c)
        /\ [lowered EXCEPT !.maxWorker = most] = lowered
        /\ HasKey(lowered) <=> HasKey(c)
    <2> HIDE DEF most
    <2>1. \A option \in DOMAIN Defaults : option # "maxWorker" => lowered[option] = c[option]
      BY <1>1
    <2>2. lowered.dupserver = c.dupserver
      BY <2>1 DEF Defaults
    <2>3. Queues(lowered) = Queues(c)
      <3>1. \A option \in {"eventhandler", "notifications", "hosts", "services", "hostgroups",
                           "servicegroups"} : lowered[option] = c[option]
        BY <2>1 DEF Defaults
      <3> HIDE DEF lowered
      <3> QED
        BY <3>1 DEF Queues
    <2>4. [lowered EXCEPT !.maxWorker = most] = lowered
      OBVIOUS
    <2>5. HasKey(lowered) <=> HasKey(c)
      <3>1. \A option \in {"encryption", "key", "keyfile"} : lowered[option] = c[option]
        BY <2>1 DEF Defaults
      <3> HIDE DEF lowered
      <3> QED
        BY <3>1 DEF HasKey
    <2> QED
      BY <2>2, <2>3, <2>4, <2>5
  <1> HIDE DEF most
  <1>3. CASE ExceedsOpenFiles(c.maxWorker, limit)
    <2>1. ClampToOpenFiles(c, limit) = lowered
      BY <1>3 DEF ClampToOpenFiles, most
    <2>2. ClampToOpenFiles(lowered, limit) \in {lowered, [lowered EXCEPT !.maxWorker = most]}
      BY DEF ClampToOpenFiles, most
    <2> HIDE DEF lowered
    <2> QED
      BY <1>2, <2>1, <2>2
  <1>4. CASE ~ExceedsOpenFiles(c.maxWorker, limit)
    BY <1>4 DEF ClampToOpenFiles
  <1> QED
    BY <1>3, <1>4

-----------------------------------------------------------------------------
(***************************************************************************)
(* Types, whenever signals come.  Three things are not obvious of them: a  *)
(* configuration that is clamped once more stays what it is, since the     *)
(* open files limit is the same in every run; StartShutdown always finds a *)
(* goroutine that never ran; and every run but the first is due to a       *)
(* goroutine that has reported and is gone.                                *)
(***************************************************************************)
PCs == {"none", "workers", "dup", "dupSend", "res", "resIndex", "resSend", "report", "gone"}

Reached(limit) == Configs \cup {ClampToOpenFiles(c, limit) : c \in Configs}

\* the configurations, and the workers started with them
OptionsType ==
    /\ loop \in {"init", "initDup", "select", "exited"}
    /\ openFiles \in OpenFilesLimits /\ lastGood \in Readings
    /\ config \in Reached(openFiles)
    /\ cfg \in Reached(openFiles) \cup {NoConfig} /\ newCfg \in Configs \cup {NoConfig}
    /\ wcfg \in Reached(openFiles) \cup {NoConfig}
    /\ loop = "init" => cfg = config
    /\ loop \in {"initDup", "select"} => wcfg \in Reached(openFiles)
    /\ workers \subseteq {Queues(c) : c \in Configs}
    /\ ticking \in BOOLEAN /\ aIsRunning \in BOOLEAN

Started == {h \in Goroutines : pc[h] # "none"}
Gone == {h \in Goroutines : pc[h] = "gone"}

\* the signals, and the goroutines and runs that they start
SignalsType ==
    /\ sent \in 0..MaxSignals /\ exit \in {"Reload", "Shutdown", "ShutdownGraceFully"}
    /\ sigChan = <<>> \/ \E sig \in Signals : sigChan = <<sig>>
    /\ pc \in [Goroutines -> PCs]
    /\ \E n \in Nat : /\ Started = 1..n
                      /\ n <= sent /\ (sigChan # <<>> => n < sent)
    /\ run \in Nat /\ run > 0 /\ run <= Cardinality(Gone) + 1

\* the tables of the consumers, and what the goroutines know of them
TablesType ==
    /\ crashed \in {"no", "key", "open files", "nil configuration", "nil consumers"}
    /\ resTable \in {0} \cup Runs /\ dupTable \in {0} \cup Runs
    /\ dupKeys \in SUBSET DupServers
    /\ resAlive \in SUBSET Runs /\ dupAlive \in [Runs -> SUBSET DupServers]
    /\ startedBy \in [Goroutines -> {0} \cup Runs]
    /\ target \in [Goroutines -> {0} \cup Runs]
    /\ dupTodo \in [Goroutines -> SUBSET DupServers]
    /\ dupAt \in [Goroutines -> SUBSET DupServers]

TypeInv == OptionsType /\ SignalsType /\ TablesType

LEMMA ReachedConfigs ==
  ASSUME NEW limit \in OpenFilesLimits, NEW c \in Reached(limit)
  PROVE  /\ ClampToOpenFiles(c, limit) \in Reached(limit)
         /\ c \in Configs \cup Clamped
         /\ ToSet(c.dupserver) \subseteq DupServers
         /\ Queues(c) \in {Queues(d) : d \in Configs}
  <1>1. limit \in Nat
    BY MainLoopAssumption
  <1>2. PICK d \in Configs : c \in {d, ClampToOpenFiles(d, limit)}
    BY DEF Reached
  <1>3. c.dupserver = d.dupserver /\ Queues(c) = Queues(d)
    BY <1>1, <1>2, ClampKeeps
  <1>4. ClampToOpenFiles(c, limit) = ClampToOpenFiles(d, limit)
    BY <1>1, <1>2, ClampKeeps
  <1> QED
    BY <1>2, <1>3, <1>4 DEF Reached, Clamped, DupServers

LEMMA NeverNil ==
  ASSUME NEW limit \in OpenFilesLimits, NEW c \in Reached(limit)
  PROVE  c # NoConfig /\ ClampToOpenFiles(c, limit) # NoConfig
  <1>1. \A d \in Reached(limit) : d # NoConfig
    BY ReadingsAssumption DEF Reached, Configs
  <1> QED
    BY <1>1, ReachedConfigs

\* where neither the limit nor a configuration forbids all workers, there are consumers
LEMMA EnoughWorkers ==
  ASSUME openFiles \in OpenFilesLimits, NEW c \in Reached(openFiles), WorkersAllowed
  PROVE  NumResultServer(ClampToOpenFiles(c, openFiles)) > 0
  <1>1. openFiles \in Nat
    BY MainLoopAssumption
  <1>2. PICK d \in Configs : ClampToOpenFiles(c, openFiles) \in {d, ClampToOpenFiles(d, openFiles)}
    BY ReachedConfigs DEF Reached
  <1>3. /\ IsOptions(d) /\ IsOptions(ClampToOpenFiles(d, openFiles))
        /\ ClampToOpenFiles(d, openFiles).maxWorker \in {d.maxWorker, MaxPossibleWorker(openFiles)}
    BY <1>1, ConfigsAreOptions, ClampedMaxWorker
  <1>4. d.maxWorker > 0 /\ ClampToOpenFiles(d, openFiles).maxWorker > 0
    BY <1>3 DEF WorkersAllowed
  <1> QED
    BY <1>2, <1>3, <1>4, ResultServers

\* where there is a negative number of them, one of the two is below zero
LEMMA NegativeWorkers ==
  ASSUME openFiles \in OpenFilesLimits, NEW c \in Reached(openFiles),
         NumResultServer(ClampToOpenFiles(c, openFiles)) < 0
  PROVE  openFiles < OpenFilesNeeded(0) \/ \E d \in Configs : d.maxWorker < 0
  <1>1. openFiles \in Nat
    BY MainLoopAssumption
  <1>2. PICK d \in Configs : ClampToOpenFiles(c, openFiles) \in {d, ClampToOpenFiles(d, openFiles)}
    BY ReachedConfigs DEF Reached
  <1>3. /\ IsOptions(d) /\ IsOptions(ClampToOpenFiles(d, openFiles))
        /\ ClampToOpenFiles(d, openFiles).maxWorker \in {d.maxWorker, MaxPossibleWorker(openFiles)}
    BY <1>1, ConfigsAreOptions, ClampedMaxWorker
  <1>4. d.maxWorker < 0 \/ MaxPossibleWorker(openFiles) < 0
    <2>1. \/ NumResultServer(d) < 0 \/ NumResultServer(ClampToOpenFiles(d, openFiles)) < 0
      BY <1>2
    <2>2. d.maxWorker < 0 \/ ClampToOpenFiles(d, openFiles).maxWorker < 0
      BY <1>3, <2>1, ResultServers
    <2> QED
      BY <1>3, <2>2
  <1>5. MaxPossibleWorker(openFiles) < 0 => openFiles < OpenFilesNeeded(0)
    BY <1>1 DEF MaxPossibleWorker, OpenFilesBase, OpenFilesPerWorker, OpenFilesNeeded,
                ExtraPercent
  <1> QED
    BY <1>4, <1>5

\* a configuration that is accepted and has no key names a key file
LEMMA NamesKeyFile ==
  ASSUME NEW read \in Readings, read.ok, ~HasKey(read.config)
  PROVE  read.config.keyfile # ""
  BY ReadingsAssumption, Zenon DEF Reasonable, HasKey

LEMMA InitTypes == Init => TypeInv
  <1> SUFFICES ASSUME Init PROVE TypeInv
    OBVIOUS
  <1>1. OptionsType
    <2>1. config \in Configs
      BY ReadingsAssumption DEF Init, Configs
    <2> QED
      BY <2>1 DEF Init, OptionsType, Reached
  <1>2. SignalsType
    <2>1. Gone = {} /\ Started = 1..0
      BY DEF Init, Gone, Started
    <2>2. Cardinality(Gone) = 0
      BY <2>1, FS_EmptySet
    <2> QED
      BY <2>1, <2>2, MainLoopAssumption DEF Init, SignalsType, PCs
  <1>3. TablesType
    BY DEF Init, TablesType, Runs, DupServers
  <1> QED
    BY <1>1, <1>2, <1>3 DEF TypeInv

\* A run has a number of its own, although only MaxSignals goroutines end one.
LEMMA RunsSuffice ==
  ASSUME SignalsType
  PROVE  run \in Runs /\ IsFiniteSet(Gone) /\ Cardinality(Gone) \in Nat
  <1>1. IsFiniteSet(Goroutines) /\ Cardinality(Goroutines) = MaxSignals
    BY FS_Interval, MainLoopAssumption DEF Goroutines
  <1>2. Gone \subseteq Goroutines
    BY DEF Gone
  <1>3. IsFiniteSet(Gone) /\ Cardinality(Gone) \in Nat /\ Cardinality(Gone) <= MaxSignals
    BY <1>1, <1>2, FS_Subset, FS_CardinalityType
  <1> QED
    BY <1>3, MainLoopAssumption DEF SignalsType, Runs

\* A signal that is taken from the channel starts a goroutine that never ran before.
LEMMA StartingType ==
  ASSUME SignalsType, StartShutdown, sigChan # <<>>, sigChan' = <<>>,
         exit' \in {"Reload", "Shutdown", "ShutdownGraceFully"}, UNCHANGED <<run, sent>>,
         startedBy \in [Goroutines -> {0} \cup Runs]
  PROVE  /\ SignalsType' /\ startedBy' \in [Goroutines -> {0} \cup Runs]
         /\ ticking' = FALSE /\ aIsRunning' = FALSE /\ UNCHANGED <<target, dupTodo, dupAt>>
  <1>1. PICK n \in Nat : Started = 1..n /\ n < sent /\ sent <= MaxSignals
    BY MainLoopAssumption DEF SignalsType
  <1>2. Cardinality(Started) = n
    BY <1>1, FS_Interval
  <1> DEFINE g == n + 1
  <1>3. /\ pc' = [pc EXCEPT ![g] = "workers"]
        /\ startedBy' = [startedBy EXCEPT ![g] = run]
        /\ ticking' = FALSE /\ aIsRunning' = FALSE /\ UNCHANGED <<target, dupTodo, dupAt>>
    BY <1>2 DEF StartShutdown, Started
  <1>4. g \in Goroutines /\ pc[g] = "none"
    BY <1>1, MainLoopAssumption DEF Started, Goroutines, SignalsType
  <1>5. pc \in [Goroutines -> PCs] /\ pc' \in [Goroutines -> PCs]
    BY <1>3 DEF SignalsType, PCs
  <1>6. Gone' = Gone
    BY <1>3, <1>4, <1>5 DEF Gone
  <1>7. Started' = 1..g
    <2>1. Started' = Started \cup {g}
      BY <1>3, <1>4, <1>5 DEF Started
    <2> QED
      BY <1>1, <2>1
  <1>8. g \in Nat /\ g <= sent
    BY <1>1 DEF SignalsType
  <1>9. SignalsType'
    BY <1>5, <1>6, <1>7, <1>8 DEF SignalsType
  <1>10. startedBy' \in [Goroutines -> {0} \cup Runs]
    BY <1>3, RunsSuffice
  <1> QED
    BY <1>3, <1>9, <1>10

\* A goroutine that goes on is started as before, and not yet gone.
LEMMA GoingOn ==
  ASSUME SignalsType, NEW g \in Goroutines, NEW at \in PCs \ {"none", "gone"},
         pc[g] \notin {"none", "gone"}, pc' = [pc EXCEPT ![g] = at],
         UNCHANGED <<run, sigVars, exit>>
  PROVE  SignalsType'
  <1>1. pc \in [Goroutines -> PCs] /\ pc' \in [Goroutines -> PCs]
    BY DEF SignalsType
  <1>2. Started' = Started /\ Gone' = Gone
    BY <1>1 DEF Started, Gone
  <1> QED
    BY <1>1, <1>2 DEF SignalsType, sigVars

LEMMA SendTypes ==
  ASSUME TypeInv, NEW sig \in Signals, Send(sig)
  PROVE  TypeInv'
  <1>1. /\ sent < MaxSignals /\ sent' = sent + 1
        /\ sigChan' \in {<<sig>>, sigChan}
        /\ UNCHANGED <<run, loop, exit, cfgVars, workers, ticking, aIsRunning, tables, goVars,
                       crashed>>
    BY DEF Send
  <1>2. OptionsType' /\ TablesType'
    <2>1. OptionsType'
      BY <1>1 DEF TypeInv, OptionsType, cfgVars
    <2>2. TablesType'
      BY <1>1 DEF TypeInv, TablesType, tables, goVars
    <2> QED
      BY <2>1, <2>2
  <1>3. Started' = Started /\ Gone' = Gone
    BY <1>1 DEF Started, Gone, goVars
  <1>4. /\ sent' \in 0..MaxSignals /\ exit' \in {"Reload", "Shutdown", "ShutdownGraceFully"}
        /\ pc' \in [Goroutines -> PCs]
        /\ run' \in Nat /\ run' > 0 /\ run' <= Cardinality(Gone') + 1
    BY <1>1, <1>3, MainLoopAssumption DEF TypeInv, SignalsType, goVars
  <1>5. sigChan' = <<>> \/ \E s \in Signals : sigChan' = <<s>>
    BY <1>1 DEF TypeInv, SignalsType
  <1>6. \E n \in Nat : /\ Started' = 1..n
                       /\ n <= sent' /\ (sigChan' # <<>> => n < sent')
    <2>1. PICK n \in Nat : Started = 1..n /\ n <= sent
      BY DEF TypeInv, SignalsType
    <2>2. sent \in Nat
      BY DEF TypeInv, SignalsType
    <2> QED
      BY <1>1, <1>3, <2>1, <2>2
  <1> QED
    BY <1>2, <1>4, <1>5, <1>6 DEF TypeInv, SignalsType

LEMMA InitConsumersTypes ==
  ASSUME TypeInv, InitResultServerConsumers \/ InitDupServerConsumers
  PROVE  TypeInv'
  <1> USE DEF TypeInv
  <1>1. SignalsType'
    <2>1. UNCHANGED <<run, sigVars, exit, goVars>>
      BY DEF InitResultServerConsumers, InitDupServerConsumers
    <2> QED
      BY <2>1 DEF SignalsType, Started, Gone, sigVars, goVars
  <1>2. run \in Runs
    BY RunsSuffice
  <1>3. CASE InitResultServerConsumers
    <2> DEFINE clamped == ClampToOpenFiles(cfg, openFiles)
    <2>1. /\ loop = "init" /\ loop' = "initDup"
          /\ cfg' = clamped /\ config' = clamped /\ wcfg' = clamped
          /\ aIsRunning' = TRUE
          /\ resTable' \in {0, run} /\ resAlive' \in {resAlive, resAlive \cup {run}}
          /\ UNCHANGED <<run, openFiles, newCfg, lastGood, workers, ticking,
                         dupTable, dupKeys, dupAlive, goVars, crashed>>
      BY <1>3 DEF InitResultServerConsumers
    <2>2. cfg \in Reached(openFiles) /\ openFiles \in OpenFilesLimits
      BY <2>1 DEF OptionsType
    <2>3. clamped \in Reached(openFiles)
      BY <2>2, ReachedConfigs
    <2> HIDE DEF clamped
    <2>4. OptionsType'
      BY <2>1, <2>3 DEF OptionsType
    <2>5. TablesType'
      BY <1>2, <2>1 DEF TablesType, goVars
    <2> QED
      BY <1>1, <2>4, <2>5
  <1>4. CASE InitDupServerConsumers
    <2>1. /\ loop = "initDup" /\ loop' = "select" /\ ticking' = TRUE
          /\ UNCHANGED <<run, cfgVars, workers, aIsRunning, resTable, resAlive, goVars, crashed>>
      BY <1>4 DEF InitDupServerConsumers
    <2>2. ToSet(wcfg.dupserver) \subseteq DupServers
      <3>1. wcfg \in Reached(openFiles) /\ openFiles \in OpenFilesLimits
        BY <2>1 DEF OptionsType
      <3> QED
        BY <3>1, ReachedConfigs
    <2>3. OptionsType'
      BY <2>1 DEF OptionsType, cfgVars
    <2>4. /\ dupTable' \in {0} \cup Runs /\ dupKeys' \in SUBSET DupServers
          /\ dupAlive' \in [Runs -> SUBSET DupServers]
      <3>1. CASE wcfg.dupserver = <<>>
        BY <1>4, <3>1 DEF InitDupServerConsumers, TablesType
      <3>2. CASE wcfg.dupserver # <<>>
        <4>1. /\ dupTable' = run /\ dupKeys' = ToSet(wcfg.dupserver)
              /\ dupAlive' = [dupAlive EXCEPT ![run] = dupKeys']
          BY <1>4, <3>2 DEF InitDupServerConsumers
        <4>2. dupKeys' \in SUBSET DupServers
          BY <2>2, <4>1
        <4> QED
          BY <1>2, <4>1, <4>2 DEF TablesType
      <3> QED
        BY <3>1, <3>2
    <2>5. TablesType'
      BY <2>1, <2>4 DEF TablesType, goVars
    <2> QED
      BY <1>1, <2>3, <2>5
  <1> QED
    BY <1>3, <1>4

\* What ends the program in the main loop, and what the workers do.
LEMMA OtherTypes ==
  ASSUME TypeInv, StartFails \/ TickWithoutConfig \/ Workers \/ UNCHANGED vars
  PROVE  TypeInv'
  <1> USE DEF TypeInv
  <1>1. UNCHANGED <<run, loop, sigVars, exit, cfgVars, ticking, aIsRunning, tables, goVars>>
    BY DEF StartFails, TickWithoutConfig, Workers, StartWorker, WorkerEnds, vars
  <1>2. SignalsType'
    BY <1>1 DEF SignalsType, Started, Gone, sigVars, goVars
  <1>3. workers' \subseteq {Queues(c) : c \in Configs}
    <2>1. CASE StartWorker
      <3>1. wcfg \in Reached(openFiles) /\ openFiles \in OpenFilesLimits
        BY <2>1 DEF StartWorker, OptionsType
      <3>2. Queues(wcfg) \in {Queues(c) : c \in Configs}
        BY <3>1, ReachedConfigs
      <3>3. workers' = workers \cup {Queues(wcfg)}
        BY <2>1 DEF StartWorker
      <3> QED
        BY <3>2, <3>3 DEF OptionsType
    <2>2. CASE StartFails \/ TickWithoutConfig \/ UNCHANGED vars
      BY <2>2 DEF StartFails, TickWithoutConfig, vars, OptionsType
    <2>3. ASSUME NEW queues \in workers, WorkerEnds(queues)
          PROVE  workers' \subseteq {Queues(c) : c \in Configs}
      BY <2>3 DEF WorkerEnds, OptionsType
    <2> QED
      BY <2>1, <2>2, <2>3 DEF Workers
  <1>4. OptionsType'
    BY <1>1, <1>3 DEF OptionsType, cfgVars
  <1>5. crashed' \in {crashed, "key", "open files", "nil configuration"}
    BY DEF StartFails, TickWithoutConfig, Workers, StartWorker, WorkerEnds, vars
  <1>6. TablesType'
    BY <1>1, <1>5 DEF TablesType, tables, goVars
  <1> QED
    BY <1>2, <1>4, <1>6

\* SIGINT, SIGTERM, and what a SIGHUP may lead to.
LEMMA SignalTypes ==
  ASSUME TypeInv,
         \/ HandleTermination
         \/ \E read \in Readings :
              \/ ReloadRefused(read) \/ ReloadInPlace(read)
              \/ ReloadWithRestart(read) \/ ReloadWithoutKey(read)
  PROVE  TypeInv'
  <1> USE DEF TypeInv
  <1>1. startedBy \in [Goroutines -> {0} \cup Runs]
    BY DEF TablesType
  <1>2. CASE HandleTermination
    <2>1. /\ StartShutdown /\ sigChan # <<>> /\ sigChan' = <<>>
          /\ exit' \in {"Shutdown", "ShutdownGraceFully"}
          /\ UNCHANGED <<run, loop, sent, cfgVars, workers, tables, crashed>>
      BY <1>2 DEF HandleTermination
    <2>2. /\ SignalsType' /\ startedBy' \in [Goroutines -> {0} \cup Runs]
          /\ ticking' = FALSE /\ aIsRunning' = FALSE /\ UNCHANGED <<target, dupTodo, dupAt>>
      BY <1>1, <2>1, StartingType
    <2>3. OptionsType'
      BY <2>1, <2>2 DEF OptionsType, cfgVars
    <2>4. TablesType'
      BY <2>1, <2>2 DEF TablesType, tables
    <2> QED
      BY <2>2, <2>3, <2>4
  <1>3. ASSUME NEW read \in Readings, Reloading, ApplyConfigChanges(read) PROVE
          /\ sigChan # <<>> /\ sigChan' = <<>> /\ exit' = "Reload" /\ loop = "select"
          /\ cfg' \in Reached(openFiles) \cup {NoConfig} /\ newCfg' \in Configs \cup {NoConfig}
          /\ cfg' = read.config
          /\ UNCHANGED <<run, loop, sent, openFiles, config, workers, tables, crashed>>
    <2>1. read.config \in Configs \cup {NoConfig}
      BY DEF Configs
    <2> QED
      BY <1>3, <2>1 DEF Reloading, ApplyConfigChanges, Reached
  <1>4. ASSUME NEW read \in Readings, ReloadRefused(read) \/ ReloadInPlace(read)
        PROVE  TypeInv'
    <2>1. /\ Reloading /\ ApplyConfigChanges(read)
          /\ UNCHANGED <<ticking, aIsRunning, goVars>>
      BY <1>4 DEF ReloadRefused, ReloadInPlace
    <2>2. /\ lastGood' \in Readings
          /\ wcfg' \in Reached(openFiles)
      <3>1. CASE ReloadRefused(read)
        BY <1>3, <2>1, <3>1 DEF ReloadRefused, OptionsType
      <3>2. CASE ReloadInPlace(read)
        <4>1. read.config \in Configs
          BY <3>2, ReadingsAssumption DEF ReloadInPlace, Configs
        <4> QED
          BY <3>2, <4>1 DEF ReloadInPlace, Reached
      <3> QED
        BY <1>4, <3>1, <3>2
    <2>3. OptionsType'
      BY <1>3, <2>1, <2>2 DEF OptionsType
    <2>4. TablesType'
      BY <1>3, <2>1 DEF TablesType, tables, goVars
    <2>5. SignalsType'
      <3>1. Started' = Started /\ Gone' = Gone
        BY <2>1 DEF Started, Gone, goVars
      <3> QED
        BY <1>3, <2>1, <3>1 DEF SignalsType, goVars
    <2> QED
      BY <2>3, <2>4, <2>5
  <1>5. ASSUME NEW read \in Readings, ReloadWithRestart(read) PROVE TypeInv'
    <2>1. /\ Reloading /\ ApplyConfigChanges(read) /\ StartShutdown
          /\ lastGood' = read /\ UNCHANGED wcfg
      BY <1>5 DEF ReloadWithRestart
    <2>2. /\ SignalsType' /\ startedBy' \in [Goroutines -> {0} \cup Runs]
          /\ ticking' = FALSE /\ aIsRunning' = FALSE /\ UNCHANGED <<target, dupTodo, dupAt>>
      BY <1>1, <1>3, <2>1, StartingType
    <2>3. OptionsType'
      BY <1>3, <2>1, <2>2 DEF OptionsType
    <2>4. TablesType'
      BY <1>3, <2>1, <2>2 DEF TablesType, tables
    <2> QED
      BY <2>2, <2>3, <2>4
  <1>6. ASSUME NEW read \in Readings, ReloadWithoutKey(read) PROVE TypeInv'
    <2>1. /\ crashed' = "key"
          /\ UNCHANGED <<run, loop, sigVars, exit, cfgVars, workers, ticking, aIsRunning, tables,
                         goVars>>
      BY <1>6 DEF ReloadWithoutKey
    <2>2. OptionsType'
      BY <2>1 DEF OptionsType, cfgVars
    <2>3. TablesType'
      BY <2>1 DEF TablesType, tables, goVars
    <2>4. SignalsType'
      BY <2>1 DEF SignalsType, Started, Gone, sigVars, goVars
    <2> QED
      BY <2>2, <2>3, <2>4
  <1> QED
    BY <1>2, <1>4, <1>5, <1>6

LEMMA ExitTypes ==
  ASSUME TypeInv, NEW g \in Goroutines, MainLoopExited(g)
  PROVE  TypeInv'
  <1> USE DEF TypeInv
  <1>1. /\ pc[g] = "report" /\ pc' = [pc EXCEPT ![g] = "gone"]
        /\ UNCHANGED <<sent, openFiles, wcfg, lastGood, workers, ticking, aIsRunning,
                       tables, startedBy, target, dupTodo, dupAt, crashed>>
        /\ exit' = exit /\ run' \in {run, run + 1} /\ sigChan' \in {sigChan, <<>>}
    BY DEF MainLoopExited
  <1>2. OptionsType'
    <2>1. CASE exit # "Reload"
      BY <1>1, <2>1 DEF MainLoopExited, OptionsType
    <2>2. CASE exit = "Reload"
      <3>1. /\ loop' = "init" /\ config' = IF newCfg # NoConfig THEN newCfg ELSE config
            /\ cfg' = config' /\ newCfg' = NoConfig
        BY <2>2 DEF MainLoopExited
      <3>2. config' \in Reached(openFiles)
        BY <3>1 DEF OptionsType, Reached
      <3> QED
        BY <1>1, <3>1, <3>2 DEF OptionsType
    <2> QED
      BY <2>1, <2>2
  <1>3. SignalsType'
    <2>1. pc \in [Goroutines -> PCs] /\ pc' \in [Goroutines -> PCs]
      BY <1>1 DEF SignalsType, PCs
    <2>2. Started' = Started
      BY <1>1, <2>1 DEF Started
    <2>3. Gone' = Gone \cup {g} /\ g \notin Gone
      BY <1>1, <2>1 DEF Gone
    <2>4. Cardinality(Gone') = Cardinality(Gone) + 1
      BY <2>3, RunsSuffice, FS_AddElement
    <2>5. run' \in Nat /\ run' > 0 /\ run' <= Cardinality(Gone') + 1
      BY <1>1, <2>4, RunsSuffice DEF SignalsType
    <2>6. /\ sigChan' = <<>> \/ \E sig \in Signals : sigChan' = <<sig>>
          /\ sigChan' # <<>> => sigChan # <<>>
      BY <1>1 DEF SignalsType
    <2> QED
      BY <1>1, <2>1, <2>2, <2>5, <2>6 DEF SignalsType
  <1>4. TablesType'
    BY <1>1 DEF TablesType, tables
  <1> QED
    BY <1>2, <1>3, <1>4

LEMMA ShutdownTypes ==
  ASSUME TypeInv, NEW g \in Goroutines, Shutdown(g)
  PROVE  TypeInv'
  <1> USE DEF TypeInv
  <1>1. UNCHANGED <<run, loop, sigVars, exit, cfgVars, ticking, aIsRunning, startedBy>>
    BY DEF Shutdown, WorkersStopped, TerminateDup, DupTerminated, RangeResult, IndexResult,
           TerminateResult, NextDup, tables
  <1>2. workers' \in {workers, {}}
    BY DEF Shutdown, WorkersStopped, TerminateDup, DupTerminated, RangeResult, IndexResult,
           TerminateResult, NextDup
  <1>3. OptionsType'
    BY <1>1, <1>2 DEF OptionsType, cfgVars
  <1>4. SignalsType'
    <2>1. /\ pc[g] \notin {"none", "gone"}
          /\ \E at \in PCs \ {"none", "gone"} : pc' = [pc EXCEPT ![g] = at]
      BY DEF Shutdown, WorkersStopped, TerminateDup, DupTerminated, RangeResult, IndexResult,
             TerminateResult, NextDup, PCs
    <2> QED
      BY <1>1, <2>1, GoingOn
  <1>5. TablesType'
    <2> USE DEF TablesType
    <2>1. CASE WorkersStopped(g)
      BY <2>1 DEF WorkersStopped, tables
    <2>2. CASE TerminateDup(g)
      <3>1. \A n \in Runs : dupAlive'[n] \subseteq dupAlive[n]
        BY <2>2 DEF TerminateDup
      <3>2. dupAlive' \in [Runs -> SUBSET DupServers]
        BY <2>2, <3>1 DEF TerminateDup
      <3>3. dupAt' \in [Goroutines -> SUBSET DupServers]
        BY <2>2 DEF TerminateDup
      <3> QED
        BY <2>2, <1>1, <3>2, <3>3 DEF TerminateDup
    <2>3. CASE DupTerminated(g)
      BY <2>3 DEF DupTerminated
    <2>4. CASE RangeResult(g)
      BY <2>4 DEF RangeResult, tables
    <2>5. CASE IndexResult(g)
      BY <2>5 DEF IndexResult, tables
    <2>6. CASE TerminateResult(g)
      BY <2>6 DEF TerminateResult
    <2>7. ASSUME NEW d \in dupTodo[g], NextDup(g, d) PROVE TablesType'
      <3>1. d \in DupServers
        OBVIOUS
      <3>2. dupAt' \in [Goroutines -> SUBSET DupServers]
        BY <2>7, <3>1 DEF NextDup
      <3>3. dupTodo' \in [Goroutines -> SUBSET DupServers]
        BY <2>7 DEF NextDup
      <3> QED
        BY <2>7, <3>2, <3>3 DEF NextDup, tables
    <2> QED
      BY <2>1, <2>2, <2>3, <2>4, <2>5, <2>6, <2>7 DEF Shutdown
  <1> QED
    BY <1>3, <1>4, <1>5

LEMMA NextTypes ==
  ASSUME TypeInv, [Next]_vars
  PROVE  TypeInv'
  BY SendTypes, InitConsumersTypes, OtherTypes, SignalTypes, ExitTypes, ShutdownTypes
  DEF Next, Loop

\* two goroutines side by side are due to a signal that came while one was active
HistoryInv == late \in BOOLEAN /\ racing \in BOOLEAN /\ (racing => late)

LEMMA InitHistory == Init => HistoryInv
  BY DEF Init, HistoryInv

LEMMA NextHistory ==
  ASSUME HistoryInv, [Next]_vars
  PROVE  HistoryInv' /\ (late => late') /\ (racing => racing')
  <1>1. \/ UNCHANGED <<late, racing>>
        \/ late' = (late \/ ShutdownRuns) /\ racing' = racing
        \/ late' = (late \/ ShutdownRuns) /\ racing' = (racing \/ ShutdownRuns)
    BY DEF Next, Send, Loop, InitResultServerConsumers, StartFails, InitDupServerConsumers,
           TickWithoutConfig, HandleTermination, StartShutdown, ReloadRefused,
           ReloadInPlace, ReloadWithRestart, ReloadWithoutKey, MainLoopExited, Workers,
           StartWorker, WorkerEnds, Shutdown, WorkersStopped, TerminateDup, DupTerminated,
           RangeResult, IndexResult, TerminateResult, NextDup, vars, history
  <1>2. late' \in BOOLEAN /\ racing' \in BOOLEAN
    BY <1>1, Zenon DEF HistoryInv
  <1>3. (racing' => late') /\ (late => late') /\ (racing => racing')
    BY <1>1 DEF HistoryInv
  <1> QED
    BY <1>2, <1>3 DEF HistoryInv

\* Every variable keeps its type, whenever signals come (mod_gearman_worker.go): a worker
\* listens to the queues of some configuration that was read, clamped or not, and there is
\* a run of mainLoop, and a goroutine, for every signal.
THEOREM TypeCorrect == Spec => []TypeOK
  <1>1. TypeInv /\ HistoryInv /\ [Next]_vars => TypeInv' /\ HistoryInv'
    BY NextTypes, NextHistory
  <1>2. TypeInv /\ HistoryInv => TypeOK
    <2> SUFFICES ASSUME TypeInv, HistoryInv PROVE TypeOK
      OBVIOUS
    <2>1. {config, cfg, newCfg, wcfg} \subseteq Configs \cup Clamped \cup {NoConfig}
      BY ReachedConfigs DEF TypeInv, OptionsType
    <2>2. config \in Configs \cup Clamped
      BY ReachedConfigs DEF TypeInv, OptionsType
    <2>3. sigChan \in Seq(Signals) /\ Len(sigChan) <= 1
      <3>1. CASE sigChan = <<>>
        BY <3>1
      <3>2. ASSUME NEW sig \in Signals, sigChan = <<sig>>
            PROVE  sigChan \in Seq(Signals) /\ Len(sigChan) <= 1
        BY <3>2
      <3> QED
        BY <3>1, <3>2 DEF TypeInv, SignalsType
    <2>4. run \in Runs
      BY RunsSuffice DEF TypeInv
    <2>5. OptionsType /\ SignalsType /\ TablesType
      BY DEF TypeInv
    <2>6. /\ loop \in {"init", "initDup", "select", "exited"}
          /\ openFiles \in OpenFilesLimits /\ lastGood \in Readings
          /\ workers \subseteq {Queues(c) : c \in Configs}
          /\ {ticking, aIsRunning, late, racing} \subseteq BOOLEAN
      BY <2>5 DEF OptionsType, HistoryInv
    <2> QED
      BY <2>1, <2>2, <2>3, <2>4, <2>5, <2>6 DEF TypeOK, SignalsType, TablesType, PCs
  <1> QED
    BY <1>1, <1>2, InitTypes, InitHistory, PTL DEF Spec

-----------------------------------------------------------------------------
(***************************************************************************)
(* Serving is not inductive: that a Shutdown goroutine finds the tables of *)
(* the run that started it, and that the next run finds none of the        *)
(* goroutines of the one before, depends on there being one goroutine at   *)
(* most, which stops the tickers for as long as it runs.                   *)
(***************************************************************************)
Active(g) == pc[g] \notin {"none", "gone"}

OneShutdown ==
    /\ \A g, h \in Goroutines : Active(g) /\ Active(h) => g = h
    /\ \A g \in Goroutines : Active(g) =>
         /\ loop = "select" /\ ~ticking /\ startedBy[g] = run
         /\ pc[g] = "resIndex" => resTable # 0

\* the consumers of a run start between init and select, and only there
Consumers ==
    /\ loop = "initDup" \/ Managing =>
         /\ WorkersAllowed => resTable = run /\ run \in resAlive
         /\ aIsRunning
    /\ Managing => /\ dupAlive[run] = ToSet(wcfg.dupserver)
                   /\ dupAlive[run] # {} => dupTable = run /\ dupKeys = dupAlive[run]
    /\ \A n \in Runs : n > run \/ (n = run /\ loop \in {"init", "initDup"}) => dupAlive[n] = {}

ServingInv == ~racing => OneShutdown /\ Consumers

\* The consumers of a run, when another one starts or a goroutine goes on.
LEMMA InitServing == Init => ServingInv
  BY DEF Init, ServingInv, OneShutdown, Active, Consumers, Managing

LEMMA NextServing ==
  ASSUME TypeInv, ServingInv, HistoryInv, [Next]_vars
  PROVE  ServingInv'
  <1>1. SUFFICES ASSUME ~racing' PROVE OneShutdown' /\ Consumers'
    BY DEF ServingInv
  <1>2. ~racing
    BY <1>1, NextHistory
  <1>3. OneShutdown /\ Consumers
    BY <1>2 DEF ServingInv
  <1>4. /\ pc \in [Goroutines -> PCs] /\ run \in Runs /\ DOMAIN dupAlive = Runs
        /\ startedBy \in [Goroutines -> {0} \cup Runs]
    BY RunsSuffice DEF TypeInv, SignalsType, TablesType
  <1> DEFINE Goal == OneShutdown' /\ Consumers'
  <1>5. ASSUME UNCHANGED <<run, loop, ticking, tables, goVars, wcfg, openFiles, aIsRunning>>
        PROVE  Goal
    BY <1>3, <1>5 DEF OneShutdown, Active, Consumers, Managing, WorkersAllowed, goVars, tables
  <1>6. ASSUME StartShutdown, loop = "select", UNCHANGED <<run, loop, tables, wcfg, openFiles>>
        PROVE  Goal
    <2> DEFINE g == Cardinality({h \in Goroutines : pc[h] # "none"}) + 1
    <2>1. /\ pc' = [pc EXCEPT ![g] = "workers"]
          /\ startedBy' = [startedBy EXCEPT ![g] = run]
          /\ ticking' = FALSE
          /\ \A h \in Goroutines : ~Active(h)
      BY <1>1, <1>6 DEF StartShutdown, ShutdownRuns, Active
    <2> HIDE DEF g
    <2>2. \A h \in Goroutines : Active(h)' => h = g
      BY <1>4, <2>1 DEF Active
    <2>3. \A h \in Goroutines : Active(h)' => pc'[h] = "workers" /\ startedBy'[h] = run'
      BY <1>4, <1>6, <2>1, <2>2
    <2>4. OneShutdown'
      BY <1>6, <2>1, <2>2, <2>3 DEF OneShutdown
    <2>5. Consumers'
      BY <1>3, <1>6, <2>1 DEF Consumers, Managing, tables
    <2> QED
      BY <2>4, <2>5
  <1>7. ASSUME NEW sig \in Signals, Send(sig) PROVE Goal
    BY <1>5, <1>7 DEF Send, cfgVars
  <1>8. CASE InitResultServerConsumers
    <2> DEFINE clamped == ClampToOpenFiles(cfg, openFiles)
    <2>1. /\ loop = "init" /\ loop' = "initDup" /\ aIsRunning' = TRUE
          /\ NumResultServer(clamped) # 0 => resTable' = run /\ resAlive' = resAlive \cup {run}
          /\ UNCHANGED <<run, openFiles, ticking, dupTable, dupKeys, dupAlive, goVars>>
      BY <1>8 DEF InitResultServerConsumers
    <2>2. cfg \in Reached(openFiles) /\ openFiles \in OpenFilesLimits
      BY <2>1 DEF TypeInv, OptionsType
    <2>3. WorkersAllowed => NumResultServer(clamped) > 0
      BY <2>2, EnoughWorkers
    <2> HIDE DEF clamped
    <2>4. NumResultServer(clamped) > 0 => NumResultServer(clamped) # 0
      OBVIOUS
    <2>5. WorkersAllowed' => resTable' = run' /\ run' \in resAlive'
      BY <2>1, <2>3, <2>4 DEF WorkersAllowed
    <2>6. Consumers'
      BY <1>3, <2>1, <2>5 DEF Consumers, Managing
    <2>7. OneShutdown'
      BY <1>3, <2>1 DEF OneShutdown, Active, goVars
    <2> QED
      BY <2>6, <2>7
  <1>9. CASE InitDupServerConsumers
    <2>1. /\ loop = "initDup" /\ loop' = "select"
          /\ UNCHANGED <<run, cfgVars, aIsRunning, resTable, resAlive, goVars>>
      BY <1>9 DEF InitDupServerConsumers
    <2>2. /\ dupAlive'[run] = ToSet(wcfg.dupserver)
          /\ dupAlive'[run] # {} => dupTable' = run /\ dupKeys' = dupAlive'[run]
      <3>1. CASE wcfg.dupserver = <<>>
        <4>1. ToSet(<<>>) = {}
          BY DEF ToSet
        <4>2. dupAlive[run] = {} /\ dupAlive' = dupAlive
          BY <1>3, <1>4, <1>9, <2>1, <3>1 DEF InitDupServerConsumers, Consumers
        <4> QED
          BY <3>1, <4>1, <4>2
      <3>2. CASE wcfg.dupserver # <<>>
        BY <1>4, <1>9, <3>2 DEF InitDupServerConsumers
      <3> QED
        BY <3>1, <3>2
    <2>3. \A n \in Runs : n > run => dupAlive'[n] = {}
      <3> SUFFICES ASSUME NEW n \in Runs, n > run PROVE dupAlive'[n] = {}
        OBVIOUS
      <3>1. dupAlive[n] = {}
        BY <1>3 DEF Consumers
      <3> QED
        BY <1>4, <1>9, <3>1, MainLoopAssumption DEF InitDupServerConsumers, Runs
    <2>4. Consumers'
      <3>1. WorkersAllowed' = WorkersAllowed
        BY <2>1 DEF WorkersAllowed, cfgVars
      <3> QED
        BY <1>3, <1>4, <2>1, <2>2, <2>3, <3>1 DEF Consumers, Managing, Runs, cfgVars
    <2>5. OneShutdown'
      BY <1>3, <2>1 DEF OneShutdown, Active, goVars
    <2> QED
      BY <2>4, <2>5
  <1>10. CASE StartFails \/ TickWithoutConfig \/ Workers \/ UNCHANGED vars
    BY <1>5, <1>10 DEF StartFails, TickWithoutConfig, Workers, StartWorker, WorkerEnds, vars,
                       cfgVars
  <1>11. CASE HandleTermination
    BY <1>6, <1>11 DEF HandleTermination, cfgVars
  <1>12. ASSUME NEW read \in Readings, ReloadRefused(read) \/ ReloadWithoutKey(read) PROVE Goal
    BY <1>5, <1>12 DEF ReloadRefused, ReloadWithoutKey, ApplyConfigChanges, cfgVars
  <1>13. ASSUME NEW read \in Readings, ReloadInPlace(read) PROVE Goal
    <2>1. /\ wcfg' = read.config
          /\ UNCHANGED <<run, loop, openFiles, ticking, aIsRunning, tables, goVars>>
      BY <1>13 DEF ReloadInPlace, ApplyConfigChanges
    <2>2. read.config.dupserver = wcfg.dupserver
      BY <1>13 DEF ReloadInPlace, RestartRequired
    <2>3. OneShutdown'
      BY <1>3, <2>1 DEF OneShutdown, Active, goVars, tables
    <2>4. Consumers'
      BY <1>3, <2>1, <2>2 DEF Consumers, Managing, WorkersAllowed, tables
    <2> QED
      BY <2>3, <2>4
  <1>14. ASSUME NEW read \in Readings, ReloadWithRestart(read) PROVE Goal
    BY <1>6, <1>14 DEF ReloadWithRestart, ApplyConfigChanges, Reloading
  <1>15. ASSUME NEW g \in Goroutines, MainLoopExited(g) PROVE Goal
    <2>1. /\ Active(g) /\ pc' = [pc EXCEPT ![g] = "gone"] /\ UNCHANGED tables
          /\ \/ loop' = "exited" /\ run' = run
             \/ loop' = "init" /\ run' = run + 1
      BY <1>15 DEF MainLoopExited, Active
    <2>2. \A h \in Goroutines : ~Active(h)'
      BY <1>3, <1>4, <2>1 DEF OneShutdown, Active
    <2>3. \A n \in Runs : n > run => dupAlive'[n] = {}
      BY <1>3, <2>1 DEF Consumers, tables
    <2>4. Consumers'
      BY <1>4, <2>1, <2>3 DEF Consumers, Managing, Runs
    <2> QED
      BY <2>2, <2>4 DEF OneShutdown
  <1>16. ASSUME NEW g \in Goroutines, Shutdown(g) PROVE Goal
    <2>1. UNCHANGED <<run, loop, cfgVars, ticking, startedBy>>
      BY <1>16 DEF Shutdown, WorkersStopped, TerminateDup, DupTerminated, RangeResult,
                   IndexResult, TerminateResult, NextDup
    <2>2. /\ Active(g)
          /\ \E at \in PCs : pc' = [pc EXCEPT ![g] = at]
      BY <1>16 DEF Shutdown, WorkersStopped, TerminateDup, DupTerminated, RangeResult,
                   IndexResult, TerminateResult, NextDup, Active, PCs
    <2>3. /\ loop = "select" /\ ~ticking
          /\ \A h \in Goroutines : Active(h) => h = g
      BY <1>3, <2>2 DEF OneShutdown
    <2>4. pc'[g] = "resIndex" => resTable' # 0
      BY <1>4, <1>16, <2>2 DEF Shutdown, WorkersStopped, TerminateDup, DupTerminated,
                   RangeResult, IndexResult, TerminateResult, NextDup, tables
    <2>5. DOMAIN dupAlive' = Runs /\ \A n \in Runs : dupAlive[n] = {} => dupAlive'[n] = {}
      BY <1>4, <1>16 DEF Shutdown, WorkersStopped, TerminateDup, DupTerminated, RangeResult,
                   IndexResult, TerminateResult, NextDup, tables
    <2>6. OneShutdown'
      <3>1. \A h \in Goroutines : Active(h)' => h = g
        BY <1>4, <2>2, <2>3 DEF Active
      <3> QED
        BY <1>3, <2>1, <2>2, <2>4, <3>1 DEF OneShutdown
    <2>7. Consumers'
      BY <1>3, <2>1, <2>3, <2>5 DEF Consumers, Managing
    <2> QED
      BY <2>6, <2>7
  <1> QED
    BY <1>7, <1>8, <1>9, <1>10, <1>11, <1>12, <1>13, <1>14, <1>15, <1>16 DEF Next, Loop

\* A main loop that manages workers has the consumers of its own run, alive, and those of
\* every dup server of its configuration, unless two Shutdown goroutines have run side by
\* side, whatever is reloaded and whenever the signals come.
THEOREM ConsumersServe == Spec => []Serving
  <1>1. ServingInv => Serving
    BY DEF ServingInv, Consumers, Serving, HasConsumers, Managing
  <1>2. TypeInv /\ HistoryInv /\ ServingInv /\ [Next]_vars
          => TypeInv' /\ HistoryInv' /\ ServingInv'
    BY NextTypes, NextHistory, NextServing
  <1> QED
    BY <1>1, <1>2, InitTypes, InitHistory, InitServing, PTL DEF Spec

-----------------------------------------------------------------------------
(***************************************************************************)
(* The configuration.  What a reload has read is used by the next run,     *)
(* because no other reload was taken meanwhile.                            *)
(***************************************************************************)
ConfigInv ==
    /\ lastGood \in Readings /\ lastGood.ok
    /\ ~late =>
         /\ \A g \in Goroutines : Active(g) /\ exit = "Reload" => newCfg = lastGood.config
         /\ loop = "init" => cfg = lastGood.config
         /\ loop = "initDup" \/ Managing => InForce

LEMMA InitConfig == Init => ConfigInv
  BY DEF Init, ConfigInv, Active, Managing

LEMMA NextConfig ==
  ASSUME TypeInv, ServingInv, HistoryInv, ConfigInv, [Next]_vars
  PROVE  ConfigInv'
  <1>1. pc \in [Goroutines -> PCs] /\ lastGood \in Readings /\ lastGood.ok
    BY DEF TypeInv, SignalsType, ConfigInv
  <1>2. ASSUME UNCHANGED <<loop, ticking, exit, cfgVars, pc, late>> PROVE ConfigInv'
    BY <1>2 DEF ConfigInv, Active, Managing, InForce, cfgVars
  <1>3. ASSUME NEW sig \in Signals, Send(sig) PROVE ConfigInv'
    BY <1>2, <1>3 DEF Send, goVars, history
  <1>4. CASE InitResultServerConsumers
    <2>1. /\ loop = "init" /\ loop' = "initDup"
          /\ wcfg' = ClampToOpenFiles(cfg, openFiles)
          /\ UNCHANGED <<exit, openFiles, newCfg, lastGood, goVars, history>>
      BY <1>4 DEF InitResultServerConsumers
    <2> QED
      BY <2>1 DEF ConfigInv, Active, InForce, goVars, history
  <1>5. CASE InitDupServerConsumers
    <2>1. /\ loop = "initDup" /\ loop' = "select"
          /\ UNCHANGED <<exit, cfgVars, goVars, history>>
      BY <1>5 DEF InitDupServerConsumers
    <2> QED
      BY <2>1 DEF ConfigInv, Active, Managing, InForce, cfgVars, goVars, history
  <1>6. CASE StartFails \/ TickWithoutConfig \/ Workers \/ UNCHANGED vars
    BY <1>2, <1>6 DEF StartFails, TickWithoutConfig, Workers, StartWorker, WorkerEnds, vars,
                      goVars, history
  <1>7. CASE HandleTermination
    <2>1. /\ loop = "select" /\ exit' # "Reload" /\ ticking' = FALSE
          /\ late' = (late \/ ShutdownRuns)
          /\ UNCHANGED <<loop, cfgVars>>
      BY <1>7 DEF HandleTermination, StartShutdown
    <2> QED
      BY <1>1, <2>1 DEF ConfigInv, Managing, cfgVars
  <1>8. ASSUME NEW read \in Readings, ReloadRefused(read) PROVE ConfigInv'
    <2>1. /\ loop = "select" /\ late' = (late \/ ShutdownRuns)
          /\ UNCHANGED <<loop, openFiles, wcfg, lastGood, ticking, pc>>
      BY <1>8 DEF ReloadRefused, ApplyConfigChanges, Reloading, goVars
    <2> QED
      BY <1>1, <2>1 DEF ConfigInv, Active, Managing, InForce, ShutdownRuns
  <1>9. ASSUME NEW read \in Readings, ReloadInPlace(read) PROVE ConfigInv'
    <2>1. /\ loop = "select" /\ late' = (late \/ ShutdownRuns)
          /\ read.ok /\ lastGood' = read /\ wcfg' = read.config
          /\ UNCHANGED <<loop, openFiles, ticking, pc>>
      BY <1>9 DEF ReloadInPlace, ApplyConfigChanges, Reloading, goVars
    <2> QED
      BY <2>1 DEF ConfigInv, Active, Managing, InForce, ShutdownRuns
  <1>10. ASSUME NEW read \in Readings, ReloadWithoutKey(read) PROVE ConfigInv'
    <2>1. /\ late' = (late \/ ShutdownRuns)
          /\ UNCHANGED <<loop, ticking, exit, cfgVars, pc>>
      BY <1>10 DEF ReloadWithoutKey, goVars
    <2> QED
      BY <2>1 DEF ConfigInv, Active, Managing, InForce, cfgVars
  <1>11. ASSUME NEW read \in Readings, ReloadWithRestart(read) PROVE ConfigInv'
    <2>1. /\ loop = "select" /\ ticking' = FALSE
          /\ read.ok /\ lastGood' = read /\ newCfg' = read.config
          /\ UNCHANGED loop
      BY <1>11 DEF ReloadWithRestart, ApplyConfigChanges, Reloading, StartShutdown
    <2> QED
      BY <2>1 DEF ConfigInv, Managing
  <1>12. ASSUME NEW g \in Goroutines, MainLoopExited(g) PROVE ConfigInv'
    <2>1. /\ Active(g) /\ pc' = [pc EXCEPT ![g] = "gone"]
          /\ UNCHANGED <<lastGood, late>>
      BY <1>12 DEF MainLoopExited, Active, history
    <2>2. CASE exit # "Reload"
      <3>1. loop' = "exited" /\ exit' = exit
        BY <1>12, <2>2 DEF MainLoopExited
      <3> QED
        BY <1>1, <2>1, <2>2, <3>1 DEF ConfigInv, Managing
    <2>3. CASE exit = "Reload"
      <3>1. loop' = "init" /\ cfg' = IF newCfg # NoConfig THEN newCfg ELSE config
        BY <1>12, <2>3 DEF MainLoopExited
      <3>2. ~late => cfg' = lastGood.config
        BY <1>1, <2>1, <2>3, <3>1, ReadingsAssumption DEF ConfigInv
      <3>3. ~late => \A h \in Goroutines : ~Active(h)'
        <4> SUFFICES ASSUME ~late, NEW h \in Goroutines PROVE ~Active(h)'
          OBVIOUS
        <4>1. OneShutdown
          BY DEF HistoryInv, ServingInv
        <4> QED
          BY <1>1, <2>1, <4>1 DEF OneShutdown, Active
      <3> QED
        BY <1>1, <2>1, <3>1, <3>2, <3>3 DEF ConfigInv, Managing
    <2> QED
      BY <2>2, <2>3
  <1>13. ASSUME NEW g \in Goroutines, Shutdown(g) PROVE ConfigInv'
    <2>1. UNCHANGED <<loop, exit, cfgVars, ticking, late>>
      BY <1>13 DEF Shutdown, WorkersStopped, TerminateDup, DupTerminated, RangeResult,
                   IndexResult, TerminateResult, NextDup, history
    <2>2. Active(g) /\ \E at \in PCs : pc' = [pc EXCEPT ![g] = at]
      BY <1>13 DEF Shutdown, WorkersStopped, TerminateDup, DupTerminated, RangeResult,
                   IndexResult, TerminateResult, NextDup, Active, PCs
    <2>3. \A h \in Goroutines : Active(h)' => Active(h)
      BY <1>1, <2>2 DEF Active
    <2> QED
      BY <2>1, <2>3 DEF ConfigInv, Managing, InForce, cfgVars
  <1> QED
    BY <1>3, <1>4, <1>5, <1>6, <1>7, <1>8, <1>9, <1>10, <1>11, <1>12, <1>13 DEF Next, Loop

MainInv == TypeInv /\ HistoryInv /\ ServingInv /\ ConfigInv

LEMMA MainInvariance == Init /\ [][Next]_vars => []MainInv
  <1>1. Init => MainInv
    BY InitTypes, InitHistory, InitServing, InitConfig DEF MainInv
  <1>2. MainInv /\ [Next]_vars => MainInv'
    BY NextTypes, NextHistory, NextServing, NextConfig DEF MainInv
  <1> QED
    BY <1>1, <1>2, PTL

\* The workers are managed by the configuration of the last reload that was accepted, as
\* long as no signal was taken while a Shutdown goroutine was active.
THEOREM LastGoodConfigKept == Spec => []LastGoodConfig
  <1>1. MainInv => LastGoodConfig
    BY DEF MainInv, ConfigInv, LastGoodConfig
  <1> QED
    BY <1>1, MainInvariance, PTL DEF Spec

-----------------------------------------------------------------------------
(***************************************************************************)
(* What ends the program against its will.                                 *)
(***************************************************************************)
\* what the program may have ended for
CrashInv ==
    /\ cfg = NoConfig => \E read \in Readings : read.config = NoConfig
    /\ CrashNeedsBrokenReload

LEMMA InitCrash == Init => CrashInv
  BY ReadingsAssumption DEF Init, CrashInv, CrashNeedsBrokenReload

LEMMA NextCrash ==
  ASSUME MainInv, CrashInv, [Next]_vars
  PROVE  CrashInv'
  <1> USE DEF MainInv
  <1>1. openFiles \in OpenFilesLimits /\ (Alive => crashed = "no")
    BY DEF TypeInv, OptionsType, Alive
  <1>2. ASSUME UNCHANGED <<cfg, openFiles, crashed>>, late => late', racing => racing'
        PROVE  CrashInv'
    BY <1>2 DEF CrashInv, CrashNeedsBrokenReload
  <1>3. ASSUME UNCHANGED openFiles, crashed' = "no",
               cfg' = NoConfig => \E read \in Readings : read.config = NoConfig
        PROVE  CrashInv'
    BY <1>3 DEF CrashInv, CrashNeedsBrokenReload
  <1>4. CASE InitResultServerConsumers
    <2>1. /\ loop = "init" /\ cfg' = ClampToOpenFiles(cfg, openFiles)
          /\ UNCHANGED <<openFiles, crashed>> /\ crashed = "no"
      BY <1>1, <1>4 DEF InitResultServerConsumers
    <2>2. cfg' # NoConfig
      BY <1>1, <2>1, NeverNil DEF TypeInv, OptionsType
    <2> QED
      BY <1>3, <2>1, <2>2
  <1>5. CASE StartFails
    <2>1. /\ loop = "init" /\ UNCHANGED <<cfg, openFiles, late>>
          /\ \/ crashed' = "key" /\ ~HasKey(cfg)
             \/ /\ crashed' = "open files"
                /\ NumResultServer(ClampToOpenFiles(cfg, openFiles)) < 0
      BY <1>5 DEF StartFails, cfgVars, history
    <2>2. cfg \in Reached(openFiles)
      BY <2>1 DEF TypeInv, OptionsType
    <2>3. CASE crashed' = "key"
      <3>1. ~HasKey(cfg)
        BY <2>1, <2>3
      <3>2. ~late => cfg = lastGood.config /\ lastGood \in Readings /\ lastGood.ok
        BY <2>1 DEF ConfigInv
      <3>3. ~late => \E read \in Readings : /\ read.ok /\ ~HasKey(read.config)
                                            /\ read.config.keyfile # ""
        BY <3>1, <3>2, NamesKeyFile
      <3> QED
        BY <2>1, <2>3, <3>3 DEF CrashInv, CrashNeedsBrokenReload
    <2>4. CASE crashed' = "open files"
      <3>1. openFiles < OpenFilesNeeded(0) \/ \E c \in Configs : c.maxWorker < 0
        BY <1>1, <2>1, <2>2, <2>4, NegativeWorkers
      <3> QED
        BY <2>1, <2>4, <3>1 DEF CrashInv, CrashNeedsBrokenReload
    <2> QED
      BY <2>1, <2>3, <2>4
  <1>6. CASE TickWithoutConfig
    <2>1. crashed' = "nil configuration" /\ cfg = NoConfig /\ UNCHANGED <<cfg, openFiles>>
      BY <1>6 DEF TickWithoutConfig, cfgVars
    <2> QED
      BY <2>1 DEF CrashInv, CrashNeedsBrokenReload
  <1>7. CASE HandleTermination
    <2>1. UNCHANGED <<cfg, openFiles, crashed>> /\ crashed = "no"
      BY <1>1, <1>7 DEF HandleTermination, cfgVars
    <2> QED
      BY <1>3, <2>1 DEF CrashInv
  <1>8. ASSUME NEW read \in Readings,
               ReloadRefused(read) \/ ReloadInPlace(read) \/ ReloadWithRestart(read)
        PROVE  CrashInv'
    <2>1. cfg' = read.config /\ UNCHANGED <<openFiles, crashed>> /\ crashed = "no"
      BY <1>1, <1>8 DEF ReloadRefused, ReloadInPlace, ReloadWithRestart, Reloading,
                        ApplyConfigChanges
    <2> QED
      BY <1>3, <2>1
  <1>9. ASSUME NEW read \in Readings, ReloadWithoutKey(read) PROVE CrashInv'
    <2>1. /\ read.ok /\ ~HasKey(read.config) /\ crashed' = "key"
          /\ UNCHANGED <<cfg, openFiles>>
      BY <1>9 DEF ReloadWithoutKey, cfgVars
    <2>2. read.config.keyfile # ""
      BY <2>1, NamesKeyFile
    <2> QED
      BY <2>1, <2>2 DEF CrashInv, CrashNeedsBrokenReload
  <1>10. ASSUME NEW g \in Goroutines, MainLoopExited(g) PROVE CrashInv'
    <2>1. UNCHANGED <<openFiles, crashed>> /\ crashed = "no"
      BY <1>1, <1>10 DEF MainLoopExited
    <2>2. CASE exit # "Reload"
      BY <1>3, <1>10, <2>1, <2>2 DEF MainLoopExited, CrashInv
    <2>3. CASE exit = "Reload"
      <3>1. cfg' = IF newCfg # NoConfig THEN newCfg ELSE config
        BY <1>10, <2>3 DEF MainLoopExited
      <3>2. config # NoConfig
        BY <1>1, NeverNil DEF TypeInv, OptionsType
      <3> QED
        BY <1>3, <2>1, <3>1, <3>2
    <2> QED
      BY <2>2, <2>3
  <1>11. ASSUME NEW g \in Goroutines, IndexResult(g) PROVE CrashInv'
    <2>1. /\ pc[g] = "resIndex" /\ crashed = "no" /\ UNCHANGED <<cfg, openFiles, racing>>
          /\ crashed' = IF resTable = 0 THEN "nil consumers" ELSE crashed
      BY <1>1, <1>11 DEF IndexResult, cfgVars, history
    <2>2. resTable = 0 => racing
      BY <2>1 DEF ServingInv, OneShutdown, Active
    <2> QED
      BY <2>1, <2>2 DEF CrashInv, CrashNeedsBrokenReload
  <1>12. CASE \/ Workers \/ UNCHANGED vars
              \/ InitDupServerConsumers
              \/ \E sig \in Signals : Send(sig)
              \/ \E g \in Goroutines :
                   \/ WorkersStopped(g) \/ TerminateDup(g) \/ DupTerminated(g)
                   \/ RangeResult(g) \/ TerminateResult(g) \/ \E d \in dupTodo[g] : NextDup(g, d)
    <2>1. UNCHANGED <<cfg, openFiles, crashed, late, racing>>
      BY <1>12 DEF Workers, StartWorker, WorkerEnds, vars, InitDupServerConsumers, Send,
                   WorkersStopped, TerminateDup, DupTerminated, RangeResult, TerminateResult,
                   NextDup, cfgVars, history
    <2> QED
      BY <1>2, <2>1
  <1> QED
    BY <1>4, <1>5, <1>6, <1>7, <1>8, <1>9, <1>10, <1>11, <1>12 DEF Next, Loop, Shutdown

\* No Shutdown goroutine indexes a table that has been emptied, unless a second one ran
\* beside it, which is when it happens; a configuration that was refused does not end the
\* program over its key, unless a signal was taken while a Shutdown goroutine was active; and
\* a panic over the number of result consumers needs an open files limit or a max-worker
\* below zero workers.
THEOREM NoShutdownPanics == Spec => []CrashNeedsBrokenReload
  <1>1. CrashInv => CrashNeedsBrokenReload
    BY DEF CrashInv
  <1>2. MainInv /\ CrashInv /\ [Next]_vars => CrashInv'
    BY NextCrash
  <1> QED
    BY <1>1, <1>2, InitCrash, MainInvariance, PTL DEF Spec

-----------------------------------------------------------------------------
(***************************************************************************)
(* The workers of before a reload.  One in place leaves them alone, and    *)
(* the queues as they are, but for those of hosts and services: these      *)
(* options are not compared.  One that changes any other queue stops all   *)
(* workers before the next run starts any.                                 *)
(***************************************************************************)
ComparedQueues(queues) == {q \in queues : q[1] \notin {"host", "service"}}

\* the workers listen to the same queues, as far as reloads compare them
SameQueues ==
    \A queues \in workers : ComparedQueues(queues) = ComparedQueues(Queues(lastGood.config))

Followed ==
    /\ Managing => SameQueues
    /\ \A g \in Goroutines : Active(g) /\ pc[g] # "workers" => workers = {}
    /\ loop \in {"init", "initDup"} => workers = {}

QueuesInv == ~late => Followed

\* the options that queues come from
QueuesOf(c, q) ==
    \/ c.eventhandler /\ q = <<"eventhandler", "">>
    \/ c.notifications /\ q = <<"notification", "">>
    \/ \E g \in ToSet(c.hostgroups) : q = <<"hostgroup", g>>
    \/ \E g \in ToSet(c.servicegroups) : q = <<"servicegroup", g>>

LEMMA PairParts == \A a, b : <<a, b>>[1] = a /\ <<a, b>>[2] = b
  OBVIOUS

LEMMA ComparedOptions ==
  ASSUME NEW c, NEW q
  PROVE  q \in ComparedQueues(Queues(c)) <=> QueuesOf(c, q)
  <1>1. \/ ~(q \in Queues(c))
        \/ c.hosts /\ q = <<"host", "">>
        \/ c.services /\ q = <<"service", "">>
        \/ QueuesOf(c, q)
    BY DEF Queues, QueuesOf
  <1>2. QueuesOf(c, q) => q \in Queues(c)
    <2>1. CASE c.eventhandler /\ q = <<"eventhandler", "">>
      BY <2>1, Zenon DEF Queues
    <2>2. CASE c.notifications /\ q = <<"notification", "">>
      BY <2>2, Zenon DEF Queues
    <2>3. ASSUME NEW g \in ToSet(c.hostgroups), q = <<"hostgroup", g>> PROVE q \in Queues(c)
      BY <2>3, Zenon DEF Queues
    <2>4. ASSUME NEW g \in ToSet(c.servicegroups), q = <<"servicegroup", g>>
          PROVE  q \in Queues(c)
      BY <2>4, Zenon DEF Queues
    <2> QED
      BY <2>1, <2>2, <2>3, <2>4 DEF QueuesOf
  <1>3. QueuesOf(c, q) => q[1] \notin {"host", "service"}
    <2>1. CASE q = <<"eventhandler", "">> \/ q = <<"notification", "">>
      <3>1. q[1] = "eventhandler" \/ q[1] = "notification"
        BY <2>1, PairParts, Zenon
      <3> QED
        BY ONLY <3>1
    <2>2. ASSUME NEW g, q = <<"hostgroup", g>> \/ q = <<"servicegroup", g>>
          PROVE  q[1] \notin {"host", "service"}
      BY <2>2
    <2> QED
      BY <2>1, <2>2 DEF QueuesOf
  <1>4. q = <<"host", "">> \/ q = <<"service", "">> => q[1] \in {"host", "service"}
    BY PairParts, Zenon
  <1> QED
    BY <1>1, <1>2, <1>3, <1>4 DEF ComparedQueues

LEMMA InPlaceKeepsQueues ==
  ASSUME NEW new, NEW old, ~RestartRequired(new, old)
  PROVE  ComparedQueues(Queues(new)) = ComparedQueues(Queues(old))
  <1>1. /\ new.eventhandler = old.eventhandler /\ new.notifications = old.notifications
        /\ new.hostgroups = old.hostgroups /\ new.servicegroups = old.servicegroups
    BY DEF RestartRequired
  <1>2. \A q : QueuesOf(new, q) <=> QueuesOf(old, q)
    BY <1>1 DEF QueuesOf
  <1> QED
    BY <1>2, ComparedOptions

LEMMA HostgroupQueues ==
  ASSUME NEW c
  PROVE  HostgroupsOf(ComparedQueues(Queues(c))) = ToSet(c.hostgroups)
  <1>1. ASSUME NEW q \in ComparedQueues(Queues(c)), q[1] = "hostgroup"
        PROVE  q[2] \in ToSet(c.hostgroups)
    <2>1. QueuesOf(c, q)
      BY ComparedOptions
    <2>2. q # <<"eventhandler", "">> /\ q # <<"notification", "">>
      <3>1. q = <<"eventhandler", "">> => q[1] = "eventhandler"
        BY PairParts, Zenon
      <3>2. q = <<"notification", "">> => q[1] = "notification"
        BY PairParts, Zenon
      <3>3. "eventhandler" # "hostgroup" /\ "notification" # "hostgroup"
        OBVIOUS
      <3> QED
        BY <1>1, <3>1, <3>2, <3>3, Zenon
    <2>3. ASSUME NEW g, q = <<"servicegroup", g>> PROVE FALSE
      BY <1>1, <2>3
    <2>4. PICK g \in ToSet(c.hostgroups) : q = <<"hostgroup", g>>
      BY <2>1, <2>2, <2>3 DEF QueuesOf
    <2> QED
      BY <2>4
  <1>2. ASSUME NEW g \in ToSet(c.hostgroups)
        PROVE  \E q \in ComparedQueues(Queues(c)) : q[1] = "hostgroup" /\ q[2] = g
    <2>1. <<"hostgroup", g>> \in ComparedQueues(Queues(c))
      BY ComparedOptions DEF QueuesOf
    <2>2. <<"hostgroup", g>>[1] = "hostgroup" /\ <<"hostgroup", g>>[2] = g
      OBVIOUS
    <2> QED
      BY <2>1, <2>2
  <1> QED
    BY <1>1, <1>2 DEF HostgroupsOf

\* no hostgroup is the queue of hosts or services
LEMMA HostgroupsCompared ==
  ASSUME NEW queues
  PROVE  HostgroupsOf(queues) = HostgroupsOf(ComparedQueues(queues))
  BY DEF HostgroupsOf, ComparedQueues

LEMMA InForceQueues ==
  ASSUME MainInv, ~late, Managing
  PROVE  ComparedQueues(Queues(wcfg)) = ComparedQueues(Queues(lastGood.config))
  <1>1. wcfg \in {lastGood.config, ClampToOpenFiles(lastGood.config, openFiles)}
    BY DEF MainInv, ConfigInv, InForce
  <1>2. lastGood.config \in Configs /\ openFiles \in Nat
    BY ReadingsAssumption, MainLoopAssumption DEF MainInv, TypeInv, OptionsType, ConfigInv,
                                                  Configs
  <1> QED
    BY <1>1, <1>2, ClampKeeps

LEMMA NextQueues ==
  ASSUME MainInv, QueuesInv, [Next]_vars
  PROVE  QueuesInv'
  <1>0. pc \in [Goroutines -> PCs] /\ late \in BOOLEAN
    BY DEF MainInv, TypeInv, SignalsType, HistoryInv
  <1> SUFFICES ASSUME ~late' PROVE Followed'
    BY DEF QueuesInv
  <1>13. ~late /\ Followed
    BY NextHistory DEF MainInv, QueuesInv
  <1>1. ASSUME UNCHANGED <<loop, ticking, lastGood, workers, pc>> PROVE Followed'
    BY <1>13, <1>1 DEF Followed, SameQueues, Managing, Active
  <1>2. ASSUME NEW sig \in Signals, Send(sig) PROVE Followed'
    BY <1>1, <1>2 DEF Send, cfgVars, goVars
  <1>3. CASE InitResultServerConsumers
    BY <1>13, <1>3 DEF InitResultServerConsumers, Followed, SameQueues, Managing, Active, goVars
  <1>4. CASE InitDupServerConsumers
    BY <1>13, <1>4 DEF InitDupServerConsumers, Followed, SameQueues, Managing, Active, cfgVars, goVars
  <1>5. CASE StartFails \/ TickWithoutConfig \/ UNCHANGED vars
    BY <1>1, <1>5 DEF StartFails, TickWithoutConfig, vars, cfgVars, goVars
  <1>6. ASSUME StartShutdown, UNCHANGED <<loop, workers>>, loop = "select"
        PROVE  Followed'
    <2> DEFINE g == Cardinality({h \in Goroutines : pc[h] # "none"}) + 1
    <2>1. ticking' = FALSE /\ pc' = [pc EXCEPT ![g] = "workers"]
      BY <1>6 DEF StartShutdown
    <2> HIDE DEF g
    <2>2. \A h \in Goroutines : Active(h)' /\ pc'[h] # "workers" => Active(h) /\ pc[h] # "workers"
      BY <1>0, <2>1 DEF Active
    <2> QED
      BY <1>13, <1>6, <2>1, <2>2 DEF Followed, SameQueues, Managing
  <1>7. CASE HandleTermination
    BY <1>6, <1>7 DEF HandleTermination
  <1>8. ASSUME NEW read \in Readings,
               \/ ReloadRefused(read) \/ ReloadInPlace(read)
               \/ ReloadWithRestart(read) \/ ReloadWithoutKey(read)
        PROVE  Followed'
    <2>1. CASE ReloadRefused(read) \/ ReloadWithoutKey(read)
      BY <1>1, <2>1 DEF ReloadRefused, ReloadWithoutKey, ApplyConfigChanges, cfgVars, goVars
    <2>2. CASE ReloadInPlace(read)
      <3>1. /\ ~RestartRequired(read.config, wcfg)
            /\ lastGood' = read /\ UNCHANGED <<loop, ticking, workers, pc>>
        BY <2>2 DEF ReloadInPlace, ApplyConfigChanges, goVars
      <3>2. Managing => ComparedQueues(Queues(lastGood'.config))
                          = ComparedQueues(Queues(lastGood.config))
        BY <1>13, <3>1, InPlaceKeepsQueues, InForceQueues
      <3> QED
        BY <1>13, <3>1, <3>2 DEF Followed, SameQueues, Managing, Active
    <2>3. CASE ReloadWithRestart(read)
      BY <1>6, <2>3 DEF ReloadWithRestart, ApplyConfigChanges, Reloading
    <2> QED
      BY <1>8, <2>1, <2>2, <2>3
  <1>9. ASSUME NEW g \in Goroutines, MainLoopExited(g) PROVE Followed'
    <2>1. /\ Active(g) /\ pc[g] # "workers" /\ workers' = workers
          /\ loop' # "select"
      BY <1>9 DEF MainLoopExited, Active
    <2> QED
      BY <1>13, <2>1 DEF Followed, SameQueues, Managing
  <1>10. CASE StartWorker
    <2>1. Managing /\ workers' = workers \cup {Queues(wcfg)}
          /\ UNCHANGED <<loop, ticking, lastGood, pc>>
      BY <1>10 DEF StartWorker, Managing, cfgVars, goVars
    <2>2. ComparedQueues(Queues(wcfg)) = ComparedQueues(Queues(lastGood.config))
      BY <1>13, <2>1, InForceQueues
    <2>3. \A g \in Goroutines : ~Active(g)
      BY <1>13, <2>1 DEF MainInv, ServingInv, HistoryInv, OneShutdown, Managing
    <2> QED
      BY <1>13, <2>1, <2>2, <2>3 DEF Followed, SameQueues, Managing, Active
  <1>11. ASSUME NEW queues \in workers, WorkerEnds(queues) PROVE Followed'
    BY <1>13, <1>11 DEF WorkerEnds, Followed, SameQueues, Managing, Active, cfgVars, goVars
  <1>12. ASSUME NEW g \in Goroutines, Shutdown(g) PROVE Followed'
    <2>1. /\ UNCHANGED <<loop, ticking, lastGood>> /\ Active(g)
          /\ \E at \in PCs : pc' = [pc EXCEPT ![g] = at]
      BY <1>12 DEF Shutdown, WorkersStopped, TerminateDup, DupTerminated, RangeResult,
                   IndexResult, TerminateResult, NextDup, Active, PCs, cfgVars
    <2>2. workers' = {}
      BY <1>13, <1>12, <2>1 DEF Shutdown, WorkersStopped, TerminateDup, DupTerminated, RangeResult,
                   IndexResult, TerminateResult, NextDup, Followed
    <2> QED
      BY <1>13, <2>1, <2>2 DEF Followed, SameQueues
  <1> QED
    BY <1>2, <1>3, <1>4, <1>5, <1>7, <1>8, <1>9, <1>10, <1>11, <1>12 DEF Next, Loop, Workers

\* Every worker that takes jobs listens to the queues of the last configuration that was
\* accepted, as long as no signal was taken while a Shutdown goroutine was active: all queues
\* but those of hosts and services, which applyConfigChanges does not compare.
THEOREM WorkersFollowReload == Spec => [](Managing /\ ~late => SameQueues)
  <1>1. QueuesInv => (Managing /\ ~late => SameQueues)
    BY DEF QueuesInv, Followed
  <1>2. Init => QueuesInv
    BY DEF Init, QueuesInv, Followed, SameQueues, Managing, Active
  <1>3. MainInv /\ QueuesInv /\ [Next]_vars => QueuesInv'
    BY NextQueues
  <1> QED
    BY <1>1, <1>2, <1>3, MainInvariance, PTL DEF Spec

\* So they listen to the hostgroups that the lines of its files name, provided that the
\* files are read as they are meant: the part of ListensToConfig that is about the parser
\* (configuration_parser.go), and not about reloads, stays with TLC.
THEOREM WorkersListen ==
  ASSUME \A read \in Readings :
           read.ok => ToSet(read.config.hostgroups) = HostgroupsAsked(read.disk)
  PROVE  Spec => []ListensToConfig
  <1>1. ASSUME MainInv, Managing /\ ~late => SameQueues PROVE ListensToConfig
    <2> SUFFICES ASSUME Managing, ~late, NEW queues \in workers
                 PROVE  HostgroupsOf(queues) = HostgroupsAsked(lastGood.disk)
      BY DEF ListensToConfig
    <2>1. HostgroupsOf(queues) = ToSet(lastGood.config.hostgroups)
      BY <1>1, HostgroupsCompared, HostgroupQueues DEF SameQueues
    <2> QED
      BY <1>1, <2>1 DEF MainInv, ConfigInv
  <1> QED
    BY <1>1, MainInvariance, WorkersFollowReload, PTL DEF Spec
=============================================================================
