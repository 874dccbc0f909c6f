---------------------------- MODULE Configuration ----------------------------
(***************************************************************************)
(* How the worker gets its configuration (configuration_parser.go and      *)
(* initConfiguration) and what it derives from it: the queues its workers  *)
(* listen to, the number of result consumers, the limit that the open      *)
(* files set, and whether a reload needs a restart.                        *)
(*                                                                         *)
(* A line is an item [key, value]; a key is named like the field it sets.  *)
(* "config" includes a file, "malformed" is a line without "=".  Options   *)
(* that nothing here depends on are left out.  An address is a record      *)
(* [host, port] whose parts may be empty, a name is a string.              *)
(***************************************************************************)
EXTENDS Integers, Sequences, FiniteSets, SequencesExt

CONSTANTS
    Arguments,      \* items of the command line, the same at every reload
    KeyFiles,       \* names of the key files that can be read
    NoConfig        \* nil

OpenFilesBase == 50
OpenFilesPerWorker == 5
ExtraPercent(n) == (n * 12) \div 10     \* OpenFilesExtraPercent = 1.2
MinResultServerWorker == 10
MaxResultServerWorker == 100

\* setDefaultValues
Defaults ==
    [server |-> <<>>, dupserver |-> <<>>, hostgroups |-> <<>>, servicegroups |-> <<>>,
     eventhandler |-> FALSE, notifications |-> FALSE, services |-> FALSE, hosts |-> FALSE,
     host |-> "", service |-> "",
     encryption |-> TRUE, key |-> "", keyfile |-> "",
     minWorker |-> 1, maxWorker |-> 20, numResultWorker |-> 0,
     dupServerBacklogQueueSize |-> 1000]

Lists == {"server", "dupserver", "hostgroups", "servicegroups"}

-----------------------------------------------------------------------------
\* fixGearmandServerAddress: a port if there is none, else a host if there is none
FixAddress(a) ==
    IF a.port = "" THEN [a EXCEPT !.port = "4730"]
    ELSE IF a.host = "" THEN [a EXCEPT !.host = "0.0.0.0"] ELSE a

Malformed == [key |-> "malformed", value |-> ""]

\* parseConfigItem: lists grow, the other options are overwritten, unknown ones ignored
ParseConfigItem(options, item) ==
    IF item.key = "server"
    THEN [options EXCEPT !.server = @ \o [i \in DOMAIN item.value |-> FixAddress(item.value[i])]]
    ELSE IF item.key \in Lists THEN [options EXCEPT ![item.key] = @ \o item.value]
    ELSE IF item.key \in DOMAIN options THEN [options EXCEPT ![item.key] = item.value]
    ELSE options

(***************************************************************************)
(* What is parsed, in order, when "items" are: readSettingsPath puts the   *)
(* lines of an included file in the place of the item that names it.  The  *)
(* files of a disk do not include each other in a circle (the program      *)
(* would not return), so that their number bounds the depth.               *)
(***************************************************************************)
Included(disk, items) ==
    LET Replace(seq, Read(_)) ==
          FlattenSeq([i \in DOMAIN seq |->
            IF seq[i].key # "config" THEN <<seq[i]>>
            ELSE IF seq[i].value \in DOMAIN disk THEN Read(seq[i].value)
            ELSE <<Malformed>>])
        lines[depth \in 0..Cardinality(DOMAIN disk)] ==
          [file \in DOMAIN disk |->
             IF depth = 0 THEN <<>> ELSE Replace(disk[file], LAMBDA f : lines[depth - 1][f])]
    IN  Replace(items, LAMBDA f : lines[Cardinality(DOMAIN disk)][f])

\* cleanListAttribute: no empty and no repeated elements
CleanListAttribute(elements, empty) ==
    FoldLeft(LAMBDA uniq, e : IF e \in empty \/ Contains(uniq, e) THEN uniq
                              ELSE Append(uniq, e),
             <<>>, elements)

\* cleanListAttributes: no server is empty after fixGearmandServerAddress
CleanListAttributes(options) ==
    [options EXCEPT !.server = CleanListAttribute(@, {}),
                   !.dupserver = CleanListAttribute(@, {""}),
                   !.hostgroups = CleanListAttribute(@, {""}),
                   !.servicegroups = CleanListAttribute(@, {""})]

HasQueues(options) ==
    \/ options.notifications \/ options.services \/ options.eventhandler \/ options.hosts
    \/ options.hostgroups # <<>> \/ options.servicegroups # <<>>

\* checkForReasonableConfig: the errors
Reasonable(options) ==
    /\ options.server # <<>>
    /\ HasQueues(options)
    /\ options.encryption => options.key # "" \/ options.keyfile # ""

\* checkForReasonableConfig: what it repairs
RaiseMaxWorker(options) ==
    IF options.minWorker > options.maxWorker
    THEN [options EXCEPT !.maxWorker = options.minWorker] ELSE options

\* initConfiguration: nil for a line that cannot be parsed, else a configuration with
\* or without an error
InitConfiguration(disk) ==
    LET items == Included(disk, Arguments)
        options == CleanListAttributes(FoldLeft(ParseConfigItem, Defaults, items))
    IN  IF \E i \in DOMAIN items : items[i].key = Malformed.key
        THEN [config |-> NoConfig, ok |-> FALSE]
        ELSE IF Reasonable(options) THEN [config |-> RaiseMaxWorker(options), ok |-> TRUE]
        ELSE [config |-> options, ok |-> FALSE]

-----------------------------------------------------------------------------
\* getKey: without a key the program panics, without its key file it exits
HasKey(options) ==
    options.encryption =>
      options.key # "" \/ (options.keyfile # "" /\ options.keyfile \in KeyFiles)

OpenFilesNeeded(n) == ExtraPercent(n * OpenFilesPerWorker + OpenFilesBase)

\* maxPossibleWorker of mainLoop, rounded towards zero
MaxPossibleWorker(limit) ==
    LET spare == 10 * limit - 12 * OpenFilesBase
        perWorker == 12 * OpenFilesPerWorker
    IN  IF spare >= 0 THEN spare \div perWorker ELSE -((-spare) \div perWorker)

\* the comparison is one of uint64, where a negative number is a huge one (on amd64; Go
\* leaves this conversion to the platform)
ExceedsOpenFiles(n, limit) == OpenFilesNeeded(n) > limit \/ OpenFilesNeeded(n) < 0

\* mainLoop lowers maxWorker, in the object that all its pointers share
ClampToOpenFiles(options, limit) ==
    IF ExceedsOpenFiles(options.maxWorker, limit)
    THEN [options EXCEPT !.maxWorker = MaxPossibleWorker(limit)] ELSE options

\* initializeResultServerConsumers; a negative number makes make() panic
NumResultServer(options) ==
    LET byWorkers == Min({Max({options.maxWorker \div 10, MinResultServerWorker}),
                          MaxResultServerWorker})
    IN  Min({options.maxWorker,
             IF options.numResultWorker > 0 THEN options.numResultWorker ELSE byWorkers})

\* registerFunctions: the queues a worker with this configuration listens to
Queues(options) ==
    LET If(option, queue) == IF options[option] THEN {<<queue, "">>} ELSE {}
    IN  If("eventhandler", "eventhandler") \cup If("notifications", "notification")
        \cup If("hosts", "host") \cup If("services", "service")
        \cup {<<"hostgroup", g>> : g \in ToSet(options.hostgroups)}
        \cup {<<"servicegroup", g>> : g \in ToSet(options.servicegroups)}

\* Mutant: the hostgroups are not compared.
RestartRequiredWithoutGroups(new, old) ==
    \E option \in {"server", "dupserver", "dupServerBacklogQueueSize", "host", "service",
                   "servicegroups", "eventhandler", "notifications"} :
      new[option] # old[option]

\* applyConfigChanges compares these; host and service are options of send_gearman, the
\* worker's hosts and services are not among them
RestartRequired(new, old) ==
    \E option \in {"server", "dupserver", "dupServerBacklogQueueSize", "host", "service",
                   "hostgroups", "servicegroups", "eventhandler", "notifications"} :
      new[option] # old[option]
=============================================================================
