------------------------------ MODULE Startup -------------------------------
(***************************************************************************)
(* The broker from config.Load to the accept loop (cmd/kaged/main.go), and *)
(* the set of partitions it keeps (internal/storage/broker_store.go): the  *)
(* scan of the log directory, partitions created on demand, Topics, the    *)
(* loop of the log cleaner, and handleMetadata, which reports Topics.      *)
(* What is in a partition is left to PartitionStore, and what happens      *)
(* between the signal and the exit to Broker.                              *)
(***************************************************************************)
EXTENDS Config, PartitionNames, FiniteSets

CONSTANTS
    Files,          \* the contents kage.yaml may have; <<>> when there is none
    Envs,           \* the values the KAGE_* variables may have
    Partitions,     \* the partitions that clients ask for
    OffsetsTopic,   \* ConsumerOffsetsTopic
    Foreign,        \* directories in the log directory that are not partitions
    Unreadable,     \* partitions whose directory the cleaner cannot list
    OpenMayFail,    \* opening a partition may fail
    MaxRestarts,    \* bound on the times the process starts again
    MaxRequests     \* bound on the Metadata requests

Offsets0 == TopicPartition(OffsetsTopic, 0)
AllPartitions == Partitions \cup {Offsets0}

ASSUME StartupAssumption ==
    /\ Files \subseteq Seq(ConfigLine) /\ Envs \subseteq [Fields -> Text]
    /\ AllPartitions \subseteq [topic: Seq(Chars) \ {<<>>}, partition: 0..MaxPartition]
    /\ \A tp \in Partitions : TopicPartition(tp.topic, 0) \in Partitions
    /\ \A name \in Foreign : Parsed(name) = {}
    /\ Unreadable \subseteq AllPartitions /\ OpenMayFail \in BOOLEAN
    /\ MaxRestarts \in Nat /\ MaxRequests \in Nat

VARIABLES
    pc,         \* where main is
    signalled,  \* ctx is done
    file, env,  \* the sources of the configuration, while it is loaded
    todo,       \* variables to apply, then directory entries to scan
    cfg,
    dirs,       \* log directory -> names of the directories in it
    stores,     \* BrokerStore.stores: key -> directory, as a set of pairs
    created,    \* log directory -> partitions that were opened there, ever
    tried,      \* log directory -> those whose opening was begun
    cleaner,    \* "off", "tick", or "sweep" over the partitions left
    left,
    swept,      \* the partition swept last
    meta,       \* a Metadata request: topics to create, what existed before it
    requests,
    restarts

configVars == <<file, env, cfg>>
diskVars == <<dirs, created, tried>>
cleanVars == <<cleaner, left, swept>>
metaVars == <<meta, requests>>
vars == <<pc, signalled, configVars, todo, diskVars, stores, cleanVars, metaVars, restarts>>

NoEnv == [key \in Fields |-> Empty]
NoMeta == [pc |-> "none", topics |-> {}, before |-> {}, made |-> {}, answer |-> {}]
NoSweep == TopicPartition(<<>>, 0)

(* The log directories that a configuration can name. *)
Roots == {defaults.log_directory}
         \cup {e["log_directory"] : e \in {v \in Envs : v["log_directory"] # Empty}}
         \cup UNION {{Value(f[i]) : i \in {k \in 1..Len(f) : f[k].key = "log_directory"}} :
                     f \in Files}

TypeOK ==
    /\ pc \in {"load", "env", "validate", "mkdir", "scan", "listen", "hydrate",
               "serving", "exited", "invalid"}
    /\ signalled \in BOOLEAN /\ file \in Files \cup {<<>>} /\ env \in Envs \cup {NoEnv}
    /\ cfg \in [Fields -> Text]
    /\ \A r \in Roots : /\ created[r] \subseteq tried[r] /\ tried[r] \subseteq AllPartitions
                        /\ dirs[r] \subseteq Foreign \cup {partitionKey(tp) : tp \in tried[r]}
    /\ \A s, t \in stores : s.key = t.key => s = t
    /\ cleaner \in {"off", "tick", "sweep"} /\ left \subseteq AllPartitions
    /\ swept \in AllPartitions \cup {NoSweep}
    /\ meta.pc \in {"none", "create", "answered"}
    /\ requests \in 0..MaxRequests /\ restarts \in 0..MaxRestarts

Root == cfg.log_directory

Init ==
    /\ pc = "load" /\ signalled = FALSE /\ file = <<>> /\ env = NoEnv /\ cfg = defaults
    /\ todo = {} /\ stores = {} /\ cleaner = "off" /\ left = {} /\ swept = NoSweep
    /\ meta = NoMeta
    /\ dirs = [r \in Roots |-> Foreign]
    /\ created = [r \in Roots |-> {}] /\ tried = [r \in Roots |-> {}]
    /\ requests = 0 /\ restarts = 0
-----------------------------------------------------------------------------
MainStep(from, to) ==
    /\ pc = from /\ pc' = to
    /\ UNCHANGED <<signalled, metaVars, restarts>>

(* os.Exit(1), from a step that can fail once the configuration is loaded  *)
(* (pc is "invalid" when it is the configuration that ended main).         *)
Fails(from) ==
    /\ MainStep(from, "exited")
    /\ cleaner' = "off"
    /\ UNCHANGED <<configVars, todo, diskVars, stores, left, swept>>

(* Load: the file is parsed, up to the first line that is not accepted. *)
LoadFile ==
    /\ \E f \in Files, e \in Envs :
         /\ MainStep("load", IF FileAccepted(f) THEN "env" ELSE "invalid")
         /\ file' = f /\ env' = e
         /\ cfg' = IF FileAccepted(f) THEN FileConfig(f) ELSE cfg
         /\ todo' = Set(e)
    /\ UNCHANGED <<diskVars, stores, cleanVars>>

(* Mutant: a variable does not replace what the file has set. *)
ApplyEnvUnder(key) ==
    /\ pc = "env" /\ key \in todo
    /\ MainStep("env", IF Accepted(key, env[key]) THEN "env" ELSE "invalid")
    /\ cfg' = IF cfg[key] = defaults[key] THEN applyField(cfg, key, env[key]) ELSE cfg
    /\ todo' = todo \ {key}
    /\ UNCHANGED <<file, env, diskVars, stores, cleanVars>>

(* applyEnv ranges over a map: the variables come in any order. *)
ApplyEnv(key) ==
    /\ pc = "env" /\ key \in todo
    /\ MainStep("env", IF Accepted(key, env[key]) THEN "env" ELSE "invalid")
    /\ cfg' = IF Accepted(key, env[key]) THEN applyField(cfg, key, env[key]) ELSE cfg
    /\ todo' = todo \ {key}
    /\ UNCHANGED <<file, env, diskVars, stores, cleanVars>>

EnvApplied ==
    /\ MainStep("env", "validate") /\ todo = {}
    /\ UNCHANGED <<configVars, todo, diskVars, stores, cleanVars>>

Validate ==
    /\ MainStep("validate", IF validate(cfg) THEN "mkdir" ELSE "invalid")
    /\ UNCHANGED <<configVars, todo, diskVars, stores, cleanVars>>

(* MkdirAll of the log directory, and OpenBrokerStore lists it. *)
MakeRoot ==
    /\ MainStep("mkdir", "scan")
    /\ file' = <<>> /\ env' = NoEnv
    /\ todo' = dirs[Root]
    /\ UNCHANGED <<cfg, diskVars, stores, cleanVars>>

(* An entry of the listing: opened when its name is that of a partition. *)
Scan(name) ==
    /\ pc = "scan" /\ name \in todo
    /\ MainStep("scan", "scan")
    /\ todo' = todo \ {name}
    /\ stores' = stores \cup {[key |-> partitionKey(tp), dir |-> name] : tp \in Parsed(name)}
    /\ created' = [created EXCEPT ![Root] = @ \cup Parsed(name)]
    /\ UNCHANGED <<configVars, dirs, tried, cleanVars>>

(* The cleaner is started, if there is a retention time. *)
Scanned ==
    /\ MainStep("scan", "listen") /\ todo = {}
    /\ cleaner' = IF cfg.log_retention.n > 0 THEN "tick" ELSE "off"
    /\ UNCHANGED <<configVars, todo, diskVars, stores, left, swept>>

Listen ==
    /\ MainStep("listen", "hydrate")
    /\ UNCHANGED <<configVars, todo, diskVars, stores, cleanVars>>

Known(tp) == \E s \in stores : s.key = partitionKey(tp)

(* Mutant: the partitions of a topic share a directory. *)
GetOrCreateTopic(tp, ok) ==
    /\ ok
    /\ IF Known(tp) THEN UNCHANGED <<diskVars, stores>>
       ELSE /\ dirs' = [dirs EXCEPT ![Root] = @ \cup {tp.topic}]
            /\ stores' = stores \cup {[key |-> partitionKey(tp), dir |-> tp.topic]}
            /\ created' = [created EXCEPT ![Root] = @ \cup {tp}]
            /\ tried' = [tried EXCEPT ![Root] = @ \cup {tp}]

(* GetOrCreatePartition: the directory is made before the store is opened, *)
(* and stays when that fails.  There is none when it cannot be made.       *)
GetOrCreatePartition(tp, ok) ==
    LET made == [dirs EXCEPT ![Root] = @ \cup {partitionKey(tp)}]
    IN  /\ ok \/ (OpenMayFail /\ ~Known(tp))
        /\ IF Known(tp) THEN UNCHANGED <<diskVars, stores>>
           ELSE /\ tried' = [tried EXCEPT ![Root] = @ \cup {tp}]
                /\ IF ok
                   THEN /\ dirs' = made
                        /\ stores' = stores \cup {[key |-> partitionKey(tp),
                                                   dir |-> partitionKey(tp)]}
                        /\ created' = [created EXCEPT ![Root] = @ \cup {tp}]
                   ELSE dirs' \in {dirs, made} /\ UNCHANGED <<stores, created>>

(* LoadOffsetsCache, which opens its partition. *)
Hydrate ==
    \E ok \in BOOLEAN :
        /\ MainStep("hydrate", IF ok THEN "serving" ELSE "exited")
        /\ GetOrCreatePartition(Offsets0, ok)
        /\ cleaner' = IF ok THEN cleaner ELSE "off"
        /\ UNCHANGED <<configVars, todo, left, swept>>

(* A load that fails on what the partition holds. *)
StepFails == (\E from \in {"mkdir", "listen", "hydrate"} : Fails(from))
             \/ (OpenMayFail /\ todo # {} /\ Fails("scan"))

(* The signal has been received: main closes the store and returns. *)
Stop ==
    /\ MainStep("serving", "exited") /\ signalled
    /\ cleaner' = "off"
    /\ UNCHANGED <<configVars, todo, diskVars, stores, left, swept>>

Main ==
    \/ LoadFile \/ (\E key \in Fields : ApplyEnv(key)) \/ EnvApplied \/ Validate
    \/ MakeRoot \/ (\E name \in todo : Scan(name)) \/ Scanned
    \/ Listen \/ Hydrate \/ StepFails \/ Stop

(* SIGTERM is caught once the configuration is loaded. *)
Signal ==
    /\ pc \in {"mkdir", "scan", "listen", "hydrate", "serving"} /\ ~signalled
    /\ signalled' = TRUE
    /\ UNCHANGED <<pc, configVars, todo, diskVars, stores, cleanVars, metaVars, restarts>>

(* The process is started again, after it has ended or was killed. *)
Restart ==
    /\ restarts < MaxRestarts /\ restarts' = restarts + 1
    /\ pc' = "load" /\ signalled' = FALSE /\ file' = <<>> /\ env' = NoEnv
    /\ cfg' = defaults /\ todo' = {} /\ stores' = {}
    /\ cleaner' = "off" /\ left' = {} /\ swept' = NoSweep /\ meta' = NoMeta
    /\ UNCHANGED <<diskVars, requests>>
-----------------------------------------------------------------------------
(* Topics: each store's directory name is taken apart. *)
Topics == UNION {Parsed(s.dir) : s \in stores}

(* A Produce, Fetch, ListOffsets or OffsetCommit request of a client. *)
Request(tp) ==
    /\ pc = "serving"
    /\ \E ok \in BOOLEAN : GetOrCreatePartition(tp, ok)
    /\ UNCHANGED <<pc, signalled, configVars, todo, cleanVars, metaVars, restarts>>

(* handleMetadata creates the topics it was asked for one by one, other    *)
(* requests running between them, and then collects Topics.                *)
MetadataAsk ==
    /\ pc = "serving" /\ meta.pc \in {"none", "answered"} /\ requests < MaxRequests
    /\ requests' = requests + 1
    /\ \E T \in SUBSET {tp.topic : tp \in Partitions} :
         meta' = [NoMeta EXCEPT !.pc = "create", !.topics = T, !.before = Topics]
    /\ UNCHANGED <<pc, signalled, configVars, todo, diskVars, stores, cleanVars, restarts>>

MetadataCreate(t) ==
    /\ pc = "serving" /\ meta.pc = "create" /\ t \in meta.topics
    /\ \E ok \in BOOLEAN :
         /\ GetOrCreatePartition(TopicPartition(t, 0), ok)
         /\ meta' = [meta EXCEPT !.topics = @ \ {t},
                       !.made = IF ok THEN @ \cup {TopicPartition(t, 0)} ELSE @]
    /\ UNCHANGED <<pc, signalled, configVars, todo, cleanVars, requests, restarts>>

(* Mutant: Topics is collected before the topics are created. *)
MetadataAnswerBefore ==
    /\ pc = "serving" /\ meta.pc = "create" /\ meta.topics = {}
    /\ meta' = [meta EXCEPT !.pc = "answered", !.answer = meta.before]
    /\ UNCHANGED <<pc, signalled, configVars, todo, diskVars, stores, cleanVars, requests,
                   restarts>>

MetadataAnswer ==
    /\ pc = "serving" /\ meta.pc = "create" /\ meta.topics = {}
    /\ meta' = [meta EXCEPT !.pc = "answered", !.answer = Topics]
    /\ UNCHANGED <<pc, signalled, configVars, todo, diskVars, stores, cleanVars, requests,
                   restarts>>
-----------------------------------------------------------------------------
(* runLogCleaner: the ticker fires and the partitions are listed. *)
CleanerTick ==
    /\ cleaner = "tick" /\ cleaner' = "sweep" /\ left' = Topics
    /\ UNCHANGED <<pc, signalled, configVars, todo, diskVars, stores, swept, metaVars,
                   restarts>>

(* Mutant: an error ends the round. *)
CleanOrQuit(tp) ==
    /\ cleaner = "sweep" /\ tp \in left
    /\ left' = IF tp \in Unreadable THEN {} ELSE left \ {tp}
    /\ swept' = IF Known(tp) THEN tp ELSE swept
    /\ UNCHANGED <<pc, signalled, configVars, todo, diskVars, stores, cleaner, metaVars,
                   restarts>>

(* CleanOldSegments of one of them, in any order; an error does not end    *)
(* the round.                                                              *)
Clean(tp) ==
    /\ cleaner = "sweep" /\ tp \in left
    /\ left' = left \ {tp}
    /\ swept' = IF Known(tp) /\ tp \notin Unreadable THEN tp ELSE swept
    /\ UNCHANGED <<pc, signalled, configVars, todo, diskVars, stores, cleaner, metaVars,
                   restarts>>

CleanerRound ==
    /\ cleaner = "sweep" /\ left = {} /\ cleaner' = "tick"
    /\ UNCHANGED <<pc, signalled, configVars, todo, diskVars, stores, left, swept, metaVars,
                   restarts>>

(* The select takes ctx.Done. *)
CleanerStops ==
    /\ cleaner = "tick" /\ signalled /\ cleaner' = "off"
    /\ UNCHANGED <<pc, signalled, configVars, todo, diskVars, stores, left, swept, metaVars,
                   restarts>>

runLogCleaner ==
    \/ CleanerTick \/ (\E tp \in AllPartitions : Clean(tp)) \/ CleanerRound \/ CleanerStops

Next ==
    \/ Main \/ Signal \/ Restart
    \/ \E tp \in Partitions : Request(tp) \/ MetadataCreate(tp.topic)
    \/ MetadataAsk \/ MetadataAnswer
    \/ runLogCleaner

Spec == Init /\ [][Next]_vars

(* The cleaner's goroutine is scheduled and its ticker fires. *)
FairSpec == Spec /\ WF_vars(runLogCleaner)
-----------------------------------------------------------------------------
(* Whatever the order in which the map yields the variables, a field has   *)
(* the value of its variable if that is set, else of the last line for it  *)
(* in the file, else its default; and the load fails exactly when a line   *)
(* or a variable holds a value that its field does not accept.             *)
Last(key) == {i \in 1..Len(file) :
                /\ file[i].key = key
                /\ \A j \in (i + 1)..Len(file) : file[j].key # key}

Resolved(key) ==
    IF env[key] # Empty THEN env[key]
    ELSE IF Last(key) # {} THEN Value(file[CHOOSE i \in Last(key) : TRUE])
    ELSE defaults[key]

Rejected ==
    \/ \E i \in 1..Len(file) : ~Accepted(file[i].key, Value(file[i]))
    \/ \E key \in Fields : env[key] # Empty /\ ~Accepted(key, env[key])

ConfigResolved ==
    /\ pc = "mkdir" => ~Rejected /\ \A key \in Fields : cfg[key] = Resolved(key)
    /\ pc = "invalid" => Rejected

(* "Priority (highest to lowest): 1. kage.yaml in the current working      *)
(* directory 2. Environment variables": a line of the file is not undone.  *)
FileWins ==
    pc = "mkdir" => \A key \in Fields, i \in 1..Len(file) :
                        i \in Last(key) => cfg[key] = Value(file[i])

(* A serving broker reports the partitions that were ever opened in its    *)
(* log directory, by this process or one before it, under the names they   *)
(* were created with, hyphens and digits included; beyond those, only ones *)
(* whose opening had begun.                                                *)
TopicsExact ==
    pc = "serving" => created[Root] \subseteq Topics /\ Topics \subseteq tried[Root]

(* A Metadata response lists every partition there was when the request    *)
(* came, and every topic the request created.                              *)
MetadataComplete ==
    meta.pc = "answered" => meta.before \cup meta.made \subseteq meta.answer

(* While the broker runs with a retention time, the cleaner comes back to  *)
(* every partition there is, though it fails on others.                    *)
SweptAgain ==
    \A tp \in AllPartitions \ Unreadable :
        (cleaner # "off" /\ tp \in Topics) ~> (swept = tp \/ cleaner = "off")
=============================================================================
