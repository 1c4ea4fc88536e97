------------------------------ MODULE Settings ------------------------------
(***************************************************************************)
(* How flags, environment and configuration files become the settings of a *)
(* command: the init functions of cmd/bench.go, cmd/worker.go and          *)
(* cmd/workers.go, which run in this order for every command, and so do    *)
(* the functions they pass to cobra.OnInitialize.  There is one viper, and *)
(* "worker" and "workers" have their flags, file and variables in common.  *)
(*                                                                         *)
(* Of a value the module keeps where it comes from.  One key stands for    *)
(* all that are treated alike: "runtime" for those of bench,               *)
(* "benchmarkPort" for the ports and the sampling, "exportMetrics" and     *)
(* "exportPrometheus" for the two pairs of metrics keys.                   *)
(***************************************************************************)
EXTENDS Integers, Sequences

CONSTANTS
  Inputs   \* what the program may be started with

Commands == <<"bench", "worker", "workers">>

Keys == {"runtime", "benchmarkPort", "exportMetrics", "workerCount", "exportPrometheus"}

\* The keys of the flags each command defines and binds with bindToViper.
Binds == [bench |-> {"runtime"},
          worker |-> {"benchmarkPort", "exportMetrics"},
          workers |-> {"workerCount", "benchmarkPort", "exportMetrics"}]

\* The program's variables, named by their flag.
Variables == {"runtime", "benchmarkPort", "exportMetrics", "workerCount"}

\* The key under which each command's initializer reads a variable.
Reads ==
  [bench |-> [runtime |-> "runtime"],
   worker |-> [benchmarkPort |-> "benchmarkPort", exportMetrics |-> "exportMetrics"],
   workers |-> [benchmarkPort |-> "benchmarkPort", exportMetrics |-> "exportPrometheus",
                workerCount |-> "workerCount"]]

\* A file that is missing, or cannot be parsed, counts as none.
NoFile == [found |-> FALSE, keys |-> {}]
Files == {NoFile} \cup [found : {TRUE}, keys : SUBSET Keys]

Prefixes == {"", "WORKER_", "WORKERS_"}
Origins == {"flag", "env", "benchFile", "workerFile", "default", "zero"}

ASSUME SettingsAssumption ==
  \A input \in Inputs :
    /\ input.command \in {"bench", "worker", "workers"}
    /\ input.flags \subseteq Binds[input.command]
    /\ input.env \subseteq Prefixes \X Keys
    /\ {input.benchFile, input.workerFile} \subseteq Files

VARIABLES
  given,      \* command, flags, environment and files of this execution
  step,       \* how far the start of the program is
  boundFlag,  \* viper: the command whose flag a key is bound to
  boundEnv,   \* viper: the prefix of the environment variable it is bound to
  prefix,     \* viper: the prefix of the environment in general
  loaded,     \* viper: the file its configuration comes from
  setting     \* where the value of each variable comes from

viper == <<boundFlag, boundEnv, prefix, loaded>>
settingsVars == <<given, step, viper, setting>>

Init ==
  /\ given \in Inputs
  /\ step = 1
  /\ boundFlag = [k \in Keys |-> "none"]
  /\ boundEnv = [k \in Keys |-> "none"]
  /\ prefix = ""
  /\ loaded = [origin |-> "none", keys |-> {}]
  /\ setting = [v \in Variables |-> "zero"]

-----------------------------------------------------------------------------
\* The init functions, in the order of the files.

\* SetEnvPrefix; bench calls none.
PrefixOf == [bench |-> "", worker |-> "WORKER_", workers |-> "WORKERS_"]

\* Mutant: a key stays bound to the flag it was bound to first.
Bound_First(c, k) == IF k \in Binds[c] /\ boundFlag[k] = "none" THEN c ELSE boundFlag[k]

\* bindToViper: the last binding counts.
Bound(c, k) == IF k \in Binds[c] THEN c ELSE boundFlag[k]

\* Defines the flags of a command and binds their keys.
\* The flags of the workers are variables that get their default at once.
Register(c) ==
  /\ prefix' = PrefixOf[c]
  /\ boundFlag' = [k \in Keys |-> Bound(c, k)]
  /\ boundEnv' = [k \in Keys |-> IF k \in Binds[c] THEN prefix' ELSE boundEnv[k]]
  /\ setting' = [v \in Variables |-> IF v \in Binds[c] /\ c # "bench" THEN "default"
                                     ELSE setting[v]]
  /\ UNCHANGED <<given, loaded>>

\* cobra parses the flags of the command it was given.
ParseFlags ==
  /\ setting' = [v \in Variables |->
                   IF v \in given.flags /\ given.command # "bench" THEN "flag"
                   ELSE setting[v]]
  /\ UNCHANGED <<given, viper>>

-----------------------------------------------------------------------------
\* The functions passed to cobra.OnInitialize.

\* viper.Get: a flag of the bound command that was set, the environment, the
\* configuration, and else the value the bound flag has now.
Get(k) ==
  IF boundFlag[k] = given.command /\ k \in given.flags THEN "flag"
  ELSE IF {<<prefix, k>>, <<boundEnv[k], k>>} \cap given.env # {} THEN "env"
  ELSE IF k \in loaded'.keys THEN loaded'.origin
  ELSE IF boundFlag[k] = "none" THEN "zero"
  ELSE IF boundFlag[k] = "bench" THEN "default" ELSE setting[k]

FileOf(c) == IF c = "bench" THEN given.benchFile ELSE given.workerFile
OriginOf(c) == IF c = "bench" THEN "benchFile" ELSE "workerFile"

\* A file that is found replaces what was loaded before.
Load(c) ==
  loaded' = IF FileOf(c).found THEN [origin |-> OriginOf(c), keys |-> FileOf(c).keys]
            ELSE loaded

ReadSettings(c) ==
  /\ Load(c)
  /\ setting' = [v \in Variables |-> IF v \in DOMAIN Reads[c] THEN Get(Reads[c][v])
                                     ELSE setting[v]]
  /\ UNCHANGED <<given, boundFlag, boundEnv, prefix>>

\* Mutant: the functions run in the order worker, workers, bench.
Initializer_Rotated(n) == Commands[1 + (n % 3)]

Initializer(n) == Commands[n]

Start ==
  /\ step <= 7
  /\ step' = step + 1
  /\ IF step <= 3 THEN Register(Commands[step])
     ELSE IF step = 4 THEN ParseFlags
     ELSE ReadSettings(Initializer(step - 4))

\* The command's own function runs.
Started == step = 8

-----------------------------------------------------------------------------
\* Properties.

\* Every variable has a value of its type.
SettingsTypeOK ==
  /\ given \in Inputs
  /\ step \in 1 .. 8
  /\ boundFlag \in [Keys -> {"bench", "worker", "workers", "none"}]
  /\ boundEnv \in [Keys -> Prefixes \cup {"none"}]
  /\ prefix \in Prefixes
  /\ loaded \in [origin : Origins \cup {"none"}, keys : SUBSET Keys]
  /\ setting \in [Variables -> Origins]

InFile(k) == k \in given.benchFile.keys \cup given.workerFile.keys
InEnv(k) == \E p \in Prefixes : <<p, k>> \in given.env

\* Metrics are only exported on the word of a file or of the environment, under a
\* key no flag has.
MetricsOnlyByFile ==
  /\ setting["exportMetrics"] \in {"env", "benchFile", "workerFile", "zero"}
  /\ setting["exportMetrics"] # "zero" => InFile("exportPrometheus") \/ InEnv("exportPrometheus")

\* A flag of the command line has its effect, with two exceptions: a flag of
\* "worker" gives way to environment and files, because its key was bound again,
\* to the flag of "workers"; and the metrics flags have none at all.
FlagsPrevail ==
  Started =>
    /\ \A k \in given.flags \ {"exportMetrics"} :
         (given.command = "worker" => ~ InFile(k) /\ ~ InEnv(k)) => setting[k] = "flag"
    /\ MetricsOnlyByFile

\* A command does not take its settings from the file of the other kind of command
\* when it has one of its own.
OwnFileFirst ==
  Started =>
    \A v \in Binds[given.command] :
      /\ given.command = "bench" => setting[v] # "workerFile"
      /\ given.command # "bench" /\ given.workerFile.found => setting[v] # "benchFile"

-----------------------------------------------------------------------------
\* What documentation says, and the code does not keep.

\* "If you don't supply any parameters, default values are chose." (README.md)
DefaultsApply ==
  Started /\ given.flags = {} /\ given.env = {} /\ given.benchFile = NoFile
    /\ given.workerFile = NoFile
  => \A v \in Binds[given.command] : setting[v] = "default"

=============================================================================
