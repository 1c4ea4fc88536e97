------------------------ MODULE WorkerCommandProofs ------------------------
(* Proofs about WorkerCommand and the Settings it reads, for any set of      *)
(* inputs and any number of workers.                                         *)
EXTENDS WorkerCommand, TLAPS

\* What the assumption on Inputs says of the input that is given.
LEMMA InputTypes ==
  ASSUME given \in Inputs
  PROVE  /\ given.command \in {"bench", "worker", "workers"}
         /\ given.flags \subseteq Binds[given.command]
         /\ given.env \subseteq Prefixes \X Keys
         /\ given.benchFile \in Files /\ given.workerFile \in Files
BY SettingsAssumption

\* What a file can be.
LEMMA FileTypes ==
  \A file \in Files : file.found \in BOOLEAN /\ file.keys \subseteq Keys
<1> TAKE file \in Files
<1>1. CASE file = NoFile
  BY <1>1 DEF NoFile
<1>2. CASE file \in [found : {TRUE}, keys : SUBSET Keys]
  <2>1. file.found \in {TRUE} /\ file.keys \in SUBSET Keys
    BY <1>2
  <2>2. QED
    BY <2>1
<1>3. QED
  BY <1>1, <1>2 DEF Files

-----------------------------------------------------------------------------
(***************************************************************************)
(* What viper and the variables hold after each step of the start.  The    *)
(* keys that "worker" and "workers" have in common are bound to the flags  *)
(* of "workers" in the end, because its init function runs last.           *)
(***************************************************************************)
Bindings ==
  /\ boundFlag["exportPrometheus"] = "none"
  /\ step >= 2 => boundFlag["runtime"] = "bench"
  /\ step >= 4 => \A k \in Binds["workers"] : boundFlag[k] = "workers"

\* The file that is loaded, while a command looks for its settings.
LoadedFile ==
  /\ loaded.origin \in {"none", "benchFile", "workerFile"}
  /\ loaded.origin = "none" => loaded.keys = {}
  /\ step <= 6 => loaded.origin # "workerFile"
  /\ step >= 7 /\ given.workerFile.found => loaded.origin # "benchFile"
  /\ loaded.keys \subseteq given.benchFile.keys \cup given.workerFile.keys

\* A flag that the command was given and that it sets a variable with.
FlagGiven(v) == given.command # "bench" /\ v \in given.flags

\* The variables of the workers: their default or their flag, until the
\* initializer of "worker" and then that of "workers" reads them.
WorkerSettings ==
  /\ step = 4 => \A v \in Binds["workers"] : setting[v] = "default"
  /\ step \in {5, 6} =>
       \A v \in Binds["workers"] : setting[v] = IF FlagGiven(v) THEN "flag" ELSE "default"
  /\ step = 7 =>
       setting["workerCount"] = IF FlagGiven("workerCount") THEN "flag" ELSE "default"

\* The flags that prevail, once their variable is read.
FlagSettings ==
  /\ step >= 6 /\ given.command = "bench" /\ "runtime" \in given.flags
       => setting["runtime"] = "flag"
  /\ step >= 7 /\ given.command = "workers" /\ "benchmarkPort" \in given.flags
       => setting["benchmarkPort"] = "flag"
  /\ step >= 7 /\ given.command = "worker" /\ "benchmarkPort" \in given.flags
       /\ ~ InFile("benchmarkPort") /\ ~ InEnv("benchmarkPort")
       => setting["benchmarkPort"] = "flag"
  /\ step = 8 /\ given.command = "workers" /\ "workerCount" \in given.flags
       => setting["workerCount"] = "flag"
  /\ step = 8 => MetricsOnlyByFile

\* The file that is not looked at.
FileSettings ==
  /\ setting["runtime"] # "workerFile"
  /\ step >= 7 /\ given.workerFile.found => setting["benchmarkPort"] # "benchFile"
  /\ step = 8 /\ given.workerFile.found =>
       setting["workerCount"] # "benchFile" /\ setting["exportMetrics"] # "benchFile"

SettingsInv ==
  /\ SettingsTypeOK
  /\ Bindings /\ LoadedFile /\ WorkerSettings /\ FlagSettings /\ FileSettings

\* Before the first function has run, no flag is bound and nothing is set.
LEMMA SettingsInitially == Init => SettingsInv
<1> SUFFICES ASSUME Init PROVE SettingsInv
  OBVIOUS
<1>1. SettingsTypeOK
  <2>1. loaded \in [origin : Origins \cup {"none"}, keys : SUBSET Keys]
    BY DEF Init
  <2>2. setting \in [Variables -> Origins]
    BY DEF Init, Origins
  <2>3. boundEnv \in [Keys -> Prefixes \cup {"none"}] /\ prefix \in Prefixes
    BY DEF Init, Prefixes
  <2>4. boundFlag \in [Keys -> {"bench", "worker", "workers", "none"}]
    BY DEF Init
  <2>5. given \in Inputs /\ step = 1
    BY DEF Init
  <2>6. QED
    BY <2>1, <2>2, <2>3, <2>4, <2>5 DEF SettingsTypeOK
<1>2. loaded.origin = "none" /\ loaded.keys = {}
  BY DEF Init
<1>3. "runtime" \in Variables /\ "exportPrometheus" \in Keys
  BY DEF Variables, Keys
<1>4. step = 1 /\ setting["runtime"] = "zero" /\ boundFlag["exportPrometheus"] = "none"
  BY <1>3 DEF Init
<1>5. QED
  BY <1>1, <1>2, <1>4 DEF SettingsInv, Bindings, LoadedFile, WorkerSettings, FlagSettings,
     FileSettings

\* The init function of a command: what it binds and what it leaves alone.
LEMMA RegisterStep ==
  ASSUME SettingsInv, step \in 1 .. 3, step' = step + 1, Register(Commands[step])
  PROVE  SettingsInv'
<1> DEFINE c == Commands[step]
<1>1. /\ \/ step = 1 /\ c = "bench"
         \/ step = 2 /\ c = "worker"
         \/ step = 3 /\ c = "workers"
      /\ step' \in 2 .. 4 /\ step' = step + 1
  BY DEF Commands
<1>2. /\ prefix' = PrefixOf[c]
      /\ boundFlag' = [k \in Keys |-> IF k \in Binds[c] THEN c ELSE boundFlag[k]]
      /\ boundEnv' = [k \in Keys |-> IF k \in Binds[c] THEN prefix' ELSE boundEnv[k]]
      /\ setting' = [v \in Variables |-> IF v \in Binds[c] /\ c # "bench" THEN "default"
                                         ELSE setting[v]]
      /\ given' = given /\ loaded' = loaded
  BY DEF Register, Bound
<1> HIDE DEF c
<1>3. SettingsTypeOK'
  <2>1. SettingsTypeOK
    BY DEF SettingsInv
  <2>2. prefix' \in Prefixes
    <3>1. PrefixOf["bench"] = "" /\ PrefixOf["worker"] = "WORKER_" /\ PrefixOf["workers"] = "WORKERS_"
      BY DEF PrefixOf
    <3>2. QED
      BY <1>1, <1>2, <3>1 DEF Prefixes
  <2>3. boundEnv' \in [Keys -> Prefixes \cup {"none"}]
    BY <1>2, <2>1, <2>2 DEF SettingsTypeOK
  <2>4. boundFlag' \in [Keys -> {"bench", "worker", "workers", "none"}]
    BY <1>1, <1>2, <2>1 DEF SettingsTypeOK
  <2>5. setting' \in [Variables -> Origins]
    BY <1>2, <2>1 DEF SettingsTypeOK, Origins
  <2>6. given' \in Inputs /\ step' \in 1 .. 8
        /\ loaded' \in [origin : Origins \cup {"none"}, keys : SUBSET Keys]
    BY <1>1, <1>2, <2>1 DEF SettingsTypeOK
  <2>7. QED
    BY <2>2, <2>3, <2>4, <2>5, <2>6 DEF SettingsTypeOK
<1>4. Bindings'
  BY <1>1, <1>2 DEF SettingsInv, Bindings, Binds, Keys
<1>5. LoadedFile'
  BY <1>1, <1>2 DEF SettingsInv, LoadedFile
<1>6. WorkerSettings'
  BY <1>1, <1>2 DEF WorkerSettings, Binds, Variables
<1>7. FlagSettings'
  BY <1>1 DEF FlagSettings
<1>8. FileSettings'
  BY <1>1, <1>2 DEF SettingsInv, FileSettings, Variables
<1>9. QED
  BY <1>3, <1>4, <1>5, <1>6, <1>7, <1>8 DEF SettingsInv

\* cobra parses the flags.
LEMMA ParseStep ==
  ASSUME SettingsInv, step = 4, step' = 5, ParseFlags
  PROVE  SettingsInv'
<1>1. /\ setting' = [v \in Variables |-> IF FlagGiven(v) THEN "flag" ELSE setting[v]]
      /\ given' = given /\ boundFlag' = boundFlag /\ boundEnv' = boundEnv
      /\ prefix' = prefix /\ loaded' = loaded
  BY DEF ParseFlags, viper, FlagGiven
<1>2. SettingsTypeOK'
  BY <1>1 DEF SettingsInv, SettingsTypeOK, Origins
<1>3. Bindings' /\ LoadedFile'
  BY <1>1 DEF SettingsInv, Bindings, LoadedFile
<1>4. WorkerSettings'
  BY <1>1 DEF SettingsInv, WorkerSettings, FlagGiven, Binds, Variables
<1>5. FlagSettings' /\ FileSettings'
  BY <1>1 DEF SettingsInv, FlagSettings, FileSettings, Variables
<1>6. QED
  BY <1>2, <1>3, <1>4, <1>5 DEF SettingsInv

\* What viper finds for a key, in the configuration that is loaded by then.
LEMMA GetTypes ==
  ASSUME SettingsInv, step >= 4, loaded'.origin = "none" => loaded'.keys = {},
         loaded'.origin \in Origins \cup {"none"}
  PROVE  \A k \in Keys : Get(k) \in Origins
<1> TAKE k \in Keys
<1>1. boundFlag[k] \in {"bench", "worker", "workers", "none"}
  BY DEF SettingsInv, SettingsTypeOK
<1>2. CASE k \in Variables
  <2>1. setting[k] \in Origins
    BY <1>2 DEF SettingsInv, SettingsTypeOK
  <2>2. QED
    BY <2>1 DEF Get, Origins
<1>3. CASE k = "exportPrometheus"
  <2>1. boundFlag[k] = "none"
    BY <1>3 DEF SettingsInv, Bindings
  <2>2. QED
    BY <2>1 DEF Get, Origins
<1>4. QED
  BY <1>2, <1>3 DEF Keys, Variables

\* The file a command looks for, loaded if it is there.
LEMMA LoadStep ==
  ASSUME SettingsInv, step \in 5 .. 7, step' = step + 1, Load(Initializer(step - 4)),
         given' = given
  PROVE  /\ LoadedFile'
         /\ loaded' \in [origin : Origins \cup {"none"}, keys : SUBSET Keys]
         /\ step >= 6 /\ given.workerFile.found => loaded'.origin # "benchFile"
         /\ step = 5 => loaded'.origin # "workerFile"
         /\ loaded'.keys \subseteq given.benchFile.keys \cup given.workerFile.keys
<1> DEFINE c == Initializer(step - 4)
<1>1. (step = 5 /\ c = "bench") \/ (step \in 6 .. 7 /\ c # "bench")
  BY DEF Initializer, Commands
<1>2. /\ given.benchFile.found \in BOOLEAN /\ given.benchFile.keys \subseteq Keys
      /\ given.workerFile.found \in BOOLEAN /\ given.workerFile.keys \subseteq Keys
  BY InputTypes, FileTypes DEF SettingsInv, SettingsTypeOK
<1>3. loaded \in [origin : Origins \cup {"none"}, keys : SUBSET Keys]
  BY DEF SettingsInv, SettingsTypeOK
<1>4. loaded' = IF FileOf(c).found THEN [origin |-> OriginOf(c), keys |-> FileOf(c).keys]
                ELSE loaded
  BY DEF Load
<1> HIDE DEF c
<1>5. CASE FileOf(c).found
  <2>1. loaded' = [origin |-> OriginOf(c), keys |-> FileOf(c).keys]
    BY <1>4, <1>5
  <2>2. loaded'.origin = OriginOf(c) /\ loaded'.keys = FileOf(c).keys
    BY <2>1
  <2>3. loaded' \in [origin : Origins \cup {"none"}, keys : SUBSET Keys]
    BY <1>1, <1>2, <2>1 DEF FileOf, OriginOf, Origins
  <2>4. QED
    BY <1>1, <2>2, <2>3 DEF LoadedFile, FileOf, OriginOf
<1>6. CASE ~ FileOf(c).found
  <2>1. loaded' = loaded
    BY <1>4, <1>6
  <2>2. QED
    BY <1>1, <1>3, <1>6, <2>1 DEF SettingsInv, LoadedFile, FileOf
<1>7. QED
  BY <1>5, <1>6

\* The variables an initializer reads, and the keys it reads them under.
LEMMA ReadsOf ==
  /\ DOMAIN Reads["bench"] = {"runtime"} /\ Reads["bench"]["runtime"] = "runtime"
  /\ DOMAIN Reads["worker"] = {"benchmarkPort", "exportMetrics"}
  /\ Reads["worker"]["benchmarkPort"] = "benchmarkPort"
  /\ Reads["worker"]["exportMetrics"] = "exportMetrics"
  /\ DOMAIN Reads["workers"] = {"benchmarkPort", "exportMetrics", "workerCount"}
  /\ Reads["workers"]["benchmarkPort"] = "benchmarkPort"
  /\ Reads["workers"]["exportMetrics"] = "exportPrometheus"
  /\ Reads["workers"]["workerCount"] = "workerCount"
BY DEF Reads

\* The initializer of a command: the file it loads and the variables it reads.
LEMMA ReadStep ==
  ASSUME SettingsInv, step \in 5 .. 7, step' = step + 1, ReadSettings(Initializer(step - 4))
  PROVE  SettingsInv'
<1> DEFINE c == Initializer(step - 4)
<1>1. /\ \/ step = 5 /\ c = "bench"
         \/ step = 6 /\ c = "worker"
         \/ step = 7 /\ c = "workers"
      /\ step' = step + 1 /\ step' \in 6 .. 8
  BY DEF Initializer, Commands
<1>2. /\ setting' = [v \in Variables |-> IF v \in DOMAIN Reads[c] THEN Get(Reads[c][v])
                                         ELSE setting[v]]
      /\ given' = given /\ boundFlag' = boundFlag /\ boundEnv' = boundEnv
      /\ prefix' = prefix
  BY DEF ReadSettings
<1>3. /\ LoadedFile'
      /\ loaded' \in [origin : Origins \cup {"none"}, keys : SUBSET Keys]
      /\ step >= 6 /\ given.workerFile.found => loaded'.origin # "benchFile"
      /\ step = 5 => loaded'.origin # "workerFile"
      /\ loaded'.keys \subseteq given.benchFile.keys \cup given.workerFile.keys
  BY <1>2, LoadStep DEF ReadSettings
<1> HIDE DEF c
<1>4. \A k \in Keys : Get(k) \in Origins
  BY <1>1, <1>3, GetTypes DEF LoadedFile
<1>5. /\ given.command \in {"bench", "worker", "workers"}
      /\ given.flags \subseteq Binds[given.command]
      /\ given.env \subseteq Prefixes \X Keys
  BY InputTypes DEF SettingsInv, SettingsTypeOK
\* Where the values come from that each initializer reads.
<1>6. step = 5 => /\ setting'["runtime"] = Get("runtime")
                  /\ \A v \in Variables \ {"runtime"} : setting'[v] = setting[v]
  BY <1>1, <1>2, ReadsOf DEF Variables
<1>7. step = 6 => /\ setting'["benchmarkPort"] = Get("benchmarkPort")
                  /\ setting'["exportMetrics"] = Get("exportMetrics")
                  /\ \A v \in Variables \ {"benchmarkPort", "exportMetrics"} :
                       setting'[v] = setting[v]
  BY <1>1, <1>2, ReadsOf DEF Variables
<1>8. step = 7 => /\ setting'["benchmarkPort"] = Get("benchmarkPort")
                  /\ setting'["exportMetrics"] = Get("exportPrometheus")
                  /\ setting'["workerCount"] = Get("workerCount")
                  /\ setting'["runtime"] = setting["runtime"]
  BY <1>1, <1>2, ReadsOf DEF Variables
<1>9. SettingsTypeOK /\ setting \in [Variables -> Origins]
  BY DEF SettingsInv, SettingsTypeOK
<1>10. SettingsTypeOK'
  <2>1. setting' \in [Variables -> Origins]
    <3>1. \A k \in {"runtime", "benchmarkPort", "exportMetrics", "exportPrometheus",
                     "workerCount"} : Get(k) \in Origins
      BY <1>4 DEF Keys
    <3>2. \A v \in Variables : setting'[v] \in Origins
      BY <1>1, <1>6, <1>7, <1>8, <1>9, <3>1 DEF Variables
    <3>3. QED
      BY <1>2, <3>2
  <2>2. QED
    BY <1>1, <1>2, <1>3, <1>9, <2>1 DEF SettingsTypeOK
<1>11. Bindings'
  BY <1>1, <1>2 DEF SettingsInv, Bindings
<1>12. WorkerSettings'
  <2>1. \A v \in Binds["workers"] : v \in Variables /\ v # "runtime"
    BY DEF Binds, Variables
  <2>2. "workerCount" \in Binds["workers"]
    BY DEF Binds
  <2>3. CASE step = 5
    BY <1>2, <1>6, <1>9, <2>1, <2>3 DEF SettingsInv, WorkerSettings, FlagGiven
  <2>4. CASE step = 6
    BY <1>2, <1>7, <1>9, <2>1, <2>2, <2>4 DEF SettingsInv, WorkerSettings, FlagGiven
  <2>5. CASE step = 7
    BY <1>1, <2>5 DEF WorkerSettings
  <2>6. QED
    BY <1>1, <2>3, <2>4, <2>5
\* What Get says of each key.
<1>13. "runtime" \in given.flags /\ given.command = "bench" => Get("runtime") = "flag"
  BY <1>1 DEF SettingsInv, Bindings, Get
<1>14. \A k \in Binds["workers"] :
         k \in given.flags /\ given.command = "workers" => Get(k) = "flag"
  BY <1>1 DEF SettingsInv, Bindings, Get
<1>15. \A k \in Binds["workers"] :
         given.command = "worker" /\ ~ InFile(k) /\ ~ InEnv(k) => Get(k) = setting[k]
  <2> TAKE k \in Binds["workers"]
  <2> HAVE given.command = "worker" /\ ~ InFile(k) /\ ~ InEnv(k)
  <2>1. boundFlag[k] = "workers"
    BY <1>1 DEF SettingsInv, Bindings
  <2>2. k \notin loaded'.keys
    BY <1>3 DEF InFile
  <2>3. {<<prefix, k>>, <<boundEnv[k], k>>} \cap given.env = {}
    <3>1. \A p \in Prefixes : <<p, k>> \notin given.env
      BY DEF InEnv
    <3>2. \A p : <<p, k>> \in given.env => p \in Prefixes
      BY <1>5
    <3>3. QED
      BY <3>1, <3>2
  <2>4. QED
    BY <2>1, <2>2, <2>3 DEF Get
<1>16. /\ Get("exportPrometheus") \in {"env", "benchFile", "workerFile", "zero"}
       /\ Get("exportPrometheus") # "zero" =>
            InFile("exportPrometheus") \/ InEnv("exportPrometheus")
  <2> DEFINE k == "exportPrometheus"
  <2>1. boundFlag[k] = "none" /\ given.command # "none"
    BY <1>5 DEF SettingsInv, Bindings
  <2>2. {<<prefix, k>>, <<boundEnv[k], k>>} \cap given.env # {} => InEnv(k)
    <3>1. \A p : <<p, k>> \in given.env => p \in Prefixes
      BY <1>5
    <3>2. QED
      BY <3>1 DEF InEnv
  <2>3. k \in loaded'.keys => InFile(k) /\ loaded'.origin \in {"benchFile", "workerFile"}
    BY <1>3 DEF InFile, LoadedFile
  <2>4. QED
    BY <2>1, <2>2, <2>3 DEF Get
<1>17. \A k \in Binds["workers"] \ {"workerCount"} :
         loaded'.origin # "benchFile" => Get(k) # "benchFile" \/ setting[k] = "benchFile"
  BY <1>1 DEF SettingsInv, Bindings, Get
<1>18. "benchmarkPort" \in Binds["workers"] /\ "workerCount" \in Binds["workers"]
       /\ "exportMetrics" \in Binds["workers"]
  BY DEF Binds
<1>19. FlagSettings'
  <2>1. (step >= 6 /\ given.command = "bench" /\ "runtime" \in given.flags
           => setting["runtime"] = "flag")'
    BY <1>1, <1>2, <1>6, <1>7, <1>8, <1>13 DEF SettingsInv, FlagSettings, Variables
  <2>2. (step >= 7 /\ given.command = "workers" /\ "benchmarkPort" \in given.flags
           => setting["benchmarkPort"] = "flag")'
    BY <1>1, <1>2, <1>7, <1>8, <1>14, <1>18
  <2>3. (step = 8 /\ given.command = "workers" /\ "workerCount" \in given.flags
           => setting["workerCount"] = "flag")'
    BY <1>1, <1>2, <1>8, <1>14, <1>18
  <2>4. (step >= 7 /\ given.command = "worker" /\ "benchmarkPort" \in given.flags
         /\ ~ InFile("benchmarkPort") /\ ~ InEnv("benchmarkPort")
           => setting["benchmarkPort"] = "flag")'
    <3>1. CASE step = 6
      BY <1>1, <1>2, <1>7, <1>15, <1>18, <3>1
         DEF SettingsInv, WorkerSettings, FlagGiven, InFile, InEnv
    <3>2. CASE step = 7
      BY <1>1, <1>2, <1>8, <1>15, <1>18, <3>2 DEF SettingsInv, FlagSettings, InFile, InEnv
    <3>3. QED
      BY <1>1, <3>1, <3>2
  <2>5. step' = 8 => MetricsOnlyByFile'
    BY <1>1, <1>2, <1>8, <1>16 DEF MetricsOnlyByFile, InFile, InEnv
  <2>6. QED
    BY <2>1, <2>2, <2>3, <2>4, <2>5 DEF FlagSettings
<1>20. FileSettings'
  <2>1. setting'["runtime"] # "workerFile"
    <3>1. CASE step = 5
      <4>1. boundFlag["runtime"] = "bench"
        BY <1>1 DEF SettingsInv, Bindings
      <4>2. Get("runtime") # "workerFile"
        BY <1>3, <3>1, <4>1 DEF Get
      <4>3. QED
        BY <1>6, <3>1, <4>2
    <3>2. CASE step # 5
      BY <1>1, <1>7, <1>8, <3>2 DEF SettingsInv, FileSettings, Variables
    <3>3. QED
      BY <3>1, <3>2
  <2>2. step' >= 7 /\ given.workerFile.found => setting'["benchmarkPort"] # "benchFile"
    BY <1>1, <1>3, <1>7, <1>8, <1>17, <1>18
       DEF SettingsInv, WorkerSettings, FileSettings
  <2>3. step' = 8 /\ given.workerFile.found => setting'["exportMetrics"] # "benchFile"
    <3>1. boundFlag["exportPrometheus"] = "none"
      BY DEF SettingsInv, Bindings
    <3>2. loaded'.origin # "benchFile" => Get("exportPrometheus") # "benchFile"
      BY <3>1 DEF Get
    <3>3. QED
      BY <1>1, <1>3, <1>8, <3>2
  <2>4. step' = 8 /\ given.workerFile.found => setting'["workerCount"] # "benchFile"
    <3>1. boundFlag["workerCount"] = "workers" \/ step' # 8
      BY <1>1, <1>18 DEF SettingsInv, Bindings
    <3>2. step = 7 => setting["workerCount"] # "benchFile"
      BY DEF SettingsInv, WorkerSettings
    <3>3. step = 7 /\ loaded'.origin # "benchFile" => Get("workerCount") # "benchFile"
      BY <1>1, <3>1, <3>2 DEF Get
    <3>4. QED
      BY <1>1, <1>3, <1>8, <3>3
  <2>5. QED
    BY <1>2, <2>1, <2>2, <2>3, <2>4 DEF FileSettings
<1>21. QED
  BY <1>3, <1>10, <1>11, <1>12, <1>19, <1>20 DEF SettingsInv

\* Every step of the start keeps it.
LEMMA StartStep ==
  ASSUME SettingsInv, Start
  PROVE  SettingsInv'
<1>1. step \in 1 .. 7 /\ step' = step + 1
  BY DEF Start, SettingsInv, SettingsTypeOK
<1>2. CASE step \in 1 .. 3
  BY <1>1, <1>2, RegisterStep DEF Start
<1>3. CASE step = 4
  BY <1>1, <1>3, ParseStep DEF Start
<1>4. CASE step \in 5 .. 7
  BY <1>1, <1>4, ReadStep DEF Start
<1>5. QED
  BY <1>1, <1>2, <1>3, <1>4

-----------------------------------------------------------------------------
(***************************************************************************)
(* The process: it waits at most three seconds for its runs, and a run     *)
(* that begins to settle only then has five to go.                         *)
(***************************************************************************)
Stages == {"idle", "load", "warned", "await", "settle", "reported"}

CommandTypeOK ==
  /\ main \in {"settings", "start", "wait", "exited", "fatal", "panic", "killed"}
  /\ count \in 0 .. MaxWorkers
  /\ {export, signalled, sigTerm} \subseteq BOOLEAN
  /\ servers \in Seq(BOOLEAN) /\ Len(servers) <= count
  /\ hooks \subseteq DOMAIN servers
  /\ clock \in 0 .. 3
  /\ run \in [Slots -> Stages]
  /\ due \in [Slots -> 0 .. 3 + Tolerance]
  /\ settling \subseteq Slots

ServersLater == main = "settings" => servers = << >>

RunInv ==
  ShuttingDown =>
    \A i \in Slots \ settling :
      run[i] # "reported" /\ (run[i] = "settle" => due[i] >= SettleTime)

CommandInv == SettingsInv /\ CommandTypeOK /\ ServersLater /\ RunInv

\* Before the command runs there is no server and no run.
LEMMA CommandInitially == CommandInit => CommandInv
<1> SUFFICES ASSUME CommandInit PROVE CommandInv
  OBVIOUS
<1>1. SettingsInv
  BY SettingsInitially DEF CommandInit
<1>2. servers = << >> /\ Len(servers) = 0 /\ servers \in Seq(BOOLEAN)
  BY DEF CommandInit
<1>3. /\ main = "settings" /\ count = 0 /\ hooks = {} /\ clock = 0
      /\ export = FALSE /\ signalled = FALSE /\ sigTerm = FALSE /\ settling = {}
  BY DEF CommandInit
<1>4. run = [i \in Slots |-> "idle"] /\ due = [i \in Slots |-> 0]
  BY DEF CommandInit
<1>5. CommandTypeOK /\ ServersLater
  <2>1. run \in [Slots -> Stages]
        /\ due \in [Slots -> 0 .. 3 + Tolerance]
    BY <1>4 DEF Tolerance, Stages
  <2>2. count \in 0 .. MaxWorkers /\ Len(servers) <= count /\ clock \in 0 .. 3
    BY <1>2, <1>3, WorkerCommandAssumption
  <2>3. {export, signalled, sigTerm} \subseteq BOOLEAN /\ hooks \subseteq DOMAIN servers
    BY <1>3
  <2>4. QED
    BY <1>2, <1>3, <2>1, <2>2, <2>3 DEF CommandTypeOK, ServersLater
<1>6. RunInv
  BY <1>3 DEF RunInv, ShuttingDown
<1>7. QED
  BY <1>1, <1>5, <1>6 DEF CommandInv

\* The steps of the process that leave its settings alone.
ProcessStep ==
  \/ Execute \/ StartWorkerProcess \/ Shutdown \/ Tick \/ Exit \/ Signal
  \/ \E i \in Slots : \/ WaitForShutdown(i) \/ StartRun(i) \/ TimeOver(i) \/ TakeSignal(i)
                      \/ LoadEnds(i) \/ FinalReport(i) \/ RunReturns(i)

\* A step reads the configuration, or it is one of the process.
LEMMA Steps ==
  ASSUME Next
  PROVE  Running /\ (ReadConfiguration \/ ProcessStep)
BY DEF Next, CommandStep, RunStep, ProcessStep

\* What is said of the settings is about their variables only.
LEMMA KeepsSettings ==
  ASSUME SettingsInv, UNCHANGED settingsVars
  PROVE  SettingsInv'
BY DEF SettingsInv, SettingsTypeOK, Bindings, LoadedFile, WorkerSettings, FlagSettings,
   FileSettings, FlagGiven, MetricsOnlyByFile, InFile, InEnv, settingsVars, viper

\* Nothing touches the settings once the command runs.
LEMMA ProcessSettings ==
  ASSUME ProcessStep
  PROVE  UNCHANGED settingsVars
BY DEF ProcessStep, Execute, StartWorkerProcess, Shutdown, Tick, Exit, Signal, WaitForShutdown,
   StartRun, TimeOver, TakeSignal, LoadEnds, FinalReport, RunReturns

\* The exit is at most three seconds away.
LEMMA ExitSoon == \A c : ExitDelay(c) \in 2 .. 3
BY DEF ExitDelay

\* The process: its own type, its servers and its runs.
LEMMA ProcessInv ==
  ASSUME CommandInv, Running, ProcessStep
  PROVE  CommandTypeOK' /\ ServersLater' /\ RunInv'
<1>1. CommandTypeOK /\ ServersLater /\ RunInv
  BY DEF CommandInv
<1>2. /\ servers \in Seq(BOOLEAN) /\ Len(servers) \in Nat /\ DOMAIN servers = 1 .. Len(servers)
      /\ Len(servers) <= count /\ count \in Nat /\ clock \in 0 .. 3
      /\ run \in [Slots -> Stages] /\ settling \subseteq Slots
      /\ due \in [Slots -> 0 .. 3 + Tolerance]
  BY <1>1, WorkerCommandAssumption DEF CommandTypeOK
<1>3. CASE Execute
  <2>1. servers = << >>
    BY <1>1, <1>3 DEF Execute, ServersLater
  <2>2. /\ main' = "start" /\ count' \in 0 .. MaxWorkers /\ export' \in BOOLEAN
        /\ UNCHANGED <<sigTerm, servers, hooks, signalled, clock, run, due, settling>>
    <3>1. main' = "start" /\ UNCHANGED <<sigTerm, servers, hooks, signalled, clock, run, due, settling>>
      BY <1>3 DEF Execute, runs
    <3>2. count' \in {1} \cup Slots
      BY <1>3 DEF Execute
    <3>3. export' \in BOOLEAN
      <4>1. export' \in {FALSE} \/ export' \in {TRUE} \/ export' \in BOOLEAN
        BY <1>3 DEF Execute
      <4>2. QED
        BY <4>1
    <3>4. QED
      BY <3>1, <3>2, <3>3, WorkerCommandAssumption DEF Slots
  <2>3. Len(servers') <= count'
    BY <2>1, <2>2
  <2>4. QED
    BY <1>1, <2>2, <2>3 DEF CommandTypeOK, ServersLater, RunInv, ShuttingDown
<1>4. CASE StartWorkerProcess
  <2>1. UNCHANGED <<count, export, sigTerm, hooks, signalled, clock, run, due, settling>>
    BY <1>4 DEF StartWorkerProcess, runs
  <2>2. CASE UNCHANGED servers
    <3>1. main' \in {"fatal", "panic"} \/ main' = main
      BY <1>4 DEF StartWorkerProcess
    <3>2. QED
      BY <1>1, <2>1, <2>2, <3>1 DEF CommandTypeOK, ServersLater, RunInv, ShuttingDown
  <2>3. CASE servers' = Append(servers, TRUE) /\ main' = main
    <3>1. /\ servers' \in Seq(BOOLEAN) /\ Len(servers') = Len(servers) + 1
          /\ DOMAIN servers' = 1 .. Len(servers) + 1
      BY <1>2, <2>3
    <3>2. Len(servers) < count /\ main = "start"
      BY <1>4 DEF StartWorkerProcess
    <3>3. Len(servers') <= count' /\ hooks' \subseteq DOMAIN servers'
      BY <1>1, <1>2, <2>1, <3>1, <3>2 DEF CommandTypeOK
    <3>4. QED
      BY <1>1, <2>1, <2>3, <3>1, <3>2, <3>3 DEF CommandTypeOK, ServersLater, RunInv, ShuttingDown
  <2>4. QED
    BY <1>4, <2>2, <2>3 DEF StartWorkerProcess
<1>5. CASE Shutdown
  <2>1. /\ main' = "wait" /\ sigTerm' = FALSE /\ hooks' = DOMAIN servers
        /\ settling' = {i \in Slots : run[i] \in {"settle", "reported"}}
        /\ due' \in [Slots -> 0 .. Tolerance]
        /\ UNCHANGED <<count, export, servers, signalled, clock, run>>
    BY <1>5 DEF Shutdown, Told
  <2>2. due' \in [Slots -> 0 .. 3 + Tolerance] /\ settling' \subseteq Slots
    BY <2>1 DEF Tolerance
  <2>3. RunInv'
    BY <2>1 DEF RunInv
  <2>4. QED
    BY <1>1, <2>1, <2>2, <2>3 DEF CommandTypeOK, ServersLater
<1>6. CASE Tick
  <2>1. clock < 3
    BY <1>2, <1>6, ExitSoon DEF Tick
  <2>2. /\ clock' = clock + 1
        /\ UNCHANGED <<main, count, export, sigTerm, servers, hooks, signalled, run, due, settling>>
    BY <1>6 DEF Tick, command, runs
  <2>3. clock' \in 0 .. 3
    BY <1>2, <2>1, <2>2
  <2>4. QED
    BY <1>1, <2>2, <2>3 DEF CommandTypeOK, ServersLater, RunInv, ShuttingDown
<1>7. CASE Exit
  <2>1. /\ main' = "exited" /\ ShuttingDown
        /\ UNCHANGED <<count, export, sigTerm, servers, hooks, signalled, clock, run, due, settling>>
    BY <1>7 DEF Exit, runs, ShuttingDown
  <2>2. QED
    BY <1>1, <2>1 DEF CommandTypeOK, ServersLater, RunInv, ShuttingDown
<1>8. CASE Signal
  <2>1. signalled' = TRUE /\ UNCHANGED <<count, export, servers, hooks, clock, due, settling>>
    BY <1>8 DEF Signal
  <2>2. /\ main' \in {main, "killed"} /\ sigTerm' \in {sigTerm, TRUE} /\ ~ ShuttingDown
        /\ \/ run' = run
           \/ run' = [i \in Slots |-> IF run[i] = "load" THEN "warned" ELSE run[i]]
    BY <1>8 DEF Signal, SignalHeld, ShuttingDown
  <2>3. run' \in [Slots -> Stages]
    BY <1>2, <2>2 DEF Stages
  <2>4. CommandTypeOK' /\ ServersLater'
    BY <1>1, <2>1, <2>2, <2>3 DEF CommandTypeOK, ServersLater
  <2>5. RunInv'
    BY <2>2 DEF RunInv, ShuttingDown
  <2>6. QED
    BY <2>4, <2>5
<1>9. ASSUME NEW i \in Slots, WaitForShutdown(i)
      PROVE  CommandTypeOK' /\ ServersLater' /\ RunInv'
  <2>1. /\ hooks' = hooks \ {i} /\ servers' = [servers EXCEPT ![i] = FALSE]
        /\ UNCHANGED <<main, count, export, sigTerm, signalled, clock, run, due, settling>>
    BY <1>9 DEF WaitForShutdown, command, runs
  <2>2. i \in DOMAIN servers
    BY <1>1, <1>9 DEF WaitForShutdown, CommandTypeOK
  <2>3. servers' \in Seq(BOOLEAN) /\ Len(servers') = Len(servers)
        /\ DOMAIN servers' = DOMAIN servers
    <3>1. servers \in [1 .. Len(servers) -> BOOLEAN]
      BY <1>2
    <3>2. servers' \in [1 .. Len(servers) -> BOOLEAN]
      BY <2>1, <3>1
    <3>3. QED
      BY <1>2, <3>1, <3>2
  <2>4. main # "settings"
    BY <1>1, <2>2 DEF ServersLater
  <2>5. QED
    BY <1>1, <2>1, <2>3, <2>4 DEF CommandTypeOK, ServersLater, RunInv, ShuttingDown
\* A wait that begins now, when the process will exit three seconds from now at most.
<1>10. ASSUME NEW i \in Slots, TimeOver(i) \/ TakeSignal(i) \/ LoadEnds(i)
       PROVE  CommandTypeOK' /\ ServersLater' /\ RunInv'
  <2>1. PICK t \in {5, 8}, s \in {"await", "settle"} :
          /\ Wait(i, t) /\ run' = [run EXCEPT ![i] = s]
          /\ UNCHANGED <<main, count, export, sigTerm, servers, hooks, signalled, clock, settling>>
    BY <1>10 DEF TimeOver, TakeSignal, LoadEnds, command, Tolerance, LoadLimit, SettleTime
  <2>2. due' = [due EXCEPT ![i] = IF main = "wait" THEN clock + t ELSE due[i]]
    BY <1>2, <2>1 DEF Wait
  <2>3. run' \in [Slots -> Stages] /\ due' \in [Slots -> 0 .. 3 + Tolerance]
    BY <1>2, <2>1, <2>2 DEF Stages, Tolerance
  <2>4. CommandTypeOK' /\ ServersLater'
    BY <1>1, <2>1, <2>3 DEF CommandTypeOK, ServersLater
  <2>5. RunInv'
    <3> SUFFICES ASSUME ShuttingDown, NEW k \in Slots, k \notin settling
                 PROVE  run'[k] # "reported" /\ (run'[k] = "settle" => due'[k] >= SettleTime)
      BY <2>1 DEF RunInv, ShuttingDown
    <3>1. main = "wait"
      BY DEF ShuttingDown, Running
    <3>2. CASE k = i
      BY <1>2, <2>1, <2>2, <3>1, <3>2 DEF SettleTime
    <3>3. CASE k # i
      BY <1>1, <1>2, <2>1, <2>2, <3>3 DEF RunInv
    <3>4. QED
      BY <3>2, <3>3
  <2>6. QED
    BY <2>4, <2>5
\* Once the command has taken a signal, only the final reports are due of the runs that
\* were in their last wait.
<1>11. ASSUME NEW i \in Slots, FinalReport(i)
       PROVE  CommandTypeOK' /\ ServersLater' /\ RunInv'
  <2>1. /\ run[i] = "settle" /\ run' = [run EXCEPT ![i] = "reported"]
        /\ main = "wait" => clock = due[i]
        /\ UNCHANGED <<main, count, export, sigTerm, servers, hooks, signalled, clock, due, settling>>
    BY <1>11 DEF FinalReport, command
  <2>2. run' \in [Slots -> Stages]
    BY <1>2, <2>1 DEF Stages
  <2>3. CommandTypeOK' /\ ServersLater'
    BY <1>1, <2>1, <2>2 DEF CommandTypeOK, ServersLater
  <2>4. ShuttingDown => i \in settling
    <3>1. ShuttingDown => main = "wait"
      BY DEF ShuttingDown, Running
    <3>2. QED
      BY <1>1, <1>2, <2>1, <3>1 DEF RunInv, SettleTime
  <2>5. RunInv'
    BY <1>1, <1>2, <2>1, <2>4 DEF RunInv, ShuttingDown
  <2>6. QED
    BY <2>3, <2>5
<1>12. ASSUME NEW i \in Slots, StartRun(i) \/ RunReturns(i)
       PROVE  CommandTypeOK' /\ ServersLater' /\ RunInv'
  <2>1. UNCHANGED <<main, count, export, sigTerm, servers, hooks, signalled, clock, due>>
    BY <1>12 DEF StartRun, RunReturns, command
  <2>2. PICK s \in {"load", "idle"} : run' = [run EXCEPT ![i] = s]
    BY <1>12 DEF StartRun, RunReturns
  <2>3. settling' = settling \/ settling' = settling \ {i}
    BY <1>12 DEF StartRun, RunReturns
  <2>4. run' \in [Slots -> Stages]
    BY <1>2, <2>2 DEF Stages
  <2>5. CommandTypeOK' /\ ServersLater'
    BY <1>1, <2>1, <2>3, <2>4 DEF CommandTypeOK, ServersLater
  <2>6. RunInv'
    <3> SUFFICES ASSUME ShuttingDown, NEW k \in Slots, k \notin settling'
                 PROVE  run'[k] # "reported" /\ (run'[k] = "settle" => due'[k] >= SettleTime)
      BY <2>1 DEF RunInv, ShuttingDown
    <3>1. CASE k = i
      BY <1>2, <2>2, <3>1
    <3>2. CASE k # i
      BY <1>1, <1>2, <2>1, <2>2, <2>3, <3>2 DEF RunInv
    <3>3. QED
      BY <3>1, <3>2
  <2>7. QED
    BY <2>5, <2>6
<1>13. QED
  BY <1>3, <1>4, <1>5, <1>6, <1>7, <1>8, <1>9, <1>10, <1>11, <1>12 DEF ProcessStep

\* Every step preserves the invariant.
LEMMA CommandInvNext ==
  ASSUME CommandInv, [Next]_vars
  PROVE  CommandInv'
<1>1. CASE ReadConfiguration
  <2>1. SettingsInv'
    BY <1>1, StartStep DEF ReadConfiguration, CommandInv
  <2>2. QED
    BY <1>1, <2>1
       DEF ReadConfiguration, CommandInv, CommandTypeOK, ServersLater, RunInv, command, runs,
           ShuttingDown
<1>2. CASE Running /\ ProcessStep
  BY <1>2, KeepsSettings, ProcessSettings, ProcessInv DEF CommandInv
<1>3. CASE UNCHANGED vars
  <2>1. SettingsInv'
    BY <1>3, KeepsSettings DEF CommandInv, vars
  <2>2. QED
    BY <1>3, <2>1 DEF CommandInv, CommandTypeOK, ServersLater, RunInv, vars, command, runs,
                      ShuttingDown
<1>4. QED
  BY <1>1, <1>2, <1>3, Steps

\* The inductive invariant holds for all inputs and any number of workers.
THEOREM CommandInvariant == Spec => []CommandInv
<1>1. QED
  BY CommandInitially, CommandInvNext, PTL DEF Spec

-----------------------------------------------------------------------------
\* Every variable of the process and of its settings keeps its type.
THEOREM TypeCorrect == Spec => []TypeOK
<1>1. CommandInv => TypeOK
  BY DEF CommandInv, SettingsInv, CommandTypeOK, TypeOK, Stages
<1>2. QED
  BY <1>1, CommandInvariant, PTL

\* A run that produces load, or waits for its generators, when the command takes the
\* signal, or that starts later, never gets to its final report, for any number of
\* workers: by then the process has exited.
THEOREM NoFinalReport == Spec => []NoReportAfterSignal
<1>1. CommandInv => NoReportAfterSignal
  BY DEF CommandInv, RunInv, NoReportAfterSignal
<1>2. QED
  BY <1>1, CommandInvariant, PTL

\* Of all flags of the command line exactly those have no effect that FlagsPrevail
\* excepts, whatever the environment and the files say.
THEOREM FlagsHaveTheirEffect == Spec => []FlagsPrevail
<1>1. ASSUME CommandInv PROVE FlagsPrevail
  <2> SUFFICES ASSUME step = 8,
                      NEW k \in given.flags \ {"exportMetrics"},
                      given.command = "worker" => ~ InFile(k) /\ ~ InEnv(k)
               PROVE  setting[k] = "flag"
    BY <1>1 DEF FlagsPrevail, Started, CommandInv, SettingsInv, FlagSettings
  <2>1. /\ given.command \in {"bench", "worker", "workers"}
        /\ given.flags \subseteq Binds[given.command]
    BY <1>1, InputTypes DEF CommandInv, SettingsInv, SettingsTypeOK
  <2>2. CASE given.command = "bench"
    <3>1. k = "runtime"
      BY <2>1, <2>2 DEF Binds
    <3>2. QED
      BY <1>1, <2>2, <3>1 DEF CommandInv, SettingsInv, FlagSettings
  <2>3. CASE given.command = "worker"
    <3>1. k = "benchmarkPort"
      BY <2>1, <2>3 DEF Binds
    <3>2. QED
      BY <1>1, <2>3, <3>1 DEF CommandInv, SettingsInv, FlagSettings
  <2>4. CASE given.command = "workers"
    <3>1. k \in {"benchmarkPort", "workerCount"}
      BY <2>1, <2>4 DEF Binds
    <3>2. QED
      BY <1>1, <2>4, <3>1 DEF CommandInv, SettingsInv, FlagSettings
  <2>5. QED
    BY <2>1, <2>2, <2>3, <2>4
<1>2. QED
  BY <1>1, CommandInvariant, PTL

\* A command takes no setting from the other file when it has one of its own.
THEOREM OwnFileIsRead == Spec => []OwnFileFirst
<1>1. ASSUME CommandInv PROVE OwnFileFirst
  <2> SUFFICES ASSUME step = 8, NEW v \in Binds[given.command]
               PROVE  /\ given.command = "bench" => setting[v] # "workerFile"
                      /\ given.command # "bench" /\ given.workerFile.found =>
                           setting[v] # "benchFile"
    BY DEF OwnFileFirst, Started
  <2>1. given.command \in {"bench", "worker", "workers"}
    BY <1>1, InputTypes DEF CommandInv, SettingsInv, SettingsTypeOK
  <2>2. CASE given.command = "bench"
    <3>1. v = "runtime"
      BY <2>2 DEF Binds
    <3>2. QED
      BY <1>1, <2>2, <3>1 DEF CommandInv, SettingsInv, FileSettings
  <2>3. CASE given.command # "bench"
    <3>1. v \in {"benchmarkPort", "exportMetrics", "workerCount"}
      BY <2>1, <2>3 DEF Binds
    <3>2. QED
      BY <1>1, <2>3, <3>1 DEF CommandInv, SettingsInv, FileSettings
  <2>4. QED
    BY <2>2, <2>3
<1>2. QED
  BY <1>1, CommandInvariant, PTL
=============================================================================
