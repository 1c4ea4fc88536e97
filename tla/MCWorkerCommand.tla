-------------------------- MODULE MCWorkerCommand --------------------------
(* Every command with every choice of its flags, of one or two environment   *)
(* variables and of files with one key or none.                              *)
EXTENDS WorkerCommand

MCFiles == {NoFile} \cup {[found |-> TRUE, keys |-> ks] :
                            ks \in {{"runtime", "benchmarkPort"}, {"exportPrometheus"}}}

MCEnvironments ==
  {{}, {<<"WORKER_", "benchmarkPort">>}, {<<"WORKERS_", "benchmarkPort">>, <<"", "runtime">>}}

\* Environment variables and files, but not both at once.
MCInputs ==
  {i \in UNION {[command : {c}, flags : SUBSET Binds[c], env : MCEnvironments,
                 benchFile : MCFiles, workerFile : MCFiles] : c \in {"bench", "worker", "workers"}} :
     i.env = {} \/ {i.benchFile, i.workerFile} = {NoFile}}

=============================================================================
