----------------------------- MODULE TFCluster -----------------------------
(***************************************************************************)
(* The tasks of a TensorFlow job (galileo/framework/tf/python): every task *)
(* of the TF_CONFIG cluster runs the same script, which builds a trainer   *)
(* (TFTrainer.__init__: config_device, parse_tf_config,                    *)
(* config_dist_strategy, create_graph_client) and then calls train,        *)
(* evaluate and predict with the same arguments, as the examples under     *)
(* examples/tf do.  Each call is init_model followed by do_train,          *)
(* do_evaluate or do_predict of EstimatorTrainer or KerasTrainer.          *)
(*                                                                         *)
(* The tasks share no memory: they meet in the data they read and in the   *)
(* files they write.  The inputs are file backed (TextLineDataset), which  *)
(* reads shard (num_workers, task_id) of the files when num_workers > 1.   *)
(* An error of a call ends the task ("failed").                            *)
(***************************************************************************)
EXTENDS Integers, FiniteSets

CONSTANTS
    Clusters,       \* TF_CONFIG cluster specs [chief, worker, ps, evaluator |-> n];
                    \* NoValue: TF_CONFIG not set
    Kinds,          \* "estimator" (EstimatorTrainer) or "keras" (KerasTrainer)
    Strategies,     \* distribution_strategy argument values (NoValue: None)
    BatchSize,      \* batch_size argument
    MaxIds,         \* max_id argument values
    BatchNumArgs,   \* batch_num argument values (NoValue: not passed)
    LogStepsArgs,   \* log_steps argument values
    SaveEpochsArgs, \* save_checkpoint_epochs argument values (NoValue: not passed)
    NumFiles,       \* the number of *.csv files list_files finds in input_file
    NoValue

TaskTypes  == {"chief", "worker", "ps", "evaluator"}
Specs      == Clusters \ {NoValue}
MaxOf(S)   == CHOOSE n \in S : \A m \in S : n >= m
MaxCount   == MaxOf({1} \cup {c[ty] : c \in Specs, ty \in TaskTypes})
MaxWorkers == MaxOf({1} \cup {c.chief + c.worker : c \in Specs})
\* A task is <<task type, index>> of the cluster spec.
AllTasks   == TaskTypes \X (0..MaxCount - 1)
\* The input files, in the order list_files gives them (shuffle=False).
InputFiles == 0..NumFiles - 1
\* predict_results/ids_k.npy and embedding_k.npy, for the task ids k.
FileIds    == 0..MaxOf({MaxWorkers, MaxCount}) - 1
Stages     == {"absent", "new", "train", "evaluate", "predict", "done", "serving",
               "failed"}
SupportedStrategies ==
    {NoValue, "one_device", "mirrored", "multi_worker_mirrored", "parameter_server"}

VARIABLES
    cluster,    \* the job's TF_CONFIG cluster spec
    kind,       \* the trainer class of the script
    strategy,   \* distribution_strategy of the script
    args,       \* the arguments of train, evaluate and predict
    stage,      \* stage[t]: the call task t makes next, or how it ended
    config,     \* config[t]: TFTrainer.config of task t (NoValue before __init__)
    cleared,    \* cleared[t]: EstimatorTrainer.init_model set TF_CONFIG to '{}'
    role,       \* role[t]: what train() made task t do (NoValue before)
    trained,    \* trained[t]: the input files task t trained on (NoValue if none)
    files,      \* files[k]: the input files whose predictions ids_k.npy holds
    predicted   \* the sets of input files whose predictions some task saved

vars == <<cluster, kind, strategy, args, stage, config, cleared, role,
          trained, files, predicted>>
jobVars == <<cluster, kind, strategy, args>>

Tasks == IF cluster = NoValue THEN {<<"worker", 0>>}
         ELSE {t \in AllTasks : t[2] < cluster[t[1]]}

Positive(n) == n # NoValue /\ n > 0
MinOf(a, b) == IF a < b THEN a ELSE b

-----------------------------------------------------------------------------

Init ==
    /\ cluster \in Clusters /\ kind \in Kinds /\ strategy \in Strategies
    /\ args \in [max_id : MaxIds, batch_num : BatchNumArgs,
                 log_steps : LogStepsArgs, save_epochs : SaveEpochsArgs]
    /\ stage = [t \in AllTasks |-> IF t \in Tasks THEN "new" ELSE "absent"]
    /\ config = [t \in AllTasks |-> NoValue]
    /\ cleared = [t \in AllTasks |-> FALSE]
    /\ role = [t \in AllTasks |-> NoValue]
    /\ trained = [t \in AllTasks |-> NoValue]
    /\ files = [k \in FileIds |-> NoValue]
    /\ predicted = {}

-----------------------------------------------------------------------------

\* Bug variant: a worker keeps the resolver's task_id when there is a chief.
ParseTFConfigNoShift(t) ==
    IF cluster = NoValue
    THEN [task_type |-> "worker", task_id |-> 0, num_workers |-> 1, num_ps |-> 0]
    ELSE [task_type |-> t[1], task_id |-> t[2],
          num_workers |-> cluster.chief + cluster.worker, num_ps |-> cluster.ps]

\* Bug variant: num_workers counts the workers and not the chief.
ParseTFConfigWorkersOnly(t) ==
    IF cluster = NoValue
    THEN [task_type |-> "worker", task_id |-> 0, num_workers |-> 1, num_ps |-> 0]
    ELSE [task_type |-> t[1],
          task_id |-> IF cluster.chief > 0 /\ t[1] = "worker" THEN t[2] + 1 ELSE t[2],
          num_workers |-> cluster.worker, num_ps |-> cluster.ps]

\* parse_tf_config: the resolver's task type and id, the id of a worker one
\* up when there is a chief, num_workers counting chief and workers; one
\* worker of one when TF_CONFIG is not set.  (is_chief is left out: nothing
\* reads it.)
ParseTFConfig(t) ==
    IF cluster = NoValue
    THEN [task_type |-> "worker", task_id |-> 0, num_workers |-> 1, num_ps |-> 0]
    ELSE [task_type |-> t[1],
          task_id |-> IF cluster.chief > 0 /\ t[1] = "worker" THEN t[2] + 1 ELSE t[2],
          num_workers |-> cluster.chief + cluster.worker, num_ps |-> cluster.ps]

\* config_dist_strategy builds the strategy, raising ValueError for
\* central_storage and unknown names.  (Its multi-worker assertion compares
\* num_workers with the strategy's own count of chief and workers and
\* cannot fail; should_dist_dataset only changes the batch size.)
DistStrategyOK == strategy \in SupportedStrategies

\* TFTrainer.__init__: config_device, parse_tf_config, which asserts a
\* single chief, config_dist_strategy and create_graph_client (the device
\* count and the graph client change no state this model follows).
Construct(t) ==
    /\ stage[t] = "new"
    /\ IF (cluster = NoValue \/ cluster.chief <= 1) /\ DistStrategyOK
       THEN /\ config' = [config EXCEPT ![t] = ParseTFConfig(t)]
            /\ stage' = [stage EXCEPT ![t] = "train"]
       ELSE /\ stage' = [stage EXCEPT ![t] = "failed"]
            /\ UNCHANGED config
    /\ UNCHANGED <<jobVars, cleared, role, trained, files, predicted>>

\* config_batch_num: chief and workers without a non-negative batch_num
\* get (max_id - 1 + batch_size - 1) // batch_size, after asserting
\* max_id > 0; other tasks keep the argument.
NeedsBatchNum(c) ==
    c.task_type \in {"worker", "chief"}
    /\ (args.batch_num = NoValue \/ args.batch_num < 0)
ConfigBatchNum(c) ==
    IF NeedsBatchNum(c) THEN (args.max_id - 1 + BatchSize - 1) \div BatchSize
    ELSE args.batch_num

\* EstimatorTrainer.init_model after config_batch_num: with batch_num > 0,
\* log_steps = min(log_steps, batch_num) divides batch_num (ZeroDivisionError
\* when 0), and save_checkpoints_steps is bound only when
\* save_checkpoint_epochs > 0 (else UnboundLocalError at RunConfig).
EstimatorInitFails(c) ==
    LET bn == ConfigBatchNum(c)
    IN  Positive(bn) /\ (MinOf(args.log_steps, bn) = 0 \/ ~Positive(args.save_epochs))

\* KerasTrainer.init_model raises ValueError for parameter_server before
\* TFTrainer.init_model (the model, its checkpoint and the batch size
\* scaled by the replicas change no state this model follows).
KerasInitFails == strategy = "parameter_server"

\* init_model of the trainer raises: TFTrainer.init_model's
\* config_batch_num assertion, or the trainer's own errors.
InitModelFails(c) ==
    \/ NeedsBatchNum(c) /\ args.max_id <= 0
    \/ kind = "estimator" /\ EstimatorInitFails(c)
    \/ kind = "keras" /\ KerasInitFails

\* EstimatorTrainer.init_model removes TF_CONFIG for one worker without ps.
ClearsTFConfig(c) == kind = "estimator" /\ c.num_workers = 1 /\ c.num_ps = 0

\* TextLineDataset with num_workers and task_id from get_dataset: when
\* num_workers > 1, files.shard(num_workers, task_id) keeps every
\* num_workers-th file from task_id (none when there are fewer files than
\* workers, which the code only warns of); else all the files.
Shard(c) ==
    IF c.num_workers > 1 THEN {j \in InputFiles : j % c.num_workers = c.task_id}
    ELSE InputFiles

\* What train_and_evaluate makes a task do: RunConfig reads TF_CONFIG, and
\* without a cluster trains locally; model.fit trains on every task.
TrainRole(t, isCleared) ==
    IF kind = "keras" \/ isCleared \/ cluster = NoValue THEN "train"
    ELSE CASE t[1] \in {"chief", "worker"} -> "train"
           [] t[1] = "ps"                  -> "serve"
           [] t[1] = "evaluator"           -> "evaluate"

\* train(): init_model, then do_train.  EstimatorTrainer.do_train asserts
\* batch_num > 0 on every task but ps and runs train_and_evaluate, in which
\* a parameter server serves for ever; KerasTrainer.do_train runs model.fit.
Train(t) ==
    /\ stage[t] = "train"
    /\ LET c == config[t]
       IN  IF \/ InitModelFails(c)
              \/ kind = "estimator" /\ c.task_type # "ps" /\ ~Positive(ConfigBatchNum(c))
           THEN /\ stage' = [stage EXCEPT ![t] = "failed"]
                /\ UNCHANGED <<cleared, role, trained>>
           ELSE LET clr == cleared[t] \/ ClearsTFConfig(c)
                    r   == TrainRole(t, clr)
                IN  /\ cleared' = [cleared EXCEPT ![t] = clr]
                    /\ role' = [role EXCEPT ![t] = r]
                    /\ trained' = [trained EXCEPT ![t] =
                                      IF r = "train" THEN Shard(c) ELSE NoValue]
                    /\ stage' = [stage EXCEPT ![t] =
                                      IF r = "serve" THEN "serving" ELSE "evaluate"]
    /\ UNCHANGED <<jobVars, config, files, predicted>>

\* evaluate(): init_model, which succeeds as it did for train, and
\* do_evaluate (a parameter server never gets here).
Evaluate(t) ==
    /\ stage[t] = "evaluate"
    /\ stage' = [stage EXCEPT ![t] = "predict"]
    /\ UNCHANGED <<jobVars, config, cleared, role, trained, files, predicted>>

\* The file suffix do_predict passes to save_embedding: EstimatorTrainer
\* takes config['task_id'], KerasTrainer run_config.get('task_id', 0), and
\* run_config holds the arguments, which carry no task_id.
PredictFileId(c) == IF kind = "estimator" THEN c.task_id ELSE 0

\* predict(): init_model and do_predict, which saves the ids and
\* embeddings predicted on the task's shard under its file suffix.
Predict(t) ==
    /\ stage[t] = "predict"
    /\ LET c == config[t]
       IN  /\ files' = [files EXCEPT ![PredictFileId(c)] = Shard(c)]
           /\ predicted' = predicted \cup {Shard(c)}
    /\ stage' = [stage EXCEPT ![t] = "done"]
    /\ UNCHANGED <<jobVars, config, cleared, role, trained>>

Next ==
    \E t \in AllTasks :
        \/ Construct(t) \/ Train(t) \/ Evaluate(t) \/ Predict(t)

\* Every task runs its script to the end (or blocks serving).
Fairness == \A t \in AllTasks : WF_vars(Construct(t) \/ Train(t) \/ Evaluate(t) \/ Predict(t))

Spec == Init /\ [][Next]_vars /\ Fairness

-----------------------------------------------------------------------------

TypeOK ==
    /\ stage \in [AllTasks -> Stages]
    /\ config \in [AllTasks -> {NoValue} \cup
                     [task_type : TaskTypes, task_id : FileIds,
                      num_workers : 1..MaxWorkers, num_ps : 0..MaxCount]]
    /\ cleared \in [AllTasks -> BOOLEAN]
    /\ role \in [AllTasks -> {NoValue, "train", "serve", "evaluate"}]
    /\ trained \in [AllTasks -> SUBSET InputFiles \cup {NoValue}]
    /\ files \in [FileIds -> SUBSET InputFiles \cup {NoValue}]
    /\ predicted \subseteq SUBSET InputFiles

\* The chief and workers that train split the input files between them:
\* no file is read by two of them, and once all of them train every file
\* is read.  parse_tf_config's worker ids, moved up past the chief, its
\* num_workers, counting the chief, and TextLineDataset's shard of the
\* files must fit together.
TrainFilesPartition ==
    LET trainTasks == {t \in Tasks : t[1] \in {"chief", "worker"}}
        trainers   == {t \in trainTasks : role[t] = "train"}
    IN  /\ \A t1, t2 \in trainers : t1 # t2 => trained[t1] \cap trained[t2] = {}
        /\ trainers = trainTasks => UNION {trained[t] : t \in trainers} = InputFiles

\* No saved predictions are lost: every shard some task predicted is still
\* in some predict_results file after the tasks of the cluster wrote theirs
\* (save_embedding writes ids_<task_id>.npy).
PredictionsKept ==
    \A s \in predicted : \E k \in FileIds : files[k] = s

\* The arguments the code rejects on purpose: parse_tf_config's single-chief
\* assertion, config_dist_strategy's ValueError, KerasTrainer's ValueError
\* for parameter_server and config_batch_num's assertion max_id > 0.
Misconfigured ==
    \/ cluster # NoValue /\ cluster.chief > 1
    \/ ~DistStrategyOK
    \/ kind = "keras" /\ strategy = "parameter_server"
    \/ args.max_id <= 0

\* Every task of a job the code accepts does its part of train, evaluate
\* and predict: no task fails but on the errors above (train documents
\* batch_num, log_steps and save_checkpoint_epochs as optional), an
\* evaluator of train_and_evaluate evaluates rather than trains, and the
\* predictions of every task survive in predict_results.
TasksDoTheirPart ==
    /\ \A t \in Tasks : stage[t] = "failed" => Misconfigured
    /\ \A t \in Tasks : kind = "estimator" /\ t[1] = "evaluator" => role[t] # "train"
    /\ PredictionsKept

====
