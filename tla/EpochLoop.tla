---------------------------- MODULE EpochLoop ----------------------------
(***************************************************************************)
(* One rank's training epochs, batch by batch: the batch accounting of     *)
(* BaseDataset (dataset/base_dataset.py) and BatchedDataLoader             *)
(* (dataset/batched_dataloader.py), and the loop of Trainer.do_train       *)
(* (trainer.py) dispatching through HookList (hooks/hooklist.py) to the    *)
(* BaseLogHook/MetricTimeHook logging cadence (hooks/base_log_hook.py,     *)
(* hooks/metric_time_hooks.py) and to CheckpointHook.on_epoch_end, which   *)
(* pops the loss of the last batch.                                        *)
(*                                                                         *)
(* The dataset is an IterableDataset: with num_workers = 0 the main        *)
(* process iterates it, otherwise every worker iterates its own copy and   *)
(* torch's DataLoader hands out their batches in round-robin order.  The   *)
(* configuration (batch_size, max_id, batch_num, world_size, num_workers,  *)
(* log_steps, log_max_times_per_epoch) is chosen once, when do_train      *)
(* starts.                                                                 *)
(***************************************************************************)
EXTENDS Integers, FiniteSets

CONSTANTS
    BatchSizes,       \* batch_size values
    MaxIds,           \* max_id values
    BatchNumArgs,     \* batch_num arguments (NoValue: not given)
    WorldSizes,       \* world_size values
    NumWorkersValues, \* dataset_num_parallel, the loader's num_workers
    LogStepsValues,   \* log_steps run option
    LogMaxValues,     \* log_max_times_per_epoch run option
    NumEpochs,        \* num_epochs
    NoValue

ASSUME /\ \A b \in BatchSizes : b \in Nat \ {0}
       /\ \A m \in MaxIds : m \in Nat \ {0}
       /\ \A b \in BatchNumArgs : b = NoValue \/ b \in Int
       /\ \A w \in WorldSizes : w \in Int \ {0}
       /\ \A n \in NumWorkersValues : n \in Nat
       /\ \A l \in LogStepsValues : l \in Int
       /\ \A l \in LogMaxValues : l \in Nat \ {0}
       /\ NumEpochs \in Nat \ {0}

VARIABLES
    requested,    \* the batch_num the dataset stands for, over all ranks
    world_size,   \* the world size the dataset splits batch_num over
    batch_num,    \* dataset.batch_num after __init__ (per rank)
    num_workers,  \* the loader's num_workers
    log_steps,    \* MetricTimeHook.log_steps (narrowed in on_epoch_begin)
    log_max,      \* MetricTimeHook.log_max_times_per_epoch
    pc,           \* where do_train is
    epoch,        \* the epoch loop variable (start_epoch = 0)
    remaining,    \* remaining[w]: batches worker w has still to yield
    turn,         \* the worker the loader takes the next batch from
    step,         \* HookList.step
    total_steps,  \* BaseLogHook.total_steps
    logs,         \* batch logs MetricTimeHook printed this epoch
    outputs       \* keys of do_train's outputs dict

vars == <<requested, world_size, batch_num, num_workers, log_steps, log_max,
          pc, epoch, remaining, turn, step, total_steps, logs, outputs>>

\* -(-a // b): python's ceiling division.
CeilDiv(a, b) == -((-a) \div b)

\* The worker processes of the loader; the main process is worker 0 when
\* num_workers = 0.
Workers(nw) == 0..(IF nw = 0 THEN 0 ELSE nw - 1)

\* Bug variant: batch_num split over the world size with floor division.
DatasetBatchNumFloor(bs, maxid, ws, bn) ==
    LET total == IF bn = NoValue THEN CeilDiv(maxid, bs)
                 ELSE IF bn < 0 THEN CeilDiv(maxid, bs) ELSE bn
        w     == IF ws < 0 THEN 1 ELSE ws
    IN  total \div w

\* BaseDataset.__init__: batch_num defaults to ceil(max_id / batch_size)
\* when not given or negative, and is split over the world size.
DatasetBatchNum(bs, maxid, ws, bn) ==
    LET total == IF bn = NoValue THEN CeilDiv(maxid, bs)
                 ELSE IF bn < 0 THEN CeilDiv(maxid, bs) ELSE bn
        w     == IF ws < 0 THEN 1 ELSE ws
    IN  CeilDiv(total, w)

\* The batch_num the dataset was asked for (over all ranks).
RequestedBatches(bs, maxid, bn) ==
    IF bn = NoValue THEN CeilDiv(maxid, bs)
    ELSE IF bn < 0 THEN CeilDiv(maxid, bs) ELSE bn

WorkerBatches(bn, nw) == IF nw = 0 THEN bn ELSE CeilDiv(bn, nw)

\* Bug variant: len() of the dataset, ignoring the workers.
LoaderLenOfDataset(bn, nw) == bn

\* BatchedDataLoader.__len__.
LoaderLen(bn, nw) == IF nw = 0 THEN bn ELSE CeilDiv(bn, nw) * nw

\* Bug variant: log_steps taken as given.
InitLogStepsUnguarded(ls) == ls

\* BaseLogHook.__init__: a missing or non-positive log_steps becomes 1.
InitLogSteps(ls) == IF ls <= 0 THEN 1 ELSE ls

\* BaseLogHook.on_epoch_begin: the log interval narrowed to the epoch and
\* widened so that an epoch logs about log_max_times_per_epoch times.
EpochLogSteps(ls, total, lmax) ==
    LET l == IF ls < total THEN ls ELSE total
    IN  IF total \div l > lmax THEN total \div lmax ELSE l

\* BaseLogHook._should_log at step s.
ShouldLog(s) == s % log_steps = 0 \/ s >= total_steps

-----------------------------------------------------------------------------

\* Before do_train nothing of the loop exists yet.
Init ==
    /\ pc = "start"
    /\ requested = NoValue /\ world_size = NoValue /\ batch_num = NoValue
    /\ num_workers = NoValue /\ log_steps = NoValue /\ log_max = NoValue
    /\ epoch = NoValue /\ remaining = NoValue /\ turn = NoValue
    /\ step = NoValue /\ total_steps = NoValue /\ logs = NoValue
    /\ outputs = NoValue

\* Trainer.do_train up to the epoch loop: get_dataset builds the dataset
\* and its loader for the world size ws, get_hooks the HookList with
\* MetricTimeHook.
Start(ws) ==
    /\ pc = "start"
    /\ \E bs \in BatchSizes, maxid \in MaxIds, bn \in BatchNumArgs,
         nw \in NumWorkersValues, ls \in LogStepsValues, lmax \in LogMaxValues :
          /\ requested' = RequestedBatches(bs, maxid, bn)
          /\ world_size' = (IF ws < 0 THEN 1 ELSE ws)
          /\ batch_num' = DatasetBatchNum(bs, maxid, ws, bn)
          /\ num_workers' = nw
          /\ log_steps' = InitLogSteps(ls)
          /\ log_max' = lmax
          /\ pc' = "epoch_begin"
          /\ epoch' = 0
          /\ remaining' = [w \in Workers(nw) |-> 0]
          /\ turn' = 0 /\ step' = 0 /\ total_steps' = 0 /\ logs' = 0
          /\ outputs' = {}

\* hooks.on_epoch_begin(epoch, len(dataloader)): HookList resets its step,
\* BaseLogHook sets total_steps (steps or 1) and narrows log_steps; then
\* outputs = {} and iter(dataloader) starts every worker's __iter__.
EpochBegin ==
    /\ pc = "epoch_begin"
    /\ LET steps == LoaderLen(batch_num, num_workers)
           total == IF steps = 0 THEN 1 ELSE steps
       IN  /\ total_steps' = total
           /\ log_steps' = EpochLogSteps(log_steps, total, log_max)
    /\ remaining' = [w \in Workers(num_workers) |->
                        WorkerBatches(batch_num, num_workers)]
    /\ turn' = 0 /\ step' = 0 /\ logs' = 0
    /\ outputs' = {}
    /\ pc' = "batches"
    /\ UNCHANGED <<requested, world_size, batch_num, num_workers, log_max,
                   epoch>>

\* One iteration of the batch loop: the loader takes the next batch
\* (round robin over the workers), on_batch_begin advances HookList.step,
\* train_step returns the model's outputs (with 'loss'), and
\* MetricTimeHook.on_batch_end logs when _should_log holds.
Batch ==
    /\ pc = "batches"
    /\ remaining[turn] > 0
    /\ remaining' = [remaining EXCEPT ![turn] = @ - 1]
    /\ turn' = (turn + 1) % Cardinality(DOMAIN remaining)
    /\ step' = step + 1
    /\ outputs' = {"loss"}
    /\ logs' = IF ShouldLog(step + 1) THEN logs + 1 ELSE logs
    /\ UNCHANGED <<requested, world_size, batch_num, num_workers, log_steps,
                   log_max, pc, epoch, total_steps>>

\* Every worker has signalled the end of its iterator: the loop ends.
LoaderExhausted ==
    /\ pc = "batches"
    /\ \A w \in DOMAIN remaining : remaining[w] = 0
    /\ pc' = "epoch_end"
    /\ UNCHANGED <<requested, world_size, batch_num, num_workers, log_steps,
                   log_max, epoch, remaining, turn, step, total_steps, logs,
                   outputs>>

\* hooks.on_epoch_end(outputs): CheckpointHook pops 'loss' (the rest of
\* its epoch end is the Trainer module), and the next epoch or
\* on_train_end follows.
EpochEnd ==
    /\ pc = "epoch_end"
    /\ "loss" \in outputs
    /\ outputs' = outputs \ {"loss"}
    /\ epoch' = epoch + 1
    /\ pc' = IF epoch + 1 < NumEpochs THEN "epoch_begin" ELSE "done"
    /\ UNCHANGED <<requested, world_size, batch_num, num_workers, log_steps,
                   log_max, remaining, turn, step, total_steps, logs>>

\* An epoch without batches leaves outputs = {}: outputs.pop('loss')
\* raises KeyError and train() aborts.
EpochEndKeyError ==
    /\ pc = "epoch_end"
    /\ "loss" \notin outputs
    /\ pc' = "failed"
    /\ UNCHANGED <<requested, world_size, batch_num, num_workers, log_steps,
                   log_max, epoch, remaining, turn, step, total_steps, logs,
                   outputs>>

Next ==
    \/ \E ws \in WorldSizes : Start(ws)
    \/ EpochBegin
    \/ Batch
    \/ LoaderExhausted
    \/ EpochEnd
    \/ EpochEndKeyError

Spec == Init /\ [][Next]_vars

-----------------------------------------------------------------------------

TypeOK ==
    \/ pc = "start"
    \/ /\ pc \in {"epoch_begin", "batches", "epoch_end", "done", "failed"}
       /\ epoch \in 0..NumEpochs
       /\ remaining \in [Workers(num_workers) -> Nat]
       /\ turn \in DOMAIN remaining
       /\ step \in Nat /\ logs \in 0..step
       /\ log_steps \in Nat \ {0}
       /\ outputs \subseteq {"loss"}

\* The steps do_train announces to the hooks, len(dataloader) from
\* BatchedDataLoader.__len__, are the batches the workers' __iter__ really
\* yield: at the end of every epoch HookList.step has reached it, so the
\* log prefix ends at [total/total] and the last batch is logged.
EpochStepsMatchLen ==
    pc = "epoch_end" => step = LoaderLen(batch_num, num_workers)

\* An epoch over all ranks draws at least the batch_num the dataset was
\* configured with (the docstring's max_id / batch_size by default), and
\* the rounding of the rank and worker splits adds fewer than one batch
\* per worker of every rank.
EpochCoversBatchNum ==
    pc = "epoch_end" =>
        LET all == world_size * step
        IN  /\ requested <= all
            /\ all <= requested + world_size * Cardinality(DOMAIN remaining) - 1

=============================================================================
