---------------------------- MODULE TrainingJob ----------------------------
(***************************************************************************)
(* A PyTorch job end to end: Trainer.run(mode) with the start-up of        *)
(* Distributed (Trainer.__init__, run, run_worker) followed by do_train,   *)
(* the epochs of EpochLoop, whose dataset get_dataset builds with the      *)
(* world_size that Trainer.__init__ computed, or by do_predict, in which   *)
(* every process predicts its DistributedSampler share of the examples'    *)
(* RangeDataset and SavePredictHook saves it under its global rank.        *)
(*                                                                         *)
(* When distributed, every process wraps its model in                      *)
(* DistributedDataParallel, whose constructor broadcasts the parameters    *)
(* from rank 0: no process reaches do_train before every process of the    *)
(* world has got there, and none does if one of them failed before.  All   *)
(* ranks then run the same number of batches (batch_num depends only on    *)
(* the world size), in the lock step of DDP's gradient all-reduce, so one  *)
(* EpochLoop stands for the epochs of every rank.                          *)
(***************************************************************************)
EXTENDS Integers, FiniteSets

CONSTANTS
    JobSizes, ProcsArgs, MPFlags, DeviceCounts,
    BatchSizes, MaxIds, BatchNumArgs, NumWorkersValues, LogStepsValues,
    LogMaxValues, NumEpochs,
    Modes,          \* the modes run() is called with: "train", "predict"
    PredictSizes,   \* end - start of the RangeDataset predict_data builds
    NoValue

VARIABLES
    nshards, use_cuda, devices, procs_arg, mp_arg, cfg, status, global_rank,
    is_master,
    requested, world_size, batch_num, num_workers, log_steps, log_max,
    pc, epoch, remaining, turn, step, total_steps, logs, outputs,
    mode,          \* the mode of this run()
    psize,         \* the RangeDataset's length in predict mode
    files,         \* files[k]: the ids predict_results/ids_k.npy holds
    predicted      \* the processes whose SavePredictHook has saved

D  == INSTANCE Distributed
EL == INSTANCE EpochLoop WITH WorldSizes <- {}

startVars == <<nshards, use_cuda, devices, procs_arg, mp_arg, cfg, status,
               global_rank, is_master>>
loopVars  == <<requested, world_size, batch_num, num_workers, log_steps,
               log_max, pc, epoch, remaining, turn, step, total_steps, logs,
               outputs>>
predictVars == <<mode, psize, files, predicted>>
vars == <<startVars, loopVars, predictVars>>

\* The global ranks a job may have.
FileIds == 0..D!MaxOf(JobSizes) * D!MaxLocal - 1

-----------------------------------------------------------------------------

Init ==
    /\ D!Init /\ EL!Init
    /\ mode \in Modes /\ psize \in PredictSizes
    /\ files = [k \in FileIds |-> NoValue]
    /\ predicted = {}

\* The processes set up for training: all of the world when distributed
\* (DistributedDataParallel's broadcast waits for every rank), else the one.
Ready ==
    /\ \A s \in D!Shards : cfg[s] # NoValue
    /\ \E p \in D!Procs : status[p] = "training"
    /\ \A p \in D!Procs : status[p] \in {"absent", "training"}

\* run_worker's do_train: get_dataset(world_size=config['world_size'])
\* builds the loader, get_hooks the hooks, and the epoch loop begins.
StartTraining ==
    /\ mode = "train"
    /\ pc = "start"
    /\ Ready
    /\ \E p \in D!Procs :
          /\ status[p] = "training" /\ is_master[p]
          /\ EL!Start(cfg[p[1]].world_size)
    /\ UNCHANGED <<startVars, predictVars>>

\* A step of the master's epoch loop.
LoopStep == EL!Next /\ UNCHANGED <<startVars, predictVars>>

\* RangeDataset(start, end) as predict_data builds it (step 1, as in every
\* example): __len__ is end - start and item i is start + i, so ids are
\* counted from start here.
RangeIds(n) == 0..n - 1

\* dataset_pipeline for a RangeDataset: a DataLoader over a
\* DistributedSampler when multiprocessing_distributed, else over the whole
\* dataset.  The sampler pads the indices to a multiple of the world size
\* by repeating them from the front and gives rank r every world_size-th
\* index from r.  (It shuffles with the same seed on every rank; the
\* properties do not depend on the permutation, so the identity is taken.)
SamplerIds(c, r, n) ==
    IF c.mpd
    THEN LET W     == c.world_size
             total == ((n + W - 1) \div W) * W
         IN  {i % n : i \in {j \in r..total - 1 : (j - r) % W = 0}}
    ELSE RangeIds(n)

\* Bug variant: the predictions saved under the local rank.
SaveFileIdLocal(p) == IF p[2] = NoValue THEN 0 ELSE p[2]

\* SavePredictHook: save_embedding(..., self.global_rank), the rank
\* run_worker stored in trainer.config.
SaveFileId(p) == global_rank[p]

\* run_worker's do_predict: the loader's batches go through predict_step
\* and on_predict_end concatenates them and saves ids_<rank>.npy.  The
\* model is wrapped in DistributedDataParallel before, as for training.
PredictStep(p) ==
    /\ mode = "predict"
    /\ Ready
    /\ status[p] = "training" /\ p \notin predicted
    /\ files' = [files EXCEPT ![SaveFileId(p)] =
                    SamplerIds(cfg[p[1]], global_rank[p], psize)]
    /\ predicted' = predicted \cup {p}
    /\ UNCHANGED <<startVars, loopVars, mode, psize>>

Next ==
    \/ D!Next /\ UNCHANGED <<loopVars, predictVars>>
    \/ StartTraining
    \/ LoopStep
    \/ \E p \in D!Procs : PredictStep(p)

\* The processes run until they block, and the master's loop keeps going.
Fairness ==
    /\ D!Fairness
    /\ WF_vars(StartTraining)
    /\ WF_vars(LoopStep)
    /\ \A p \in D!Procs : WF_vars(PredictStep(p))

Spec == Init /\ [][Next]_vars /\ Fairness

-----------------------------------------------------------------------------

TypeOK ==
    /\ D!TypeOK
    /\ EL!TypeOK
    /\ mode \in Modes /\ psize \in PredictSizes
    /\ files \in [FileIds -> {NoValue} \cup SUBSET RangeIds(psize)]
    /\ predicted \subseteq D!Procs

RanksDistinctInWorld == D!RanksDistinctInWorld
ExactlyOneMaster     == D!ExactlyOneMaster

\* An epoch over all ranks draws the batch_num it was configured with,
\* now for the world size Trainer.__init__ derived from the launcher's
\* WORLD_SIZE and the processes per shard (EpochLoop!EpochCoversBatchNum).
EpochCoversBatchNum == EL!EpochCoversBatchNum

\* The steps announced to the hooks are the batches the workers yield
\* (EpochLoop!EpochStepsMatchLen).
EpochStepsMatchLen == EL!EpochStepsMatchLen

WorkersPassRendezvous == D!WorkersPassRendezvous

\* Every process of a predict run that got through the set-up has saved.
PredictDone ==
    /\ mode = "predict" /\ predicted # {}
    /\ \A p \in D!Procs : status[p] = "training" => p \in predicted

\* After a predict run, predict_results holds an embedding of every id of
\* the RangeDataset, and two files share an id only when
\* DistributedSampler padded it: the sampler's shares of the global ranks
\* and SavePredictHook's file names must fit together.
PredictionsCoverRange ==
    PredictDone =>
        LET saved  == {k \in FileIds : files[k] # NoValue}
            W      == cfg[0].world_size
            padded == {i % psize : i \in psize..((psize + W - 1) \div W) * W - 1}
        IN  /\ UNION {files[k] : k \in saved} = RangeIds(psize)
            /\ \A k1, k2 \in saved : k1 # k2 => files[k1] \cap files[k2] \subseteq padded

=============================================================================
