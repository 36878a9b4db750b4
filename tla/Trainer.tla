------------------------------ MODULE Trainer ------------------------------
(***************************************************************************)
(* The PyTorch training process of galileo/framework/pytorch/python:       *)
(* Trainer.do_train driving a HookList whose first hook is CheckpointHook  *)
(* and whose log hook (MetricTimeHook, a BaseLogHook) comes after it;      *)
(* CheckpointHook's ThreadPoolExecutor(max_workers=2) running torch.save   *)
(* of the checkpoint file on its own threads; the process crashing at any  *)
(* point and being started again with resume=<the checkpoint file>.        *)
(*                                                                         *)
(* Model weights are abstracted to a version: the number of epochs trained *)
(* into them.  state_dict() returns tensors that share storage with the    *)
(* live parameters, so a save reads the weights when its thread serializes *)
(* them, not when it was submitted.                                        *)
(***************************************************************************)
EXTENDS Naturals, Sequences, SequencesExt

CONSTANTS
    NumEpochs,        \* run_config num_epochs
    SaveEveryValues,  \* run_config save_checkpoint_epochs (NoValue: unset)
    SaveBestFlags,    \* run_config save_best_model
    Placements,       \* "single": local_rank None; "gpu"/"cpu": spawned
                      \* worker with local_rank set, with or without CUDA
    Losses,           \* loss values a train_step may report
    MaxWorkers,       \* ThreadPoolExecutor max_workers
    MaxRestarts,      \* bound on crashes followed by a restart
    NoValue

ASSUME /\ NumEpochs \in Nat \ {0}
       /\ \A v \in SaveEveryValues : v = NoValue \/ v \in Nat
       /\ SaveBestFlags \subseteq BOOLEAN
       /\ Placements \subseteq {"single", "gpu", "cpu"}
       /\ Losses \subseteq Nat /\ MaxWorkers \in Nat \ {0}

VARIABLES
    pc,           \* where the training process is
    placement, save_best, save_every,   \* configuration of the run
    resume,       \* run_config['resume'] is the checkpoint file
    start_epoch,  \* run_config['start_epoch']
    loop_start,   \* start_epoch as do_train read it
    log_start,    \* BaseLogHook.start_epoch
    epoch,        \* do_train's loop variable (CheckpointHook.epoch)
    weights,      \* version of the live model parameters
    loss,         \* outputs['loss'] of the epoch's last batch
    save_model,   \* CheckpointHook.save_model is set (live references)
    save_loss,    \* CheckpointHook.save_loss
    queue,        \* calls submitted to the executor, not yet started
    running,      \* calls a pool thread is executing
    file,         \* the checkpoint file: NoFile, Torn or a checkpoint
    restarts,
    submitted, written,  \* epochs of this run's saves: submitted, finished
    loss_at       \* loss reported by the epoch that produced each version

vars == <<pc, placement, save_best, save_every, resume, start_epoch,
          loop_start, log_start, epoch, weights, loss, save_model, save_loss,
          queue, running, file, restarts, submitted, written, loss_at>>

MaxEpoch == (MaxRestarts + 1) * NumEpochs
Epochs   == 1..MaxEpoch
Ckpts    == [kind : {"ckpt"}, epoch : Epochs, loss : Losses, weights : Epochs]
NoFile   == [kind |-> "none"]
Torn     == [kind |-> "torn"]   \* isfile() holds, torch.load raises
IsCkpt(f) == f.kind = "ckpt"
Tasks    == [epoch : Epochs, loss : Losses]
Alive    == pc \notin {"crashed", "failed", "done"}

-----------------------------------------------------------------------------
(* Trainer.run_worker / do_train of a (re)started process.                 *)

Init ==
    /\ pc = "begin"
    /\ placement \in Placements /\ save_best \in SaveBestFlags
    /\ save_every \in SaveEveryValues
    /\ resume = FALSE /\ start_epoch = 0
    /\ loop_start = 0 /\ log_start = 0 /\ epoch = 0 /\ weights = 0
    /\ loss = NoValue /\ save_model = FALSE /\ save_loss = NoValue
    /\ queue = <<>> /\ running = <<>> /\ file = NoFile /\ restarts = 0
    /\ submitted = {} /\ written = {}
    /\ loss_at = [e \in Epochs |-> NoValue]

\* load_checkpoint can only load a file that holds a whole checkpoint, and
\* only when local_rank is None or CUDA is used: otherwise checkpoint is
\* never assigned.
Loads == resume /\ IsCkpt(file) /\ placement # "cpu"

\* hooks.on_train_begin raises: torch.load of a truncated file, or the
\* UnboundLocalError of a spawned CPU worker.
LoadCheckpointFails ==
    /\ pc = "begin" /\ resume /\ file # NoFile /\ ~Loads
    /\ pc' = "failed"
    /\ UNCHANGED <<placement, save_best, save_every, resume, start_epoch,
                   loop_start, log_start, epoch, weights, loss, save_model,
                   save_loss, queue, running, file, restarts, submitted,
                   written, loss_at>>

\* hooks.on_train_begin in list order -- CheckpointHook loads the resume
\* file into the model and run_config['start_epoch'], then the log hook
\* reads start_epoch -- and do_train reads start_epoch for its loop.
TrainBegin ==
    /\ pc = "begin" /\ (resume /\ file # NoFile => Loads)
    /\ start_epoch' = IF Loads THEN file.epoch ELSE start_epoch
    /\ weights' = IF Loads THEN file.weights ELSE weights
    /\ log_start' = start_epoch'
    /\ loop_start' = start_epoch' /\ epoch' = start_epoch'
    /\ pc' = "epoch"
    /\ UNCHANGED <<placement, save_best, save_every, resume, loss, save_model,
                   save_loss, queue, running, file, restarts, submitted,
                   written, loss_at>>

\* on_epoch_begin, then every batch's train_step updating the parameters
\* in place; the epoch's outputs are the last batch's.
RunEpoch ==
    /\ pc = "epoch"
    /\ \E l \in Losses :
         /\ loss' = l
         /\ loss_at' = [loss_at EXCEPT ![epoch + 1] = l]
    /\ weights' = weights + 1
    /\ pc' = "epoch_end"
    /\ UNCHANGED <<placement, save_best, save_every, resume, start_epoch,
                   loop_start, log_start, epoch, save_model, save_loss, queue,
                   running, file, restarts, submitted, written>>

\* (epoch + 1) % save_checkpoint_epochs with the option unset (None) or 0
\* raises in CheckpointHook.on_epoch_end.
EpochEndFails ==
    /\ pc = "epoch_end" /\ (save_every = NoValue \/ save_every = 0)
    /\ pc' = "failed"
    /\ UNCHANGED <<placement, save_best, save_every, resume, start_epoch,
                   loop_start, log_start, epoch, weights, loss, save_model,
                   save_loss, queue, running, file, restarts, submitted,
                   written, loss_at>>

\* CheckpointHook.on_epoch_end state: keep the best loss and a reference
\* to the live state dicts (save_best_model), or, on a save epoch, the
\* current loss and references; submit torch.save of 'epoch': epoch + 1.
Better  == save_best /\ (~save_model \/ save_loss > loss)
Due     == (epoch + 1) % save_every = 0
NewLoss == IF Due /\ ~save_best THEN loss
           ELSE IF Better THEN loss ELSE save_loss
Submit(label) ==
    IF Due /\ (save_model \/ Better \/ ~save_best)
    THEN /\ queue' = Append(queue, [epoch |-> label, loss |-> NewLoss])
         /\ submitted' = submitted \cup {label}
    ELSE UNCHANGED <<queue, submitted>>
NextEpoch ==
    /\ epoch' = epoch + 1
    /\ pc' = IF epoch + 1 < loop_start + NumEpochs THEN "epoch" ELSE "train_end"

\* Bug variant: the checkpoint records the epoch just trained, not epoch + 1.
EpochEndOffByOne ==
    /\ pc = "epoch_end" /\ save_every # NoValue /\ save_every > 0
    /\ save_model' = (save_model \/ Better \/ (Due /\ ~save_best))
    /\ save_loss' = NewLoss
    /\ Submit(epoch) /\ NextEpoch
    /\ UNCHANGED <<placement, save_best, save_every, resume, start_epoch,
                   loop_start, log_start, weights, loss, running, file,
                   restarts, written, loss_at>>

EpochEnd ==
    /\ pc = "epoch_end" /\ save_every # NoValue /\ save_every > 0
    /\ save_model' = (save_model \/ Better \/ (Due /\ ~save_best))
    /\ save_loss' = NewLoss
    /\ Submit(epoch + 1) /\ NextEpoch
    /\ UNCHANGED <<placement, save_best, save_every, resume, start_epoch,
                   loop_start, log_start, weights, loss, running, file,
                   restarts, written, loss_at>>

\* Bug variant: on_train_end shuts the pool down cancelling queued saves.
ShutdownCancels ==
    /\ pc = "train_end" /\ running = <<>>
    /\ pc' = "done" /\ queue' = <<>>
    /\ UNCHANGED <<placement, save_best, save_every, resume, start_epoch,
                   loop_start, log_start, epoch, weights, loss, save_model,
                   save_loss, running, file, restarts, submitted, written,
                   loss_at>>

\* CheckpointHook.on_train_end: executor.shutdown() waits for every
\* submitted save; then train() returns.
Shutdown ==
    /\ pc = "train_end" /\ queue = <<>> /\ running = <<>>
    /\ pc' = "done"
    /\ UNCHANGED <<placement, save_best, save_every, resume, start_epoch,
                   loop_start, log_start, epoch, weights, loss, save_model,
                   save_loss, queue, running, file, restarts, submitted,
                   written, loss_at>>

-----------------------------------------------------------------------------
(* The executor's threads.                                                 *)

\* A free pool thread takes the oldest queued call; torch.save opens the
\* file for writing, truncating it.  Writes that are open at the same
\* time are marked as overlapping.
WorkerStart ==
    /\ Alive /\ queue # <<>> /\ Len(running) < MaxWorkers
    /\ running' = [i \in DOMAIN running |-> [running[i] EXCEPT !.overlap = TRUE]]
                  \o <<[epoch |-> Head(queue).epoch, loss |-> Head(queue).loss,
                        overlap |-> running # <<>>]>>
    /\ queue' = Tail(queue)
    /\ file' = Torn
    /\ UNCHANGED <<pc, placement, save_best, save_every, resume, start_epoch,
                   loop_start, log_start, epoch, weights, loss, save_model,
                   save_loss, restarts, submitted, written, loss_at>>

\* The save finishes: the file holds its checkpoint, with the weights the
\* live state dict has now; a write that overlapped another one on the
\* same path may leave bytes of the other behind.
WorkerFinish(i) ==
    /\ Alive
    /\ LET t == running[i]
           content == [kind |-> "ckpt", epoch |-> t.epoch, loss |-> t.loss, weights |-> weights]
       IN  /\ file' \in IF t.overlap THEN {content, Torn} ELSE {content}
           /\ written' = written \cup {t.epoch}
    /\ running' = RemoveAt(running, i)
    /\ UNCHANGED <<pc, placement, save_best, save_every, resume, start_epoch,
                   loop_start, log_start, epoch, weights, loss, save_model,
                   save_loss, queue, restarts, submitted, loss_at>>

-----------------------------------------------------------------------------
(* Faults: the process dies, and is started again with resume set.         *)

Crash ==
    /\ Alive
    /\ pc' = "crashed" /\ queue' = <<>> /\ running' = <<>>
    /\ UNCHANGED <<placement, save_best, save_every, resume, start_epoch,
                   loop_start, log_start, epoch, weights, loss, save_model,
                   save_loss, file, restarts, submitted, written, loss_at>>

Restart ==
    /\ pc = "crashed" /\ restarts < MaxRestarts
    /\ pc' = "begin" /\ resume' = TRUE /\ restarts' = restarts + 1
    /\ start_epoch' = 0 /\ loop_start' = 0 /\ log_start' = 0 /\ epoch' = 0
    /\ weights' = 0 /\ loss' = NoValue
    /\ save_model' = FALSE /\ save_loss' = NoValue
    /\ submitted' = {} /\ written' = {}
    /\ UNCHANGED <<placement, save_best, save_every, queue, running, file,
                   loss_at>>

TrainerStep ==
    \/ TrainBegin \/ LoadCheckpointFails \/ RunEpoch \/ EpochEnd
    \/ EpochEndFails \/ Shutdown

Next ==
    \/ TrainerStep
    \/ WorkerStart
    \/ \E i \in DOMAIN running : WorkerFinish(i)
    \/ Crash
    \/ Restart

\* The training thread and the pool threads keep running while the process
\* lives; crashes and restarts are not forced.
Fairness ==
    /\ WF_vars(TrainerStep)
    /\ WF_vars(WorkerStart)
    /\ WF_vars(\E i \in DOMAIN running : WorkerFinish(i))

Spec == Init /\ [][Next]_vars /\ Fairness

-----------------------------------------------------------------------------
(* Properties.                                                             *)

TypeOK ==
    /\ pc \in {"begin", "epoch", "epoch_end", "train_end", "done", "crashed",
               "failed"}
    /\ placement \in Placements /\ save_best \in BOOLEAN
    /\ save_every \in SaveEveryValues /\ resume \in BOOLEAN
    /\ {start_epoch, loop_start, log_start, epoch, weights} \subseteq 0..MaxEpoch
    /\ loss \in Losses \cup {NoValue} /\ save_loss \in Losses \cup {NoValue}
    /\ save_model \in BOOLEAN
    /\ queue \in Seq(Tasks)
    /\ Len(running) <= MaxWorkers
    /\ \A i \in DOMAIN running :
         running[i] \in [epoch : Epochs, loss : Losses, overlap : BOOLEAN]
    /\ file \in {NoFile, Torn} \cup Ckpts
    /\ restarts \in 0..MaxRestarts
    /\ submitted \subseteq Epochs /\ written \subseteq submitted
    /\ loss_at \in [Epochs -> Losses \cup {NoValue}]

\* Every torch.save submitted by CheckpointHook.on_epoch_end is eventually
\* carried out by the pool, unless the process dies first
\* (on_train_end's executor.shutdown() waits for them).
SavesEventuallyWritten ==
    \A e \in Epochs : e \in submitted ~> (e \in written \/ pc = "crashed")

\* Once a checkpoint of epoch e has been written, the file never again
\* holds an older one: saves submitted in epoch order land in that order.
CheckpointNeverRegresses ==
    [][IsCkpt(file') => \A e \in written : file'.epoch >= e]_vars

\* A checkpoint is the state of the epoch it is labelled with: the one
\* labelled e holds the weights after epoch e and the loss of epoch e
\* (on_epoch_end saves the model and loss of the epoch that just ended;
\* with save_best_model, of the best epoch, whose label it must carry).
CheckpointIsOfItsEpoch ==
    IsCkpt(file) => file.weights = file.epoch /\ file.loss = loss_at[file.epoch]

\* train() ends without an exception: a run can always be resumed from
\* the checkpoint file it finds, and the epoch loop completes.
TrainingNeverAborts == pc # "failed"

=============================================================================
