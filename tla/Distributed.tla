---------------------------- MODULE Distributed ----------------------------
(***************************************************************************)
(* Start-up of a PyTorch training job (galileo/framework/pytorch/python/   *)
(* trainer.py): on every machine (shard) the same script builds a Trainer, *)
(* whose __init__ settles num_procs_per_shard, rank, world_size and        *)
(* multiprocessing_distributed; run() spawns one process per local rank    *)
(* (or runs in the main process); every process's run_worker computes its  *)
(* global rank, joins dist.init_process_group, decides is_master and moves *)
(* the model to its device.                                                *)
(*                                                                         *)
(* A job runs on 1 .. n machines; the launcher exports RANK = the shard's *)
(* index and WORLD_SIZE = the number of shards.  All machines have the     *)
(* same number of devices.                                                 *)
(* init_process_group is a rendezvous: it returns once world_size          *)
(* processes with the ranks 0 .. world_size-1 have joined.                 *)
(***************************************************************************)
EXTENDS Integers, FiniteSets

CONSTANTS
    JobSizes,      \* numbers of machines a job may run on
    ProcsArgs,     \* num_procs_per_shard argument values (NoValue: None)
    MPFlags,       \* multiprocessing_distributed argument values
    DeviceCounts,  \* cuda.device_count() or cpu_count() of the machines
    NoValue

ASSUME /\ JobSizes \subseteq Nat \ {0} /\ JobSizes # {}
       /\ \A a \in ProcsArgs : a = NoValue \/ a \in Nat
       /\ MPFlags \subseteq BOOLEAN
       /\ DeviceCounts \subseteq Nat \ {0}

VARIABLES
    nshards,       \* machines of the job
    use_cuda,      \* cuda.is_available()
    devices,       \* the machines' device count
    procs_arg,     \* num_procs_per_shard passed to Trainer
    mp_arg,        \* multiprocessing_distributed passed to Trainer
    cfg,           \* cfg[s]: Trainer._config of shard s (NoValue before __init__)
    status,        \* status[p] of process p = <<shard, local_rank>>
    global_rank,   \* config['global_rank'] of each process
    is_master      \* config['is_master'] of each process

vars == <<nshards, use_cuda, devices, procs_arg, mp_arg, cfg, status, global_rank,
          is_master>>

MaxOf(S)   == CHOOSE n \in S : \A m \in S : m <= n
\* RANK of every machine a job may have, and of the machines of this job.
AllShards  == 0..MaxOf(JobSizes) - 1
Shards     == 0..nshards - 1
MaxLocal   == LET ns == DeviceCounts \cup (ProcsArgs \ {NoValue})
              IN  MaxOf(ns)
\* local_rank: an index of mp.spawn, or None for the main process.
LocalRanks == (0..MaxLocal - 1) \cup {NoValue}
Procs      == AllShards \X LocalRanks
Statuses   == {"absent", "created", "joining", "joined", "training", "failed"}

\* WORLD_SIZE as the launcher exports it.
WorldEnv == nshards

-----------------------------------------------------------------------------

Init ==
    /\ nshards \in JobSizes
    /\ use_cuda \in BOOLEAN /\ devices \in DeviceCounts
    /\ procs_arg \in ProcsArgs /\ mp_arg \in MPFlags
    /\ cfg = [s \in AllShards |-> NoValue]
    /\ status = [p \in Procs |-> "absent"]
    /\ global_rank = [p \in Procs |-> NoValue]
    /\ is_master = [p \in Procs |-> FALSE]

\* Trainer.__init__: num_procs_per_shard defaults to the device count and is
\* at least 1; RANK and WORLD_SIZE come from the environment (negative rank
\* becomes 0, non-positive world size 1); several shards, or several local
\* processes asked for, mean multiprocessing distributed, whose world size
\* counts every process.
TrainerInit(s) ==
    /\ s \in Shards /\ cfg[s] = NoValue
    /\ LET n   == IF procs_arg = NoValue THEN devices ELSE procs_arg
           np  == IF n < 1 THEN 1 ELSE n
           ws  == IF WorldEnv <= 0 THEN 1 ELSE WorldEnv
           mpd == (mp_arg /\ np > 1) \/ ws > 1
       IN  cfg' = [cfg EXCEPT ![s] = [num_procs |-> np,
                                      rank |-> IF s < 0 THEN 0 ELSE s,
                                      mpd |-> mpd,
                                      world_size |-> IF mpd THEN ws * np ELSE ws]]
    /\ UNCHANGED <<nshards, use_cuda, devices, procs_arg, mp_arg, status, global_rank,
                   is_master>>

\* Bug variant: one process fewer than num_procs_per_shard.
SpawnedOneShort(s) ==
    IF cfg[s].mpd THEN {<<s, l>> : l \in 0..cfg[s].num_procs - 2} ELSE {<<s, NoValue>>}

\* Trainer.run: mp.spawn(run_worker, nprocs=num_procs_per_shard), or
\* run_worker(None) in the main process.
Spawned(s) ==
    IF cfg[s].mpd THEN {<<s, l>> : l \in 0..cfg[s].num_procs - 1} ELSE {<<s, NoValue>>}

Run(s) ==
    /\ cfg[s] # NoValue
    /\ \A p \in Procs : p[1] = s => status[p] = "absent"
    /\ status' = [p \in Procs |-> IF p \in Spawned(s) THEN "created" ELSE status[p]]
    /\ UNCHANGED <<nshards, use_cuda, devices, procs_arg, mp_arg, cfg, global_rank,
                   is_master>>

\* Bug variant: the shard's rank added to the local rank, without stride.
GlobalRankNoStride(c, l) == IF c.mpd THEN c.rank + l ELSE c.rank

\* run_worker: global_rank = rank * num_procs_per_shard + local_rank when
\* distributed, else rank.
GlobalRank(c, l) == IF c.mpd THEN c.rank * c.num_procs + l ELSE c.rank

\* run_worker up to init_process_group: the process computes its global
\* rank and, when distributed, joins the process group.
RunWorker(p) ==
    /\ status[p] = "created"
    /\ LET c == cfg[p[1]]
       IN  /\ global_rank' = [global_rank EXCEPT ![p] = GlobalRank(c, p[2])]
           /\ status' = [status EXCEPT ![p] = IF c.mpd THEN "joining" ELSE "joined"]
    /\ UNCHANGED <<nshards, use_cuda, devices, procs_arg, mp_arg, cfg, is_master>>

\* The rendezvous completes when the joined ranks are 0 .. world_size-1.
GroupFormed ==
    LET J == {p \in Procs : status[p] = "joining"}
    IN  /\ J # {}
        /\ \E W \in {cfg[p[1]].world_size : p \in J} :
              /\ \A p \in J : cfg[p[1]].world_size = W
              /\ Cardinality(J) = W
              /\ {global_rank[p] : p \in J} = 0..W - 1
        /\ status' = [p \in Procs |-> IF p \in J THEN "joined" ELSE status[p]]
        /\ UNCHANGED <<nshards, use_cuda, devices, procs_arg, mp_arg, cfg, global_rank,
                       is_master>>

\* Bug variant: a master per shard.
IsMasterPerShard(c, g) == ~c.mpd \/ g % c.num_procs = 0

\* is_master: not distributed, or global rank divisible by the world size.
IsMaster(c, g) == ~c.mpd \/ g % c.world_size = 0

\* run_worker after the rendezvous: is_master, then the model goes to
\* cuda(local_rank), which raises for a local rank beyond the devices; then
\* do_train.
WorkerSetup(p) ==
    /\ status[p] = "joined"
    /\ is_master' = [is_master EXCEPT ![p] = IsMaster(cfg[p[1]], global_rank[p])]
    /\ status' = [status EXCEPT ![p] =
                    IF use_cuda /\ p[2] # NoValue /\ p[2] >= devices
                    THEN "failed" ELSE "training"]
    /\ UNCHANGED <<nshards, use_cuda, devices, procs_arg, mp_arg, cfg, global_rank>>

Next ==
    \/ \E s \in Shards : TrainerInit(s) \/ Run(s)
    \/ \E p \in Procs : RunWorker(p) \/ WorkerSetup(p)
    \/ GroupFormed

\* Every machine starts the script; every process runs until it blocks.
Fairness ==
    /\ \A s \in AllShards : WF_vars(TrainerInit(s)) /\ WF_vars(Run(s))
    /\ \A p \in Procs : WF_vars(RunWorker(p)) /\ WF_vars(WorkerSetup(p))
    /\ WF_vars(GroupFormed)

Spec == Init /\ [][Next]_vars /\ Fairness

-----------------------------------------------------------------------------

TypeOK ==
    /\ nshards \in JobSizes
    /\ use_cuda \in BOOLEAN /\ devices \in DeviceCounts
    /\ status \in [Procs -> Statuses]
    /\ \A p \in Procs : global_rank[p] = NoValue \/ global_rank[p] \in Nat
    /\ is_master \in [Procs -> BOOLEAN]

\* The processes of the job get pairwise different global ranks, each below
\* the world size they pass to init_process_group.
RanksDistinctInWorld ==
    \A p, q \in {x \in Procs : global_rank[x] # NoValue} :
        /\ global_rank[p] < cfg[p[1]].world_size
        /\ p # q => global_rank[p] # global_rank[q]

\* Once every process is set up, exactly one of them is the master: only it
\* submits checkpoint saves (CheckpointHook.on_epoch_end) to the one file.
ExactlyOneMaster ==
    (/\ \A s \in Shards : cfg[s] # NoValue
     /\ \E p \in Procs : status[p] # "absent"
     /\ \A p \in Procs : status[p] \in {"absent", "training", "failed"}
     /\ \A s \in Shards : \E p \in Procs : p[1] = s /\ status[p] # "absent")
        => Cardinality({p \in Procs : is_master[p]}) = 1

\* Every spawned process gets through init_process_group: the rendezvous
\* never leaves a process waiting for ranks nobody holds.
WorkersPassRendezvous ==
    \A p \in Procs : status[p] = "created" ~> status[p] \in {"training", "failed"}

=============================================================================
