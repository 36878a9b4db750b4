---------------------------- MODULE MCTFCluster ----------------------------
EXTENDS TFCluster

\* TF_CONFIG unset; chief and a worker; chief and two workers; two workers
\* and a parameter server; chief and evaluator; a full cluster; two chiefs.
MCClusters ==
    {NoValue,
     [chief |-> 1, worker |-> 1, ps |-> 0, evaluator |-> 0],
     [chief |-> 1, worker |-> 2, ps |-> 0, evaluator |-> 0],
     [chief |-> 0, worker |-> 2, ps |-> 1, evaluator |-> 0],
     [chief |-> 1, worker |-> 0, ps |-> 0, evaluator |-> 1],
     [chief |-> 1, worker |-> 1, ps |-> 1, evaluator |-> 1],
     [chief |-> 2, worker |-> 0, ps |-> 0, evaluator |-> 0]}

MCStrategies ==
    {NoValue, "mirrored", "multi_worker_mirrored", "parameter_server", "central_storage"}

MCBatchNumArgs   == {NoValue, -1, 2}
MCSaveEpochsArgs == {NoValue, 2}

\* A synchronous multi-worker job: TF_CONFIG unset, or chief and a worker.
MCSyncClusters ==
    {NoValue, [chief |-> 1, worker |-> 1, ps |-> 0, evaluator |-> 0]}
====
