--------------------------- MODULE MCTrainingJob ---------------------------
EXTENDS TrainingJob

\* num_procs_per_shard left to the device count, 0 (raised to 1) or more
\* processes than one machine has devices.
MCProcsArgs == {NoValue, 0, 3}
\* batch_num not given, negative, zero, and given.
MCBatchNumArgs == {NoValue, -1, 0, 3}

=============================================================================
