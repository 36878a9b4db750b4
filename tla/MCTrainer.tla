----------------------------- MODULE MCTrainer -----------------------------
EXTENDS Trainer

MCPlacements == {"single", "gpu"}
MCLosses     == {1, 2}
============================================================================
