------------------------- MODULE MCStrategyInstance -------------------------
EXTENDS StrategyInstance, TLC

Symmetry == Permutations(TradeCycleIds)
=============================================================================
