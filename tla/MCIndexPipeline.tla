-------------------------- MODULE MCIndexPipeline --------------------------
EXTENDS IndexPipeline

CONSTANTS a, b, c

MCFiles == {a, b, c}
MCTwoFiles == {a, b}
MCCrashing == {a}
=============================================================================
