----------------------------- MODULE MCBlocksItr -----------------------------
EXTENDS BlocksItr

CONSTANTS small, large

MCDataSize == [d \in {small, large} |-> IF d = small THEN 2 ELSE 4]
=============================================================================
