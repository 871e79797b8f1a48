------------------------ MODULE MCBlockStoreRollback ------------------------
EXTENDS BlockStoreRollback

CONSTANTS small, large

MCDataSize == [d \in {small, large} |-> IF d = small THEN 2 ELSE 4]
=============================================================================
