----------------------------- MODULE MCRangeQuery -----------------------------
(* Range queries of up to MaxResults results, for TLC *)
EXTENDS RangeQuery
===============================================================================
