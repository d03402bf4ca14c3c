---------------------------- MODULE MCThreadedCache ----------------------------
(***************************************************************************)
(* Three requests whose prompts share a block or all, under each           *)
(* condition, with and without a budget, for one request at a time and     *)
(* two.  The budget holds the first prompt or the last block of the        *)
(* second, which has to evict two blocks for it.                           *)
(***************************************************************************)
EXTENDS ThreadedCache

CONSTANTS keyA, keyB, keyC

MCBlock(k, n) == [key |-> k, logical_key |-> k, token_count |-> n]

MCFirst == <<MCBlock(keyA, 1), MCBlock(keyB, 1)>>

MCSecond == <<MCBlock(keyA, 1), MCBlock(keyC, 2)>>

MCRuns == {<<MCFirst, MCSecond, MCFirst>>, <<MCFirst, MCFirst, MCSecond>>}

MCConfigs ==
    [model : {"copy_on_write", "base_shared"}, condition : Conditions,
     budget : {NoBudget, 2}, max_concurrency : {1, 2}]
=============================================================================
