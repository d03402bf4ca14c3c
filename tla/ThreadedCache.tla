---------------------------- MODULE ThreadedCache ----------------------------
(***************************************************************************)
(* One cache model shared by the threads of a concurrent run.              *)
(* run_concurrent hands MockBackend.generate to asyncio.to_thread, so up   *)
(* to max_concurrency requests run estimate_cached_prefix_tokens and       *)
(* observe_request of the same CacheModel at a time, with no lock.  The    *)
(* interpreter switches threads at calls and at the end of a loop's turn;  *)
(* an action is what a thread does between two such points.                *)
(*                                                                         *)
(* A prompt is the sequence of its blocks (module PrefixCache models how   *)
(* they come about), of one segment: activated_lora, which makes two, is   *)
(* left out here, and so are the deltas of copy_on_write, which nothing    *)
(* reads before the run ends.                                              *)
(*                                                                         *)
(* An operator named X_Fault is X with a fault a programmer could make; no *)
(* specification uses it.                                                  *)
(***************************************************************************)
EXTENDS PrefixTable

CONSTANTS
    Configs,        \* [model, condition, budget, max_concurrency] records
    Runs            \* the prompts of a run's requests, a prompt a sequence of blocks

CONSTANT RequestCount   \* bound: the requests of the run

ASSUME RequestCountAssumption == RequestCount \in Nat /\ \A p \in Runs : Len(p) = RequestCount

Threads == 1 .. RequestCount

Conditions == {"warm", "cold", "prefix_disabled"}

ASSUME ConfigsAssumption ==
    \A c \in Configs : /\ c.condition \in Conditions
                       /\ c.budget = NoBudget \/ c.budget \in Nat
                       /\ c.max_concurrency \in Nat

\* No prompt is empty.
ASSUME PromptsAssumption ==
    \A p \in Runs : \A r \in Threads : /\ p[r] \in Seq(ToSet(p[r])) /\ p[r] # <<>>
                                      /\ \A b \in ToSet(p[r]) : b.token_count \in Nat

\* The key of a block hashes all that its segment begins with.
ASSUME KeysAssumption ==
    \A p \in Runs : \A q, r \in Threads :
        \A i \in 1 .. Len(p[q]), j \in 1 .. Len(p[r]) :
            p[q][i].key = p[r][j].key => SubSeq(p[q], 1, i) = SubSeq(p[r], 1, j)

VARIABLES
    config,                     \* the CacheConfig as it was read
    condition,                  \* config.condition, which copy_on_write changes
    tables,                     \* every PrefixTable made, self.table the last
    request_count,
    total_prompt_tokens,
    total_cached_prefix_tokens,
    thread                      \* each request's thread and its local variables

vars == <<config, condition, tables, request_count, total_prompt_tokens,
          total_cached_prefix_tokens, thread>>

Unsaved == "unsaved"

Init ==
    /\ config \in Configs
    /\ condition = config.condition
    /\ tables = <<EmptyTable>>
    /\ request_count = 0
    /\ total_prompt_tokens = 0
    /\ total_cached_prefix_tokens = 0
    /\ \E prompts \in Runs :
          thread = [r \in Threads |->
                      [pc |-> "queued", prompt |-> prompts[r], i |-> 1,
                       cached |-> 0, reused |-> 0, seen |-> 0,
                       original_condition |-> Unsaved,
                       table |-> 0, sum |-> 0, mutated |-> FALSE, raised |-> FALSE]]
------------------------------------------------------------------------------
table == Last(tables)

Block(r) == thread[r].prompt[thread[r].i]

IsLast(r) == thread[r].i = Len(thread[r].prompt)

Overlapping == {r \in Threads : thread[r].pc \notin {"queued", "done", "failed"}}

At(r, pc) == thread[r].pc = pc

\* The thread's local variables become locals.
Goto(r, locals) == thread' = [thread EXCEPT ![r] = locals]

\* The locals at pc, where nothing else has changed.
To(r, pc) == [thread[r] EXCEPT !.pc = pc]

\* The loop over the blocks goes on at pc, or ends at next.
NextBlock(r, pc, next) ==
    [thread[r] EXCEPT !.pc = IF IsLast(r) THEN next ELSE pc,
                      !.i  = IF IsLast(r) THEN 1 ELSE @ + 1]

\* The loop is left before its end.
LeaveLoop(r, next) == [thread[r] EXCEPT !.pc = next, !.i = 1]

(***************************************************************************)
(* Replaces table number n; an iteration that another thread has open on   *)
(* it notices (OrderedDict counts insertions, removals and moves).         *)
(***************************************************************************)
ChangeTable(n, changed, r, locals) ==
    /\ tables' = [tables EXCEPT ![n] = changed]
    /\ thread' = [s \in Threads |->
          IF s = r THEN locals
          ELSE [thread[s] EXCEPT !.mutated =
                  @ \/ (thread[s].pc = "sum" /\ thread[s].table = n
                          /\ changed.blocks # tables[n].blocks)]]

UNCHANGED_Counters ==
    UNCHANGED <<request_count, total_prompt_tokens, total_cached_prefix_tokens>>

(***************************************************************************)
(* The semaphore admits the requests in order.  generate estimates first:  *)
(* nothing outside the warm condition.                                     *)
(***************************************************************************)
Start(r) ==
    /\ At(r, "queued")
    /\ \A q \in 1 .. r - 1 : ~At(q, "queued")
    /\ Cardinality(Overlapping) < Max({1, config.max_concurrency})
    /\ Goto(r, To(r, IF condition = "warm" THEN "estimate" ELSE "begin"))
    /\ UNCHANGED <<config, condition, tables>> /\ UNCHANGED_Counters

EstimateBlock(r) ==
    /\ At(r, "estimate")
    /\ IF Block(r).key \in Keys(table)
       THEN Goto(r, [NextBlock(r, "estimate", "begin")
                       EXCEPT !.cached = @ + Block(r).token_count])
       ELSE Goto(r, LeaveLoop(r, "begin"))
    /\ UNCHANGED <<config, condition, tables>> /\ UNCHANGED_Counters
------------------------------------------------------------------------------
(***************************************************************************)
(* observe_request.  copy_on_write remembers the condition and, when cold, *)
(* resets the storage and lets the rest run as if warm.                    *)
(***************************************************************************)
BeginObserve(r) ==
    /\ At(r, "begin")
    /\ IF config.model = "copy_on_write" /\ condition # "prefix_disabled"
       THEN Goto(r, [To(r, IF condition = "cold" THEN "reset" ELSE "super")
                       EXCEPT !.original_condition = condition])
       ELSE Goto(r, To(r, "super"))
    /\ UNCHANGED <<config, condition, tables>> /\ UNCHANGED_Counters

\* _reset_storage puts a new table in place of the old one.
ResetStorage(r) ==
    /\ \/ At(r, "reset") /\ Goto(r, To(r, "toggle"))
       \/ At(r, "super_reset") /\ Goto(r, To(r, "lookup"))
    /\ tables' = Append(tables, EmptyTable)
    /\ UNCHANGED <<config, condition>> /\ UNCHANGED_Counters

ToggleCondition(r) ==
    /\ At(r, "toggle")
    /\ condition' = "warm"
    /\ Goto(r, To(r, "super"))
    /\ UNCHANGED <<config, tables>> /\ UNCHANGED_Counters

\* CacheModel.observe_request reads the condition, whoever set it.
EnterSuper(r) ==
    /\ At(r, "super")
    /\ Goto(r, To(r, CASE condition = "prefix_disabled" -> "count"
                       [] condition = "cold" -> "super_reset"
                       [] OTHER -> "lookup"))
    /\ UNCHANGED <<config, condition, tables>> /\ UNCHANGED_Counters

LookupBlock(r) ==
    /\ At(r, "lookup")
    /\ LET hit == Block(r).key \in Keys(table)
       IN  ChangeTable(Len(tables), contains(table, Block(r)), r,
              IF hit THEN [NextBlock(r, "lookup", "count")
                             EXCEPT !.reused = @ + Block(r).token_count]
              ELSE LeaveLoop(r, "count"))
    /\ UNCHANGED <<config, condition>> /\ UNCHANGED_Counters

\* total_prompt_tokens += len(tokens) reads the total before it calls len.
CountRequest(r) ==
    /\ At(r, "count")
    /\ request_count' = request_count + 1
    /\ Goto(r, [To(r, "total") EXCEPT !.seen = total_prompt_tokens])
    /\ UNCHANGED <<config, condition, tables, total_prompt_tokens, total_cached_prefix_tokens>>

AddTotals(r) ==
    /\ At(r, "total")
    /\ total_prompt_tokens' = thread[r].seen + TokensOf(thread[r].prompt)
    /\ total_cached_prefix_tokens' = total_cached_prefix_tokens + thread[r].reused
    /\ Goto(r, [To(r, IF config.condition = "prefix_disabled" THEN "done" ELSE "store")
                  EXCEPT !.seen = 0, !.reused = 0])
    /\ UNCHANGED <<config, condition, tables, request_count>>
------------------------------------------------------------------------------
\* The finally clause of copy_on_write is next, or the request is over.
AfterStore(r) ==
    IF thread[r].original_condition # Unsaved THEN "restore" ELSE "done"

(***************************************************************************)
(* PrefixTable.add up to the eviction: a block larger than the budget is   *)
(* skipped, a known one moved, a new one inserted.                         *)
(***************************************************************************)
StoreBlock(r) ==
    LET n == Len(tables)
        b == Block(r)
        skip == config.budget # NoBudget /\ b.token_count > config.budget
        next == NextBlock(r, "store", AfterStore(r))
    IN  /\ At(r, "store")
        /\ \/ skip /\ Goto(r, next) /\ UNCHANGED tables
           \/ /\ ~skip /\ b.key \in Keys(table)
              /\ ChangeTable(n, move_to_end(table, b), r, next)
           \/ /\ ~skip /\ b.key \notin Keys(table)
              /\ ChangeTable(n, Insert(table, b), r,
                    IF config.budget = NoBudget THEN next
                    ELSE [To(r, "evict") EXCEPT !.table = n])
        /\ UNCHANGED <<config, condition>> /\ UNCHANGED_Counters

\* cached_tokens() opens an iteration over the blocks.
BeginSum(r) ==
    /\ At(r, "evict")
    /\ Goto(r, [To(r, "sum") EXCEPT !.sum = cached_tokens(tables[thread[r].table]),
                                    !.mutated = FALSE])
    /\ UNCHANGED <<config, condition, tables>> /\ UNCHANGED_Counters

\* The eviction of r lets go of the table: l with no iteration open on it.
Released(l) == [l EXCEPT !.table = 0, !.sum = 0, !.mutated = FALSE]

\* Drops the oldest block of t.
EvictOne(t) ==
    [t EXCEPT !.blocks = Tail(@), !.eviction_count = @ + 1,
              !.evicted_token_count = @ + Head(t.blocks).token_count]

\* Evicts one block at most.
EndSum_Once(r) ==
    /\ At(r, "sum")
    /\ LET t == tables[thread[r].table]
           next == Released(NextBlock(r, "store", AfterStore(r)))
       IN  IF thread[r].sum > config.budget /\ t.blocks # <<>>
           THEN ChangeTable(thread[r].table, EvictOne(t), r, next)
           ELSE Goto(r, next) /\ UNCHANGED tables
    /\ UNCHANGED <<config, condition>> /\ UNCHANGED_Counters

(***************************************************************************)
(* The sum is over: too much is stored and the oldest block goes, or the   *)
(* next block's turn has come.  A sum is the one of the blocks at its      *)
(* beginning, and may be out of date.                                      *)
(***************************************************************************)
EndSum(r) ==
    /\ At(r, "sum")
    /\ LET t == tables[thread[r].table]
       IN  IF thread[r].sum > config.budget /\ t.blocks # <<>>
           THEN ChangeTable(thread[r].table, EvictOne(t), r,
                   [To(r, "evict") EXCEPT !.sum = 0, !.mutated = FALSE])
           ELSE Goto(r, Released(NextBlock(r, "store", AfterStore(r)))) /\ UNCHANGED tables
    /\ UNCHANGED <<config, condition>> /\ UNCHANGED_Counters

(***************************************************************************)
(* The iteration finds that the OrderedDict was mutated before it had      *)
(* taken the last block: RuntimeError, the request fails, nothing is       *)
(* evicted.                                                                *)
(***************************************************************************)
SumRaises(r) ==
    /\ At(r, "sum")
    /\ thread[r].mutated /\ thread[r].sum > 0
    /\ Goto(r, [Released(To(r, IF thread[r].original_condition # Unsaved
                               THEN "restore" ELSE "failed")) EXCEPT !.raised = TRUE])
    /\ UNCHANGED <<config, condition, tables>> /\ UNCHANGED_Counters

\* Leaves the condition as it was set for the observation.
RestoreCondition_Never(r) ==
    /\ At(r, "restore")
    /\ Goto(r, To(r, IF thread[r].raised THEN "failed" ELSE "done"))
    /\ UNCHANGED <<config, condition, tables>> /\ UNCHANGED_Counters

RestoreCondition(r) ==
    /\ At(r, "restore")
    /\ condition' = thread[r].original_condition
    /\ Goto(r, To(r, IF thread[r].raised THEN "failed" ELSE "done"))
    /\ UNCHANGED <<config, tables>> /\ UNCHANGED_Counters

Observe(r) ==
    \/ BeginObserve(r) \/ ResetStorage(r) \/ ToggleCondition(r) \/ EnterSuper(r)
    \/ LookupBlock(r) \/ CountRequest(r) \/ AddTotals(r)
    \/ StoreBlock(r) \/ BeginSum(r) \/ EndSum(r) \/ SumRaises(r) \/ RestoreCondition(r)

Next == \E r \in Threads : Start(r) \/ EstimateBlock(r) \/ Observe(r)

Spec == Init /\ [][Next]_vars
------------------------------------------------------------------------------
(***************************************************************************)
(* Properties.                                                             *)
(***************************************************************************)
AllOver == \A r \in Threads : At(r, "done") \/ At(r, "failed")

\* The sum of f[x] over the elements of S.
SumOver(f, S) == MapThenSumSet(LAMBDA x : f[x], S)

(***************************************************************************)
(* The table holds more than max_memory_tokens only while a thread is      *)
(* about to evict from it, or once a request has failed in its eviction    *)
(* (the next insertion brings the table back).  Requests fail so only when *)
(* there is a budget and requests overlap.  prefix_table.py takes no lock. *)
(***************************************************************************)
BudgetOverrunExplained ==
    LET raised == {r \in Threads : thread[r].raised}
    IN  /\ config.budget # NoBudget /\ cached_tokens(table) > config.budget =>
              \/ raised # {}
              \/ \E r \in Threads : /\ thread[r].pc \in {"evict", "sum"}
                                    /\ thread[r].table = Len(tables)
        /\ raised # {} => config.budget # NoBudget /\ config.max_concurrency > 1

\* The tokens of the blocks that r's prompt begins with, as the prompt of q does.
CommonTokens(q, r) ==
    TokensOf(LongestCommonPrefix({thread[q].prompt, thread[r].prompt}))

(***************************************************************************)
(* The cached tokens of a response are tokens another request has stored   *)
(* or is storing, and none when the prefix cache is cold or disabled,      *)
(* unless copy_on_write requests overlap: then one may save the "warm"     *)
(* that another has set for its own observation, and restore it last, for  *)
(* every later request to read.  One at a time the counters of             *)
(* the run are exactly those of its responses.  Overlapping requests lose  *)
(* no reuse and no block without a budget; only prompt tokens may be       *)
(* undercounted.                                                           *)
(***************************************************************************)
ReuseIsEarned ==
    LET storing == {q \in Threads : thread[q].pc \in {"store", "evict", "sum", "restore",
                                                     "done", "failed"}}
        blocks  == UNION {ToSet(thread[r].prompt) : r \in Threads}
        cached  == SumOver([r \in Threads |-> thread[r].cached], Threads)
        prompt_tokens == SumOver([r \in Threads |-> TokensOf(thread[r].prompt)], Threads)
        alone   == config.max_concurrency = 1
    IN  /\ \A r \in Threads :
              thread[r].cached <= Max({0} \cup {CommonTokens(q, r) : q \in storing \ {r}})
        /\ config.condition # "warm" /\ (alone \/ config.model # "copy_on_write") =>
              \A r \in Threads : thread[r].cached = 0
        /\ AllOver =>
              /\ request_count = RequestCount
              /\ total_prompt_tokens <= prompt_tokens
              /\ alone => /\ total_prompt_tokens = prompt_tokens
                         /\ total_cached_prefix_tokens = cached
              /\ config.condition = "warm" /\ config.budget = NoBudget =>
                    /\ total_cached_prefix_tokens >= cached
                    /\ ToSet(table.blocks) = blocks
=============================================================================
