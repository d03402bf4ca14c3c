------------------------ MODULE ThreadedCacheProofs ------------------------
(***************************************************************************)
(* The cache model that the threads of a concurrent run share.             *)
(***************************************************************************)
EXTENDS ThreadedCache, DataLemmas

USE RequestCountAssumption
------------------------------------------------------------------------------
\* The program points of a request.
Steps ==
    {"queued", "estimate", "begin", "reset", "toggle", "super", "super_reset", "lookup",
     "count", "total", "store", "evict", "sum", "restore", "done", "failed"}

Prompts == {p[r] : p \in Runs, r \in Threads}

\* A thread and its local variables.
Locals ==
    [pc : Steps, prompt : Prompts, i : Nat, cached : Nat, reused : Nat, seen : Nat,
     original_condition : Conditions \cup {Unsaved},
     table : Nat, sum : Nat, mutated : BOOLEAN, raised : BOOLEAN]

\* The blocks of the run.
Blocks == UNION {ToSet(thread[r].prompt) : r \in Threads}

\* r is at one of the points P.
InPc(r, P) == thread[r].pc \in P

\* The prompts are those of one of the runs.
PromptsInv == \E p \in Runs : \A r \in Threads : thread[r].prompt = p[r]

\* The types, and what the points of the eviction and of the finally clause rest on.
TypeInv ==
    /\ config \in Configs
    /\ condition \in Conditions
    /\ tables \in Seq(Good(Blocks)) /\ Len(tables) > 0
    /\ request_count \in Nat
    /\ total_prompt_tokens \in Nat
    /\ total_cached_prefix_tokens \in Nat
    /\ thread \in [Threads -> Locals]
    /\ PromptsInv
    /\ \A r \in Threads :
          /\ thread[r].i \in 1 .. Len(thread[r].prompt)
          /\ InPc(r, {"evict", "sum"}) =>
                 config.budget # NoBudget /\ thread[r].table \in 1 .. Len(tables)
          /\ InPc(r, {"restore"}) => thread[r].original_condition # Unsaved

\* The first m blocks of the prompt of r.
Prefix(r, m) == SubSeq(thread[r].prompt, 1, m)

------------------------------------------------------------------------------
(***************************************************************************)
(* The prompts of a run, whose keys tell their prefixes apart.             *)
(***************************************************************************)
\* Equal keys are equal places in equal prefixes.
LEMMA PromptFacts ==
    ASSUME PromptsInv
    PROVE  /\ BlockSet(Blocks)
           /\ \A b, c \in Blocks : b.key = c.key => b = c
           /\ \A r \in Threads :
                 /\ thread[r].prompt \in Seq(Blocks)
                 /\ Len(thread[r].prompt) \in Nat \ {0}
                 /\ \A j \in 1 .. Len(thread[r].prompt) : thread[r].prompt[j] \in Blocks
           /\ \A b \in Blocks : \E r \in Threads : \E j \in 1 .. Len(thread[r].prompt) :
                 thread[r].prompt[j] = b
           /\ \A q, r \in Threads :
                 \A i \in 1 .. Len(thread[q].prompt), j \in 1 .. Len(thread[r].prompt) :
                     thread[q].prompt[i].key = thread[r].prompt[j].key =>
                         /\ i = j /\ Prefix(q, i) = Prefix(r, i)
                         /\ thread[q].prompt[i] = thread[r].prompt[j]
<1>1. PICK p \in Runs : \A r \in Threads : thread[r].prompt = p[r]
  BY DEF PromptsInv
<1>2. \A r \in Threads : ToSet(p[r]) \subseteq Blocks
  BY <1>1 DEF Blocks
<1>3. \A r \in Threads : /\ p[r] \in Seq(ToSet(p[r])) /\ p[r] # <<>>
                         /\ \A b \in ToSet(p[r]) : b.token_count \in Nat
  BY PromptsAssumption
<1>4. ASSUME NEW r \in Threads
      PROVE  /\ p[r] \in Seq(Blocks) /\ Len(p[r]) \in Nat \ {0}
             /\ \A j \in 1 .. Len(p[r]) : p[r][j] \in Blocks
             /\ ToSet(p[r]) = {p[r][j] : j \in 1 .. Len(p[r])}
  <2>1. Len(p[r]) \in Nat \ {0} /\ DOMAIN p[r] = 1 .. Len(p[r])
    <3>1. p[r] \in Seq(ToSet(p[r])) /\ p[r] # <<>>
      BY <1>3
    <3>. QED  BY <3>1, LenProperties, EmptySeq
  <2>2. ToSet(p[r]) = {p[r][j] : j \in 1 .. Len(p[r])}
    BY <2>1 DEF ToSet
  <2>3. \A j \in 1 .. Len(p[r]) : p[r][j] \in Blocks
    BY <1>2, <2>2
  <2>4. p[r] \in Seq(Blocks)
    <3>1. p[r] = [j \in 1 .. Len(p[r]) |-> p[r][j]]
      BY <1>3
    <3>2. Len(p[r]) \in Nat
      BY <2>1
    <3>. QED  BY <2>3, <3>1, <3>2
  <2>. QED  BY <2>1, <2>2, <2>3, <2>4
<1>5. ASSUME NEW b \in Blocks PROVE \E r \in Threads : \E j \in 1 .. Len(p[r]) : p[r][j] = b
  <2>1. PICK r \in Threads : b \in ToSet(thread[r].prompt)
    BY DEF Blocks
  <2>2. b \in {p[r][j] : j \in 1 .. Len(p[r])}
    BY <1>1, <1>4, <2>1
  <2>. QED  BY <2>2
<1>6. ASSUME NEW b \in Blocks PROVE b.token_count \in Nat
  <2>1. PICK r \in Threads : \E j \in 1 .. Len(p[r]) : p[r][j] = b
    BY <1>5
  <2>2. b \in ToSet(p[r])
    BY <1>4, <2>1
  <2>. QED  BY <1>3, <2>2
<1>7. ASSUME NEW q \in Threads, NEW r \in Threads,
             NEW i \in 1 .. Len(p[q]), NEW j \in 1 .. Len(p[r]), p[q][i].key = p[r][j].key
      PROVE  i = j /\ SubSeq(p[q], 1, i) = SubSeq(p[r], 1, i) /\ p[q][i] = p[r][j]
  <2>1. SubSeq(p[q], 1, i) = SubSeq(p[r], 1, j)
    BY <1>7, KeysAssumption
  <2>2. /\ Len(SubSeq(p[q], 1, i)) = i /\ SubSeq(p[q], 1, i)[i] = p[q][i]
        /\ Len(SubSeq(p[r], 1, j)) = j /\ SubSeq(p[r], 1, j)[j] = p[r][j]
    <3>1. /\ i \in 0 .. Len(p[q]) /\ i \in 1 .. i /\ j \in 0 .. Len(p[r]) /\ j \in 1 .. j
          /\ p[q] \in Seq(Blocks) /\ p[r] \in Seq(Blocks)
      BY <1>4
    <3>. QED  BY <3>1, PrefixFacts
  <2>. QED  BY <2>1, <2>2
<1>8. \A b, c \in Blocks : b.key = c.key => b = c
  BY <1>5, <1>7
<1>9. BlockSet(Blocks)
  BY <1>6, <1>8 DEF BlockSet
<1>10. ASSUME NEW q \in Threads, NEW r \in Threads,
              NEW i \in 1 .. Len(thread[q].prompt), NEW j \in 1 .. Len(thread[r].prompt),
              thread[q].prompt[i].key = thread[r].prompt[j].key
       PROVE  i = j /\ Prefix(q, i) = Prefix(r, i) /\ thread[q].prompt[i] = thread[r].prompt[j]
  <2>1. thread[q].prompt = p[q] /\ thread[r].prompt = p[r]
    BY <1>1
  <2>. QED  BY <1>7, <1>10, <2>1 DEF Prefix
<1>11. \A r \in Threads :
          /\ thread[r].prompt \in Seq(Blocks) /\ Len(thread[r].prompt) \in Nat \ {0}
          /\ \A j \in 1 .. Len(thread[r].prompt) : thread[r].prompt[j] \in Blocks
  BY <1>1, <1>4
<1>12. \A b \in Blocks : \E r \in Threads : \E j \in 1 .. Len(thread[r].prompt) :
          thread[r].prompt[j] = b
  BY <1>1, <1>5
<1>. QED  BY <1>8, <1>9, <1>10, <1>11, <1>12

------------------------------------------------------------------------------
(***************************************************************************)
(* What a step does to the local variables: everything about the thread    *)
(* that acts, and about the others that an iteration they have open on a   *)
(* table may have been disturbed.                                          *)
(***************************************************************************)
\* Of another thread, only an open iteration may be disturbed.
Same(s) ==
    /\ thread'[s].pc = thread[s].pc /\ thread'[s].prompt = thread[s].prompt
    /\ thread'[s].i = thread[s].i /\ thread'[s].cached = thread[s].cached
    /\ thread'[s].reused = thread[s].reused /\ thread'[s].seen = thread[s].seen
    /\ thread'[s].original_condition = thread[s].original_condition
    /\ thread'[s].table = thread[s].table /\ thread'[s].sum = thread[s].sum
    /\ thread'[s].raised = thread[s].raised
    /\ thread'[s].mutated => thread[s].mutated \/ thread[s].pc = "sum"

\* r ends up with these locals.
Acts(r, locals) ==
    /\ thread' \in [Threads -> Locals]
    /\ thread'[r] = locals
    /\ \A s \in Threads \ {r} : Same(s)

\* r goes to pc, and its loop to block i.
Moves(r, pc, i) ==
    /\ thread' \in [Threads -> Locals]
    /\ \A s \in Threads \ {r} : Same(s)
    /\ thread'[r].prompt = thread[r].prompt
    /\ thread'[r].pc = pc /\ thread'[r].i = i

KeepsCounts(r) ==
    /\ thread'[r].cached = thread[r].cached
    /\ thread'[r].reused = thread[r].reused
    /\ thread'[r].seen = thread[r].seen

KeepsCondition(r) == thread'[r].original_condition = thread[r].original_condition

KeepsEviction(r) ==
    /\ thread'[r].table = thread[r].table
    /\ thread'[r].sum = thread[r].sum
    /\ thread'[r].mutated = thread[r].mutated
    /\ thread'[r].raised = thread[r].raised

NextI(r) == IF IsLast(r) THEN 1 ELSE thread[r].i + 1

\* Goto changes r alone.
LEMMA GotoActs ==
    ASSUME thread \in [Threads -> Locals], NEW r \in Threads, NEW l \in Locals, Goto(r, l)
    PROVE  Acts(r, l)
BY DEF Goto, Acts, Same

\* ChangeTable changes r, and what the iterations of the others notice.
LEMMA ChangeTableActs ==
    ASSUME TypeInv, NEW r \in Threads, NEW l \in Locals,
           NEW n \in 1 .. Len(tables), NEW changed \in Good(Blocks),
           ChangeTable(n, changed, r, l)
    PROVE  /\ Acts(r, l)
           /\ tables' \in Seq(Good(Blocks)) /\ Len(tables') = Len(tables)
           /\ tables'[n] = changed
           /\ \A k \in 1 .. Len(tables) : k # n => tables'[k] = tables[k]
<1>1. thread \in [Threads -> Locals] /\ tables \in Seq(Good(Blocks))
  BY DEF TypeInv
<1>2. \A s \in Threads \ {r} :
          thread'[s] = [thread[s] EXCEPT !.mutated =
                          @ \/ (thread[s].pc = "sum" /\ thread[s].table = n
                                  /\ changed.blocks # tables[n].blocks)]
  BY DEF ChangeTable
<1>3. thread'[r] = l /\ DOMAIN thread' = Threads /\ thread' = [s \in Threads |-> thread'[s]]
  BY DEF ChangeTable
<1>4. ASSUME NEW s \in Threads \ {r} PROVE thread'[s] \in Locals /\ Same(s)
  <2>1. thread[s] \in Locals
    BY <1>1
  <2>. DEFINE m == thread[s].mutated \/ (thread[s].pc = "sum" /\ thread[s].table = n
                                  /\ changed.blocks # tables[n].blocks)
  <2>2. m \in BOOLEAN
    BY <2>1 DEF Locals
  <2>3. thread'[s] = [thread[s] EXCEPT !.mutated = m]
    BY <1>2
  <2>4. m => thread[s].mutated \/ thread[s].pc = "sum"
    OBVIOUS
  <2>. HIDE DEF m
  <2>5. thread'[s] \in Locals
    BY <2>1, <2>2, <2>3 DEF Locals
  <2>6. thread'[s].mutated = m
    BY <2>1, <2>3 DEF Locals
  <2>. QED  BY <2>1, <2>3, <2>4, <2>5, <2>6 DEF Same, Locals
<1>5. thread' \in [Threads -> Locals]
  BY <1>3, <1>4
<1>6. tables' = [tables EXCEPT ![n] = changed]
  BY DEF ChangeTable
<1>. QED  BY <1>1, <1>3, <1>4, <1>5, <1>6 DEF Acts

\* The local variables that the actions leave.
LEMMA ToFacts ==
    ASSUME NEW r, thread[r] \in Locals, NEW pc \in Steps
    PROVE  /\ To(r, pc) \in Locals /\ To(r, pc).pc = pc
           /\ LET l == To(r, pc)
              IN  /\ l.prompt = thread[r].prompt /\ l.i = thread[r].i /\ l.cached = thread[r].cached
                  /\ l.reused = thread[r].reused /\ l.seen = thread[r].seen
                  /\ l.original_condition = thread[r].original_condition
                  /\ l.table = thread[r].table /\ l.sum = thread[r].sum
                  /\ l.mutated = thread[r].mutated /\ l.raised = thread[r].raised
BY DEF To, Locals

LEMMA NextBlockFacts ==
    ASSUME TypeInv, NEW r \in Threads, NEW pc \in Steps, NEW next \in Steps
    PROVE  LET l == NextBlock(r, pc, next)
           IN  /\ l \in Locals /\ l.pc = (IF IsLast(r) THEN next ELSE pc) /\ l.i = NextI(r)
               /\ l.prompt = thread[r].prompt /\ l.cached = thread[r].cached
               /\ l.reused = thread[r].reused /\ l.seen = thread[r].seen
               /\ l.original_condition = thread[r].original_condition
               /\ l.table = thread[r].table /\ l.sum = thread[r].sum
               /\ l.mutated = thread[r].mutated /\ l.raised = thread[r].raised
<1>1. thread[r] \in Locals
  BY DEF TypeInv
<1>. DEFINE p == IF IsLast(r) THEN next ELSE pc
            n == NextI(r)
<1>2. p \in Steps /\ n \in Nat
  BY <1>1 DEF NextI, Locals
<1>3. NextBlock(r, pc, next) = [thread[r] EXCEPT !.pc = p, !.i = n]
  BY DEF NextBlock, NextI
<1>. HIDE DEF p, n
<1>4. LET l == NextBlock(r, pc, next)
      IN  /\ l \in Locals /\ l.pc = p /\ l.i = n
          /\ l.prompt = thread[r].prompt /\ l.cached = thread[r].cached
          /\ l.reused = thread[r].reused /\ l.seen = thread[r].seen
          /\ l.original_condition = thread[r].original_condition
          /\ l.table = thread[r].table /\ l.sum = thread[r].sum
          /\ l.mutated = thread[r].mutated /\ l.raised = thread[r].raised
  BY <1>1, <1>2, <1>3 DEF Locals
<1>. QED  BY <1>4 DEF p, n

LEMMA LeaveLoopFacts ==
    ASSUME NEW r, thread[r] \in Locals, NEW next \in Steps
    PROVE  LET l == LeaveLoop(r, next)
           IN  /\ l \in Locals /\ l.pc = next /\ l.i = 1
               /\ l.prompt = thread[r].prompt /\ l.cached = thread[r].cached
               /\ l.reused = thread[r].reused /\ l.seen = thread[r].seen
               /\ l.original_condition = thread[r].original_condition
               /\ l.table = thread[r].table /\ l.sum = thread[r].sum
               /\ l.mutated = thread[r].mutated /\ l.raised = thread[r].raised
BY DEF LeaveLoop, Locals

LEMMA ReleasedFacts ==
    ASSUME NEW k \in Locals
    PROVE  LET l == Released(k)
           IN  /\ l \in Locals /\ l.table = 0 /\ l.sum = 0 /\ l.mutated = FALSE
               /\ l.pc = k.pc /\ l.i = k.i
               /\ l.prompt = k.prompt /\ l.cached = k.cached
               /\ l.reused = k.reused /\ l.seen = k.seen
               /\ l.original_condition = k.original_condition
               /\ l.raised = k.raised
BY DEF Released, Locals

\* The block that r is at, and its place after the turn of the loop.
LEMMA BlockFacts ==
    ASSUME TypeInv, NEW r \in Threads
    PROVE  /\ thread[r] \in Locals
           /\ thread[r].i \in 1 .. Len(thread[r].prompt)
           /\ Len(thread[r].prompt) \in Nat \ {0}
           /\ Block(r) \in Blocks /\ Block(r).token_count \in Nat
           /\ NextI(r) \in 1 .. Len(thread[r].prompt)
           /\ AfterStore(r) \in {"restore", "done"}
           /\ table \in Good(Blocks) /\ Len(tables) \in Nat \ {0}
<1>1. PromptsInv /\ thread[r] \in Locals /\ thread[r].i \in 1 .. Len(thread[r].prompt)
  BY DEF TypeInv
<1>2. /\ BlockSet(Blocks) /\ Len(thread[r].prompt) \in Nat \ {0}
      /\ \A j \in 1 .. Len(thread[r].prompt) : thread[r].prompt[j] \in Blocks
  BY <1>1, PromptFacts
<1>3. Block(r) \in Blocks /\ Block(r).token_count \in Nat
  BY <1>1, <1>2 DEF Block, BlockSet
<1>4. NextI(r) \in 1 .. Len(thread[r].prompt)
  BY <1>1, <1>2 DEF NextI, IsLast
<1>5. AfterStore(r) \in {"restore", "done"}
  BY DEF AfterStore
<1>6. table \in Good(Blocks) /\ Len(tables) \in Nat \ {0}
  <2>1. tables \in Seq(Good(Blocks)) /\ Len(tables) > 0
    BY DEF TypeInv
  <2>2. Len(tables) \in Nat /\ Len(tables) \in 1 .. Len(tables)
    BY <2>1, LenProperties
  <2>3. tables[Len(tables)] \in Good(Blocks)
    BY <2>1, <2>2, ElementOfSeq
  <2>. QED  BY <2>1, <2>2, <2>3 DEF table, Last
<1>. QED  BY <1>1, <1>2, <1>3, <1>4, <1>5, <1>6

------------------------------------------------------------------------------
(***************************************************************************)
(* The actions, one by one.                                                *)
(***************************************************************************)
Counters == <<request_count, total_prompt_tokens, total_cached_prefix_tokens>>

\* The request is admitted and reads the condition.
LEMMA StartStep ==
    ASSUME TypeInv, NEW r \in Threads, Start(r)
    PROVE  /\ thread[r].pc = "queued"
           /\ Moves(r, IF condition = "warm" THEN "estimate" ELSE "begin", thread[r].i)
           /\ KeepsCounts(r) /\ KeepsCondition(r) /\ KeepsEviction(r)
           /\ UNCHANGED <<config, condition, tables, Counters>>
<1>. DEFINE pc == IF condition = "warm" THEN "estimate" ELSE "begin"
<1>1. pc \in Steps
  BY DEF Steps
<1>2. thread[r].pc = "queued" /\ Goto(r, To(r, pc))
      /\ UNCHANGED <<config, condition, tables, Counters>>
  BY DEF Start, At, UNCHANGED_Counters, Counters
<1>. HIDE DEF pc
<1>3. Acts(r, To(r, pc))
  BY <1>1, <1>2, BlockFacts, ToFacts, GotoActs DEF TypeInv
<1>4. Moves(r, pc, thread[r].i) /\ KeepsCounts(r) /\ KeepsCondition(r) /\ KeepsEviction(r)
  BY <1>1, <1>3, BlockFacts, ToFacts
  DEF Acts, Moves, KeepsCounts, KeepsCondition, KeepsEviction
<1>. QED  BY <1>2, <1>4 DEF pc

\* A hit goes on with the next block, a miss ends the estimate.
LEMMA EstimateStep ==
    ASSUME TypeInv, NEW r \in Threads, EstimateBlock(r)
    PROVE  /\ thread[r].pc = "estimate"
           /\ \/ /\ Block(r).key \in Keys(table)
                 /\ Moves(r, IF IsLast(r) THEN "begin" ELSE "estimate", NextI(r))
                 /\ thread'[r].cached = thread[r].cached + Block(r).token_count
              \/ /\ Block(r).key \notin Keys(table)
                 /\ Moves(r, "begin", 1)
                 /\ thread'[r].cached = thread[r].cached
           /\ thread'[r].reused = thread[r].reused /\ thread'[r].seen = thread[r].seen
           /\ KeepsCondition(r) /\ KeepsEviction(r)
           /\ UNCHANGED <<config, condition, tables, Counters>>
<1>1. thread[r].pc = "estimate" /\ UNCHANGED <<config, condition, tables, Counters>>
  BY DEF EstimateBlock, At, UNCHANGED_Counters, Counters
<1>2. "estimate" \in Steps /\ "begin" \in Steps
  BY DEF Steps
<1>3. CASE Block(r).key \in Keys(table)
  <2>. DEFINE k == NextBlock(r, "estimate", "begin")
              l == [k EXCEPT !.cached = @ + Block(r).token_count]
  <2>1. Goto(r, l)
    BY <1>3 DEF EstimateBlock
  <2>2. /\ k \in Locals /\ k.pc = (IF IsLast(r) THEN "begin" ELSE "estimate") /\ k.i = NextI(r)
        /\ k.prompt = thread[r].prompt /\ k.cached = thread[r].cached
        /\ k.reused = thread[r].reused /\ k.seen = thread[r].seen
        /\ k.original_condition = thread[r].original_condition
        /\ k.table = thread[r].table /\ k.sum = thread[r].sum
        /\ k.mutated = thread[r].mutated /\ k.raised = thread[r].raised
    BY <1>2, NextBlockFacts
  <2>. HIDE DEF k
  <2>3. /\ l \in Locals /\ l.pc = k.pc /\ l.i = k.i /\ l.prompt = k.prompt
        /\ l.cached = k.cached + Block(r).token_count /\ l.reused = k.reused /\ l.seen = k.seen
        /\ l.original_condition = k.original_condition /\ l.table = k.table /\ l.sum = k.sum
        /\ l.mutated = k.mutated /\ l.raised = k.raised
    <3>1. Block(r).token_count \in Nat
      BY BlockFacts
    <3>2. k.cached + Block(r).token_count \in Nat
      BY <2>2, <3>1 DEF Locals
    <3>. QED  BY <2>2, <3>2 DEF Locals
  <2>. HIDE DEF l
  <2>4. Acts(r, l)
    BY <2>1, <2>3, GotoActs DEF TypeInv
  <2>. QED
    BY <1>1, <1>3, <2>2, <2>3, <2>4 DEF Acts, Moves, KeepsCondition, KeepsEviction
<1>4. CASE Block(r).key \notin Keys(table)
  <2>1. Goto(r, LeaveLoop(r, "begin"))
    BY <1>4 DEF EstimateBlock
  <2>2. Acts(r, LeaveLoop(r, "begin"))
    BY <1>2, <2>1, BlockFacts, LeaveLoopFacts, GotoActs DEF TypeInv
  <2>. QED
    BY <1>1, <1>2, <1>4, <2>2, BlockFacts, LeaveLoopFacts
    DEF Acts, Moves, KeepsCondition, KeepsEviction
<1>. QED  BY <1>3, <1>4

\* copy_on_write saves the condition.
LEMMA BeginStep ==
    ASSUME TypeInv, NEW r \in Threads, BeginObserve(r)
    PROVE  /\ thread[r].pc = "begin"
           /\ \/ /\ config.model = "copy_on_write" /\ condition # "prefix_disabled"
                 /\ Moves(r, IF condition = "cold" THEN "reset" ELSE "super", thread[r].i)
                 /\ thread'[r].original_condition = condition
              \/ /\ ~(config.model = "copy_on_write" /\ condition # "prefix_disabled")
                 /\ Moves(r, "super", thread[r].i)
                 /\ KeepsCondition(r)
           /\ KeepsCounts(r) /\ KeepsEviction(r)
           /\ UNCHANGED <<config, condition, tables, Counters>>
<1>1. thread[r].pc = "begin" /\ UNCHANGED <<config, condition, tables, Counters>>
  BY DEF BeginObserve, At, UNCHANGED_Counters, Counters
<1>2. CASE config.model = "copy_on_write" /\ condition # "prefix_disabled"
  <2>. DEFINE pc == IF condition = "cold" THEN "reset" ELSE "super"
              k == To(r, pc)
              l == [k EXCEPT !.original_condition = condition]
  <2>1. pc \in Steps /\ Goto(r, l) /\ condition \in Conditions
    <3>1. condition \in Conditions
      BY DEF TypeInv
    <3>2. Goto(r, l)
      BY <1>2 DEF BeginObserve
    <3>. QED  BY <3>1, <3>2 DEF Steps
  <2>. HIDE DEF pc
  <2>2. k \in Locals /\ k.pc = pc
        /\ k.prompt = thread[r].prompt /\ k.i = thread[r].i /\ k.cached = thread[r].cached
        /\ k.reused = thread[r].reused /\ k.seen = thread[r].seen
        /\ k.table = thread[r].table /\ k.sum = thread[r].sum
        /\ k.mutated = thread[r].mutated /\ k.raised = thread[r].raised
    BY <2>1, BlockFacts, ToFacts
  <2>. HIDE DEF k
  <2>3. /\ l \in Locals /\ l.pc = k.pc /\ l.i = k.i /\ l.prompt = k.prompt
        /\ l.cached = k.cached /\ l.reused = k.reused /\ l.seen = k.seen
        /\ l.original_condition = condition /\ l.table = k.table /\ l.sum = k.sum
        /\ l.mutated = k.mutated /\ l.raised = k.raised
    BY <2>1, <2>2 DEF Locals
  <2>. HIDE DEF l
  <2>4. Acts(r, l)
    BY <2>1, <2>3, GotoActs DEF TypeInv
  <2>. QED
    BY <1>1, <1>2, <2>2, <2>3, <2>4 DEF Acts, Moves, KeepsCounts, KeepsEviction, pc
<1>3. CASE ~(config.model = "copy_on_write" /\ condition # "prefix_disabled")
  <2>1. Goto(r, To(r, "super")) /\ "super" \in Steps
    BY <1>3 DEF BeginObserve, Steps
  <2>2. Acts(r, To(r, "super"))
    BY <2>1, BlockFacts, ToFacts, GotoActs DEF TypeInv
  <2>. QED
    BY <1>1, <1>3, <2>1, <2>2, BlockFacts, ToFacts
    DEF Acts, Moves, KeepsCounts, KeepsCondition, KeepsEviction
<1>. QED  BY <1>2, <1>3

\* The table is a new one.
LEMMA ResetStep ==
    ASSUME TypeInv, NEW r \in Threads, ResetStorage(r)
    PROVE  /\ \/ thread[r].pc = "reset" /\ Moves(r, "toggle", thread[r].i)
              \/ thread[r].pc = "super_reset" /\ Moves(r, "lookup", thread[r].i)
           /\ KeepsCounts(r) /\ KeepsCondition(r) /\ KeepsEviction(r)
           /\ tables' = Append(tables, EmptyTable)
           /\ UNCHANGED <<config, condition, Counters>>
<1>1. tables' = Append(tables, EmptyTable) /\ UNCHANGED <<config, condition, Counters>>
  BY DEF ResetStorage, UNCHANGED_Counters, Counters
<1>2. \/ thread[r].pc = "reset" /\ Goto(r, To(r, "toggle"))
      \/ thread[r].pc = "super_reset" /\ Goto(r, To(r, "lookup"))
  BY DEF ResetStorage, At
<1>3. "toggle" \in Steps /\ "lookup" \in Steps
  BY DEF Steps
<1>4. CASE thread[r].pc = "reset" /\ Goto(r, To(r, "toggle"))
  <2>1. Acts(r, To(r, "toggle"))
    BY <1>3, <1>4, BlockFacts, ToFacts, GotoActs DEF TypeInv
  <2>. QED
    BY <1>1, <1>3, <1>4, <2>1, BlockFacts, ToFacts
    DEF Acts, Moves, KeepsCounts, KeepsCondition, KeepsEviction
<1>5. CASE thread[r].pc = "super_reset" /\ Goto(r, To(r, "lookup"))
  <2>1. Acts(r, To(r, "lookup"))
    BY <1>3, <1>5, BlockFacts, ToFacts, GotoActs DEF TypeInv
  <2>. QED
    BY <1>1, <1>3, <1>5, <2>1, BlockFacts, ToFacts
    DEF Acts, Moves, KeepsCounts, KeepsCondition, KeepsEviction
<1>. QED  BY <1>2, <1>4, <1>5

\* copy_on_write makes a cold observation warm.
LEMMA ToggleStep ==
    ASSUME TypeInv, NEW r \in Threads, ToggleCondition(r)
    PROVE  /\ thread[r].pc = "toggle" /\ Moves(r, "super", thread[r].i)
           /\ KeepsCounts(r) /\ KeepsCondition(r) /\ KeepsEviction(r)
           /\ condition' = "warm"
           /\ UNCHANGED <<config, tables, Counters>>
<1>1. /\ thread[r].pc = "toggle" /\ Goto(r, To(r, "super")) /\ condition' = "warm"
      /\ UNCHANGED <<config, tables, Counters>>
  BY DEF ToggleCondition, At, UNCHANGED_Counters, Counters
<1>2. "super" \in Steps
  BY DEF Steps
<1>3. Acts(r, To(r, "super"))
  BY <1>1, <1>2, BlockFacts, ToFacts, GotoActs DEF TypeInv
<1>. QED
  BY <1>1, <1>2, <1>3, BlockFacts, ToFacts
  DEF Acts, Moves, KeepsCounts, KeepsCondition, KeepsEviction

\* The condition decides what the observation does.
LEMMA EnterStep ==
    ASSUME TypeInv, NEW r \in Threads, EnterSuper(r)
    PROVE  /\ thread[r].pc = "super"
           /\ \/ condition = "prefix_disabled" /\ Moves(r, "count", thread[r].i)
              \/ condition = "cold" /\ Moves(r, "super_reset", thread[r].i)
              \/ condition = "warm" /\ Moves(r, "lookup", thread[r].i)
           /\ KeepsCounts(r) /\ KeepsCondition(r) /\ KeepsEviction(r)
           /\ UNCHANGED <<config, condition, tables, Counters>>
<1>. DEFINE pc == CASE condition = "prefix_disabled" -> "count"
                    [] condition = "cold" -> "super_reset"
                    [] OTHER -> "lookup"
<1>1. /\ thread[r].pc = "super" /\ Goto(r, To(r, pc))
      /\ UNCHANGED <<config, condition, tables, Counters>>
  BY DEF EnterSuper, At, UNCHANGED_Counters, Counters
<1>2. \/ condition = "prefix_disabled" /\ pc = "count"
      \/ condition = "cold" /\ pc = "super_reset"
      \/ condition = "warm" /\ pc = "lookup"
  BY DEF TypeInv, Conditions
<1>. HIDE DEF pc
<1>3. pc \in Steps
  BY <1>2 DEF Steps
<1>4. Acts(r, To(r, pc))
  BY <1>1, <1>3, BlockFacts, ToFacts, GotoActs DEF TypeInv
<1>5. Moves(r, pc, thread[r].i) /\ KeepsCounts(r) /\ KeepsCondition(r) /\ KeepsEviction(r)
  BY <1>3, <1>4, BlockFacts, ToFacts
  DEF Acts, Moves, KeepsCounts, KeepsCondition, KeepsEviction
<1>. QED  BY <1>1, <1>2, <1>5

\* A hit goes on with the next block, a miss ends the lookup; no key comes or goes.
LEMMA LookupStep ==
    ASSUME TypeInv, NEW r \in Threads, LookupBlock(r)
    PROVE  /\ thread[r].pc = "lookup"
           /\ \/ /\ Block(r).key \in Keys(table)
                 /\ Moves(r, IF IsLast(r) THEN "count" ELSE "lookup", NextI(r))
                 /\ thread'[r].reused = thread[r].reused + Block(r).token_count
              \/ /\ Block(r).key \notin Keys(table)
                 /\ Moves(r, "count", 1)
                 /\ thread'[r].reused = thread[r].reused
           /\ thread'[r].cached = thread[r].cached /\ thread'[r].seen = thread[r].seen
           /\ KeepsCondition(r) /\ KeepsEviction(r)
           /\ tables' \in Seq(Good(Blocks)) /\ Len(tables') = Len(tables)
           /\ table' = contains(table, Block(r))
           /\ UNCHANGED <<config, condition, Counters>>
<1>1. thread[r].pc = "lookup" /\ UNCHANGED <<config, condition, Counters>>
  BY DEF LookupBlock, At, UNCHANGED_Counters, Counters
<1>2. "lookup" \in Steps /\ "count" \in Steps
  BY DEF Steps
<1>3. /\ contains(table, Block(r)) \in Good(Blocks) /\ Len(tables) \in 1 .. Len(tables)
      /\ Block(r).token_count \in Nat
  <2>1. BlockSet(Blocks)
    BY PromptFacts DEF TypeInv
  <2>2. table \in Good(Blocks) /\ Block(r) \in Blocks /\ Len(tables) \in Nat \ {0}
        /\ Block(r).token_count \in Nat
    BY BlockFacts
  <2>. QED  BY <2>1, <2>2, ContainsKeeps
<1>4. CASE Block(r).key \in Keys(table)
  <2>. DEFINE k == NextBlock(r, "lookup", "count")
              l == [k EXCEPT !.reused = @ + Block(r).token_count]
  <2>1. ChangeTable(Len(tables), contains(table, Block(r)), r, l)
    BY <1>4 DEF LookupBlock
  <2>2. /\ k \in Locals /\ k.pc = (IF IsLast(r) THEN "count" ELSE "lookup") /\ k.i = NextI(r)
        /\ k.prompt = thread[r].prompt /\ k.cached = thread[r].cached
        /\ k.reused = thread[r].reused /\ k.seen = thread[r].seen
        /\ k.original_condition = thread[r].original_condition
        /\ k.table = thread[r].table /\ k.sum = thread[r].sum
        /\ k.mutated = thread[r].mutated /\ k.raised = thread[r].raised
    BY <1>2, NextBlockFacts
  <2>. HIDE DEF k
  <2>3. /\ l \in Locals /\ l.pc = k.pc /\ l.i = k.i /\ l.prompt = k.prompt
        /\ l.cached = k.cached /\ l.reused = k.reused + Block(r).token_count /\ l.seen = k.seen
        /\ l.original_condition = k.original_condition /\ l.table = k.table /\ l.sum = k.sum
        /\ l.mutated = k.mutated /\ l.raised = k.raised
    <3>1. k.reused + Block(r).token_count \in Nat
      BY <1>3, <2>2 DEF Locals
    <3>. QED  BY <2>2, <3>1 DEF Locals
  <2>. HIDE DEF l
  <2>4. /\ Acts(r, l)
        /\ tables' \in Seq(Good(Blocks)) /\ Len(tables') = Len(tables)
        /\ tables'[Len(tables)] = contains(table, Block(r))
    BY <1>3, <2>1, <2>3, ChangeTableActs
  <2>. QED
    BY <1>1, <1>4, <2>2, <2>3, <2>4 DEF Acts, Moves, KeepsCondition, KeepsEviction, table, Last
<1>5. CASE Block(r).key \notin Keys(table)
  <2>1. ChangeTable(Len(tables), contains(table, Block(r)), r, LeaveLoop(r, "count"))
    BY <1>5 DEF LookupBlock
  <2>2. LeaveLoop(r, "count") \in Locals
    BY <1>2, BlockFacts, LeaveLoopFacts
  <2>3. /\ Acts(r, LeaveLoop(r, "count"))
        /\ tables' \in Seq(Good(Blocks)) /\ Len(tables') = Len(tables)
        /\ tables'[Len(tables)] = contains(table, Block(r))
    BY <1>3, <2>1, <2>2, ChangeTableActs
  <2>. QED
    BY <1>1, <1>2, <1>5, <2>3, BlockFacts, LeaveLoopFacts
    DEF Acts, Moves, KeepsCondition, KeepsEviction, table, Last
<1>. QED  BY <1>4, <1>5

\* The request is counted, and the total read.
LEMMA CountStep ==
    ASSUME TypeInv, NEW r \in Threads, CountRequest(r)
    PROVE  /\ thread[r].pc = "count" /\ Moves(r, "total", thread[r].i)
           /\ thread'[r].cached = thread[r].cached /\ thread'[r].reused = thread[r].reused
           /\ thread'[r].seen = total_prompt_tokens
           /\ KeepsCondition(r) /\ KeepsEviction(r)
           /\ request_count' = request_count + 1
           /\ UNCHANGED <<config, condition, tables, total_prompt_tokens,
                          total_cached_prefix_tokens>>
<1>. DEFINE k == To(r, "total")
            l == [k EXCEPT !.seen = total_prompt_tokens]
<1>1. /\ thread[r].pc = "count" /\ Goto(r, l) /\ request_count' = request_count + 1
      /\ UNCHANGED <<config, condition, tables, total_prompt_tokens, total_cached_prefix_tokens>>
  BY DEF CountRequest, At
<1>2. "total" \in Steps /\ total_prompt_tokens \in Nat
  BY DEF Steps, TypeInv
<1>3. k \in Locals /\ k.pc = "total"
      /\ k.prompt = thread[r].prompt /\ k.i = thread[r].i /\ k.cached = thread[r].cached
      /\ k.reused = thread[r].reused
      /\ k.original_condition = thread[r].original_condition
      /\ k.table = thread[r].table /\ k.sum = thread[r].sum
      /\ k.mutated = thread[r].mutated /\ k.raised = thread[r].raised
  BY <1>2, BlockFacts, ToFacts
<1>. HIDE DEF k
<1>4. /\ l \in Locals /\ l.pc = k.pc /\ l.i = k.i /\ l.prompt = k.prompt
      /\ l.cached = k.cached /\ l.reused = k.reused /\ l.seen = total_prompt_tokens
      /\ l.original_condition = k.original_condition /\ l.table = k.table /\ l.sum = k.sum
      /\ l.mutated = k.mutated /\ l.raised = k.raised
  BY <1>2, <1>3 DEF Locals
<1>. HIDE DEF l
<1>5. Acts(r, l)
  BY <1>1, <1>4, GotoActs DEF TypeInv
<1>. QED
  BY <1>1, <1>3, <1>4, <1>5 DEF Acts, Moves, KeepsCondition, KeepsEviction

\* The totals are written.
LEMMA TotalStep ==
    ASSUME TypeInv, NEW r \in Threads, AddTotals(r)
    PROVE  /\ thread[r].pc = "total"
           /\ Moves(r, IF config.condition = "prefix_disabled" THEN "done" ELSE "store",
                    thread[r].i)
           /\ thread'[r].cached = thread[r].cached /\ thread'[r].reused = 0
           /\ KeepsCondition(r) /\ KeepsEviction(r)
           /\ total_prompt_tokens' = thread[r].seen + TokensOf(thread[r].prompt)
           /\ total_cached_prefix_tokens' = total_cached_prefix_tokens + thread[r].reused
           /\ UNCHANGED <<config, condition, tables, request_count>>
<1>. DEFINE pc == IF config.condition = "prefix_disabled" THEN "done" ELSE "store"
            k == To(r, pc)
            l == [k EXCEPT !.seen = 0, !.reused = 0]
<1>1. /\ thread[r].pc = "total" /\ Goto(r, l)
      /\ total_prompt_tokens' = thread[r].seen + TokensOf(thread[r].prompt)
      /\ total_cached_prefix_tokens' = total_cached_prefix_tokens + thread[r].reused
      /\ UNCHANGED <<config, condition, tables, request_count>>
  BY DEF AddTotals, At
<1>2. pc \in Steps
  BY DEF Steps
<1>. HIDE DEF pc
<1>3. k \in Locals /\ k.pc = pc
      /\ k.prompt = thread[r].prompt /\ k.i = thread[r].i /\ k.cached = thread[r].cached
      /\ k.original_condition = thread[r].original_condition
      /\ k.table = thread[r].table /\ k.sum = thread[r].sum
      /\ k.mutated = thread[r].mutated /\ k.raised = thread[r].raised
  BY <1>2, BlockFacts, ToFacts
<1>. HIDE DEF k
<1>4. /\ l \in Locals /\ l.pc = k.pc /\ l.i = k.i /\ l.prompt = k.prompt
      /\ l.cached = k.cached /\ l.reused = 0
      /\ l.original_condition = k.original_condition /\ l.table = k.table /\ l.sum = k.sum
      /\ l.mutated = k.mutated /\ l.raised = k.raised
  BY <1>3 DEF Locals
<1>. HIDE DEF l
<1>5. Acts(r, l)
  BY <1>1, <1>4, GotoActs DEF TypeInv
<1>. QED
  BY <1>1, <1>3, <1>4, <1>5 DEF Acts, Moves, KeepsCondition, KeepsEviction, pc

\* What is known of the table when its number n is changed.
LEMMA TableChange ==
    ASSUME TypeInv, NEW n \in 1 .. Len(tables),
           NEW changed \in Good(Blocks), tables' \in Seq(Good(Blocks)), Len(tables') = Len(tables),
           tables'[n] = changed,
           \A k \in 1 .. Len(tables) : k # n => tables'[k] = tables[k]
    PROVE  table' = IF n = Len(tables) THEN changed ELSE table
<1>1. Len(tables) \in Nat \ {0}
  BY BlockFacts DEF TypeInv
<1>. QED  BY <1>1 DEF table, Last

\* Without a budget the block is in the table afterwards.
LEMMA StoreStep ==
    ASSUME TypeInv, NEW r \in Threads, StoreBlock(r)
    PROVE  /\ thread[r].pc = "store"
           /\ \/ /\ Moves(r, IF IsLast(r) THEN AfterStore(r) ELSE "store", NextI(r))
                 /\ KeepsEviction(r)
                 /\ \/ /\ config.budget # NoBudget
                       /\ Keys(table') = Keys(table)
                    \/ Keys(table') = Keys(table) /\ Block(r).key \in Keys(table)
                    \/ /\ config.budget = NoBudget
                       /\ Keys(table') = Keys(table) \cup {Block(r).key}
                 /\ config.budget # NoBudget => cached_tokens(table') = cached_tokens(table)
              \/ /\ config.budget # NoBudget
                 /\ Moves(r, "evict", thread[r].i)
                 /\ thread'[r].table = Len(tables) /\ thread'[r].sum = thread[r].sum
                 /\ thread'[r].mutated = thread[r].mutated /\ thread'[r].raised = thread[r].raised
                 /\ Keys(table') = Keys(table) \cup {Block(r).key}
           /\ KeepsCounts(r) /\ KeepsCondition(r)
           /\ tables' \in Seq(Good(Blocks)) /\ Len(tables') = Len(tables)
           /\ UNCHANGED <<config, condition, Counters>>
<1>. DEFINE n == Len(tables)
            b == Block(r)
            skip == config.budget # NoBudget /\ b.token_count > config.budget
            after == AfterStore(r)
            next == NextBlock(r, "store", after)
            l == [To(r, "evict") EXCEPT !.table = n]
<1>1. thread[r].pc = "store" /\ UNCHANGED <<config, condition, Counters>>
  BY DEF StoreBlock, At, UNCHANGED_Counters, Counters
<1>2. \/ skip /\ Goto(r, next) /\ UNCHANGED tables
      \/ ~skip /\ b.key \in Keys(table) /\ ChangeTable(n, move_to_end(table, b), r, next)
      \/ /\ ~skip /\ b.key \notin Keys(table) /\ config.budget = NoBudget
         /\ ChangeTable(n, Insert(table, b), r, next)
      \/ /\ ~skip /\ b.key \notin Keys(table) /\ config.budget # NoBudget
         /\ ChangeTable(n, Insert(table, b), r, l)
  BY DEF StoreBlock
<1>3. /\ "store" \in Steps /\ after \in Steps /\ "evict" \in Steps
      /\ thread[r] \in Locals /\ thread[r].i \in 1 .. Len(thread[r].prompt)
      /\ Block(r) \in Blocks /\ table \in Good(Blocks) /\ n \in Nat \ {0} /\ n \in 1 .. Len(tables)
      /\ BlockSet(Blocks)
  <2>1. BlockSet(Blocks)
    BY PromptFacts DEF TypeInv
  <2>2. after \in {"restore", "done"}
    BY BlockFacts
  <2>. QED  BY <2>1, <2>2, BlockFacts DEF Steps
<1>4. /\ next \in Locals /\ next.pc = (IF IsLast(r) THEN after ELSE "store") /\ next.i = NextI(r)
      /\ next.prompt = thread[r].prompt /\ next.cached = thread[r].cached
      /\ next.reused = thread[r].reused /\ next.seen = thread[r].seen
      /\ next.original_condition = thread[r].original_condition
      /\ next.table = thread[r].table /\ next.sum = thread[r].sum
      /\ next.mutated = thread[r].mutated /\ next.raised = thread[r].raised
  BY <1>3, NextBlockFacts
<1>5. ASSUME Acts(r, next)
      PROVE  /\ Moves(r, IF IsLast(r) THEN AfterStore(r) ELSE "store", NextI(r))
             /\ KeepsEviction(r) /\ KeepsCounts(r) /\ KeepsCondition(r)
  <2>. HIDE DEF next
  <2>. QED
    BY <1>4, <1>5 DEF Acts, Moves, KeepsEviction, KeepsCounts, KeepsCondition
<1>. HIDE DEF next, skip
<1>6. CASE skip /\ Goto(r, next) /\ UNCHANGED tables
  <2>1. Acts(r, next)
    BY <1>4, <1>6, GotoActs DEF TypeInv
  <2>2. config.budget # NoBudget /\ table' = table /\ tables' \in Seq(Good(Blocks))
        /\ Len(tables') = Len(tables)
    BY <1>6 DEF skip, table, TypeInv
  <2>. QED  BY <1>1, <1>5, <2>1, <2>2
<1>7. CASE ~skip /\ b.key \in Keys(table) /\ ChangeTable(n, move_to_end(table, b), r, next)
  <2>. DEFINE u == move_to_end(table, b)
  <2>1. u \in Good(Blocks) /\ Keys(u) = Keys(table) /\ cached_tokens(u) = cached_tokens(table)
    BY <1>3, <1>7, MoveKeeps
  <2>. HIDE DEF u
  <2>2. ChangeTable(n, u, r, next)
    BY <1>7 DEF u
  <2>3. /\ Acts(r, next) /\ tables' \in Seq(Good(Blocks)) /\ Len(tables') = Len(tables)
        /\ tables'[n] = u /\ \A k \in 1 .. Len(tables) : k # n => tables'[k] = tables[k]
    BY <1>3, <1>4, <2>1, <2>2, ChangeTableActs
  <2>4. table' = u
    BY <1>3, <2>1, <2>3, TableChange
  <2>. QED  BY <1>1, <1>5, <1>7, <2>1, <2>3, <2>4
<1>. DEFINE v == Insert(table, b)
<1>8. ASSUME b.key \notin Keys(table)
      PROVE  v \in Good(Blocks) /\ Keys(v) = Keys(table) \cup {b.key}
  BY <1>3, <1>8, InsertKeeps
<1>. HIDE DEF v
<1>9. CASE /\ ~skip /\ b.key \notin Keys(table) /\ config.budget = NoBudget
           /\ ChangeTable(n, Insert(table, b), r, next)
  <2>1. ChangeTable(n, v, r, next)
    BY <1>9 DEF v
  <2>2. /\ Acts(r, next) /\ tables' \in Seq(Good(Blocks)) /\ Len(tables') = Len(tables)
        /\ tables'[n] = v /\ \A k \in 1 .. Len(tables) : k # n => tables'[k] = tables[k]
    BY <1>3, <1>4, <1>8, <1>9, <2>1, ChangeTableActs
  <2>3. table' = v
    BY <1>3, <1>8, <1>9, <2>2, TableChange
  <2>. QED  BY <1>1, <1>5, <1>8, <1>9, <2>2, <2>3
<1>10. CASE /\ ~skip /\ b.key \notin Keys(table) /\ config.budget # NoBudget
            /\ ChangeTable(n, Insert(table, b), r, l)
  <2>. DEFINE k == To(r, "evict")
  <2>1. /\ k \in Locals /\ k.pc = "evict"
        /\ k.prompt = thread[r].prompt /\ k.i = thread[r].i /\ k.cached = thread[r].cached
        /\ k.reused = thread[r].reused /\ k.seen = thread[r].seen
        /\ k.original_condition = thread[r].original_condition
        /\ k.sum = thread[r].sum
        /\ k.mutated = thread[r].mutated /\ k.raised = thread[r].raised
    BY <1>3, ToFacts
  <2>. HIDE DEF k
  <2>2. l = [k EXCEPT !.table = n]
    BY DEF k
  <2>. HIDE DEF l, n
  <2>3. /\ l \in Locals /\ l.pc = k.pc /\ l.i = k.i /\ l.prompt = k.prompt
        /\ l.cached = k.cached /\ l.reused = k.reused /\ l.seen = k.seen
        /\ l.original_condition = k.original_condition /\ l.table = n /\ l.sum = k.sum
        /\ l.mutated = k.mutated /\ l.raised = k.raised
    BY <1>3, <2>1, <2>2 DEF Locals
  <2>4. ChangeTable(n, v, r, l)
    BY <1>10 DEF v, l, n
  <2>5. /\ Acts(r, l) /\ tables' \in Seq(Good(Blocks)) /\ Len(tables') = Len(tables)
        /\ tables'[n] = v /\ \A j \in 1 .. Len(tables) : j # n => tables'[j] = tables[j]
    BY <1>3, <1>8, <1>10, <2>3, <2>4, ChangeTableActs
  <2>6. table' = v
    BY <1>3, <1>8, <1>10, <2>5, TableChange DEF n
  <2>7. /\ Moves(r, "evict", thread[r].i) /\ KeepsCounts(r) /\ KeepsCondition(r)
        /\ thread'[r].table = n /\ thread'[r].sum = thread[r].sum
        /\ thread'[r].mutated = thread[r].mutated /\ thread'[r].raised = thread[r].raised
    BY <2>1, <2>3, <2>5 DEF Acts, Moves, KeepsCounts, KeepsCondition
  <2>. QED  BY <1>1, <1>8, <1>10, <2>5, <2>6, <2>7 DEF n
<1>. QED  BY <1>2, <1>6, <1>7, <1>9, <1>10

\* cached_tokens() of the table that r evicts from.
LEMMA BeginSumStep ==
    ASSUME TypeInv, NEW r \in Threads, BeginSum(r)
    PROVE  /\ thread[r].pc = "evict" /\ Moves(r, "sum", thread[r].i)
           /\ thread'[r].table = thread[r].table
           /\ thread'[r].sum = cached_tokens(tables[thread[r].table])
           /\ thread'[r].mutated = FALSE /\ thread'[r].raised = thread[r].raised
           /\ KeepsCounts(r) /\ KeepsCondition(r)
           /\ UNCHANGED <<config, condition, tables, Counters>>
<1>. DEFINE k == To(r, "sum")
            n == cached_tokens(tables[thread[r].table])
            l == [k EXCEPT !.sum = n, !.mutated = FALSE]
<1>1. /\ thread[r].pc = "evict" /\ Goto(r, l)
      /\ UNCHANGED <<config, condition, tables, Counters>>
  BY DEF BeginSum, At, UNCHANGED_Counters, Counters
<1>2. n \in Nat
  <2>1. thread[r].table \in 1 .. Len(tables) /\ tables \in Seq(Good(Blocks))
    BY <1>1 DEF TypeInv, InPc
  <2>2. tables[thread[r].table] \in Good(Blocks)
    BY <2>1, ElementOfSeq
  <2>3. BlockSet(Blocks)
    BY PromptFacts DEF TypeInv
  <2>. QED  BY <2>2, <2>3, GoodFacts
<1>. HIDE DEF n
<1>3. k \in Locals /\ k.pc = "sum"
      /\ k.prompt = thread[r].prompt /\ k.i = thread[r].i /\ k.cached = thread[r].cached
      /\ k.reused = thread[r].reused /\ k.seen = thread[r].seen
      /\ k.original_condition = thread[r].original_condition
      /\ k.table = thread[r].table /\ k.raised = thread[r].raised
  <2>1. "sum" \in Steps
    BY DEF Steps
  <2>. QED  BY <2>1, BlockFacts, ToFacts
<1>. HIDE DEF k
<1>4. /\ l \in Locals /\ l.pc = k.pc /\ l.i = k.i /\ l.prompt = k.prompt
      /\ l.cached = k.cached /\ l.reused = k.reused /\ l.seen = k.seen
      /\ l.original_condition = k.original_condition /\ l.table = k.table /\ l.sum = n
      /\ l.mutated = FALSE /\ l.raised = k.raised
  BY <1>2, <1>3 DEF Locals
<1>. HIDE DEF l
<1>5. Acts(r, l)
  BY <1>1, <1>4, GotoActs DEF TypeInv
<1>. QED
  BY <1>1, <1>3, <1>4, <1>5 DEF Acts, Moves, KeepsCounts, KeepsCondition, n

\* An eviction takes keys and tokens away.
LEMMA EvictOneKeeps ==
    ASSUME NEW B, BlockSet(B), NEW t \in Good(B), t.blocks # <<>>
    PROVE  LET u == EvictOne(t)
           IN  /\ u \in Good(B)
               /\ Keys(u) \subseteq Keys(t)
               /\ cached_tokens(u) <= cached_tokens(t)
<1>. DEFINE s == t.blocks
            n == Len(s)
            a == Tail(s)
            c == t.eviction_count + 1
            e == t.evicted_token_count + Head(s).token_count
            u == EvictOne(t)
<1>1. /\ t \in Tables(B) /\ KeysDiffer(t) /\ s \in Seq(B) /\ n \in Nat
      /\ \A i \in 1 .. n : s[i] \in B
      /\ t.eviction_count \in Nat /\ t.evicted_token_count \in Nat
  BY GoodFacts
<1>2. 1 \in 0 .. n /\ 1 \in 1 .. n
  BY <1>1, EmptySeq
<1>3. a = SubSeq(s, 1 + 1, n) /\ Head(s) = s[1]
  BY <1>1, TailIsSubSeq, HeadTailProperties
<1>4. /\ a \in Seq(B) /\ Len(a) = n - 1
      /\ \A i \in 1 .. n - 1 : a[i] = s[1 + i]
  BY <1>1, <1>2, <1>3, SuffixFacts
<1>5. TokensOf(a) \in Nat /\ TokensOf(a) <= TokensOf(s)
  <2>1. /\ TokensOf(SubSeq(s, 1, 1)) \in Nat /\ TokensOf(SubSeq(s, 1 + 1, n)) \in Nat
        /\ TokensOf(s) = TokensOf(SubSeq(s, 1, 1)) + TokensOf(SubSeq(s, 1 + 1, n))
    BY <1>1, <1>2, TokensOfSplit DEF BlockSet
  <2>. DEFINE x == SubSeq(s, 1 + 1, n)
  <2>2. a = x /\ TokensOf(x) \in Nat /\ TokensOf(x) <= TokensOf(s)
    BY <1>3, <2>1
  <2>. HIDE DEF x, a
  <2>. QED  BY <2>2
<1>6. c \in Nat /\ e \in Nat
  BY <1>1, <1>2, <1>3 DEF BlockSet
<1>7. u = [t EXCEPT !.blocks = a, !.eviction_count = c, !.evicted_token_count = e]
  BY <1>1 DEF EvictOne, Tables
<1>. HIDE DEF a, c, e, u
<1>8. u \in Tables(B) /\ u.blocks = a
  BY <1>1, <1>4, <1>6, <1>7 DEF Tables
<1>9. KeysDiffer(u)
  <2>. SUFFICES ASSUME NEW i \in 1 .. n - 1, NEW j \in 1 .. n - 1, a[i].key = a[j].key
                PROVE  i = j
    BY <1>4, <1>8 DEF KeysDiffer
  <2>1. 1 + i \in 1 .. n /\ 1 + j \in 1 .. n /\ s[1 + i].key = s[1 + j].key
    BY <1>1, <1>4
  <2>2. 1 + i = 1 + j
    BY <1>1, <2>1 DEF KeysDiffer
  <2>. QED  BY <1>1, <2>2
<1>10. Keys(u) \subseteq Keys(t)
  <2>1. ASSUME NEW i \in 1 .. n - 1 PROVE 1 + i \in 1 .. n /\ a[i] = s[1 + i]
    BY <1>1, <1>4
  <2>. QED  BY <1>4, <1>8, <2>1 DEF Keys
<1>11. cached_tokens(u) <= cached_tokens(t)
  BY <1>5, <1>8 DEF cached_tokens
<1>. QED  BY <1>8, <1>9, <1>10, <1>11 DEF Good, u

\* The sum is over: a block goes, or the next one's turn has come.
LEMMA EndSumStep ==
    ASSUME TypeInv, NEW r \in Threads, EndSum(r)
    PROVE  /\ thread[r].pc = "sum"
           /\ LET t == tables[thread[r].table]
              IN  \/ /\ thread[r].sum > config.budget /\ t.blocks # <<>>
                     /\ Moves(r, "evict", thread[r].i)
                     /\ thread'[r].table = thread[r].table
                     /\ Keys(table') \subseteq Keys(table)
                     /\ cached_tokens(table') <= cached_tokens(table)
                  \/ /\ ~(thread[r].sum > config.budget /\ t.blocks # <<>>)
                     /\ Moves(r, IF IsLast(r) THEN AfterStore(r) ELSE "store", NextI(r))
                     /\ UNCHANGED tables
           /\ thread'[r].mutated = FALSE /\ thread'[r].raised = thread[r].raised
           /\ KeepsCounts(r) /\ KeepsCondition(r)
           /\ tables' \in Seq(Good(Blocks)) /\ Len(tables') = Len(tables)
           /\ UNCHANGED <<config, condition, Counters>>
<1>. DEFINE n == thread[r].table
            t == tables[n]
            over == thread[r].sum > config.budget /\ t.blocks # <<>>
            after == AfterStore(r)
            k == To(r, "evict")
            l == [k EXCEPT !.sum = 0, !.mutated = FALSE]
            next == NextBlock(r, "store", after)
<1>1. /\ thread[r].pc = "sum"
      /\ \/ over /\ ChangeTable(n, EvictOne(t), r, l)
         \/ ~over /\ Goto(r, Released(next)) /\ UNCHANGED tables
      /\ UNCHANGED <<config, condition, Counters>>
  BY DEF EndSum, At, UNCHANGED_Counters, Counters
<1>2. /\ n \in 1 .. Len(tables) /\ tables \in Seq(Good(Blocks)) /\ BlockSet(Blocks)
      /\ Len(tables) \in Nat \ {0}
  <2>1. BlockSet(Blocks)
    BY PromptFacts DEF TypeInv
  <2>. QED  BY <1>1, <2>1, BlockFacts DEF TypeInv, InPc
<1>3. t \in Good(Blocks)
  BY <1>2, ElementOfSeq
<1>4. thread[r] \in Locals /\ "evict" \in Steps /\ "store" \in Steps /\ after \in Steps
  BY BlockFacts DEF Steps
<1>5. CASE over
  <2>1. k \in Locals /\ k.pc = "evict"
        /\ k.prompt = thread[r].prompt /\ k.i = thread[r].i /\ k.cached = thread[r].cached
        /\ k.reused = thread[r].reused /\ k.seen = thread[r].seen
        /\ k.original_condition = thread[r].original_condition
        /\ k.table = n /\ k.raised = thread[r].raised
    BY <1>4, ToFacts
  <2>. DEFINE u == EvictOne(t)
  <2>2. /\ u \in Good(Blocks) /\ Keys(u) \subseteq Keys(t)
        /\ cached_tokens(u) <= cached_tokens(t)
    BY <1>2, <1>3, <1>5, EvictOneKeeps
  <2>3. ChangeTable(n, u, r, l)
    BY <1>1, <1>5
  <2>. HIDE DEF k, u
  <2>4. /\ l \in Locals /\ l.pc = k.pc /\ l.i = k.i /\ l.prompt = k.prompt
        /\ l.cached = k.cached /\ l.reused = k.reused /\ l.seen = k.seen
        /\ l.original_condition = k.original_condition /\ l.table = k.table
        /\ l.mutated = FALSE /\ l.raised = k.raised
    BY <2>1 DEF Locals
  <2>. HIDE DEF l
  <2>5. /\ Acts(r, l) /\ tables' \in Seq(Good(Blocks)) /\ Len(tables') = Len(tables)
        /\ tables'[n] = u /\ \A j \in 1 .. Len(tables) : j # n => tables'[j] = tables[j]
    BY <1>2, <2>2, <2>3, <2>4, ChangeTableActs
  <2>6. table' = IF n = Len(tables) THEN u ELSE table
    BY <1>2, <2>2, <2>5, TableChange
  <2>7. n = Len(tables) => t = table
    BY DEF table, Last
  <2>8. cached_tokens(table) \in Nat
    BY <1>2, BlockFacts, GoodFacts
  <2>. HIDE DEF n, t
  <2>9. Keys(table') \subseteq Keys(table) /\ cached_tokens(table') <= cached_tokens(table)
    BY <2>2, <2>6, <2>7, <2>8
  <2>10. /\ Moves(r, "evict", thread[r].i) /\ KeepsCounts(r) /\ KeepsCondition(r)
         /\ thread'[r].table = n /\ thread'[r].mutated = FALSE
         /\ thread'[r].raised = thread[r].raised
    BY <2>1, <2>4, <2>5 DEF Acts, Moves, KeepsCounts, KeepsCondition
  <2>. QED  BY <1>1, <1>5, <2>5, <2>9, <2>10 DEF n, t
<1>6. CASE ~over
  <2>1. /\ next \in Locals /\ next.pc = (IF IsLast(r) THEN after ELSE "store")
        /\ next.i = NextI(r)
        /\ next.prompt = thread[r].prompt /\ next.cached = thread[r].cached
        /\ next.reused = thread[r].reused /\ next.seen = thread[r].seen
        /\ next.original_condition = thread[r].original_condition
        /\ next.raised = thread[r].raised
    BY <1>4, NextBlockFacts
  <2>. DEFINE m == Released(next)
  <2>2. Goto(r, m) /\ UNCHANGED tables
    BY <1>1, <1>6
  <2>. HIDE DEF next
  <2>3. /\ m \in Locals /\ m.mutated = FALSE
        /\ m.pc = next.pc /\ m.i = next.i
        /\ m.prompt = next.prompt /\ m.cached = next.cached
        /\ m.reused = next.reused /\ m.seen = next.seen
        /\ m.original_condition = next.original_condition
        /\ m.raised = next.raised
    BY <2>1, ReleasedFacts
  <2>. HIDE DEF m
  <2>4. Acts(r, m)
    BY <2>2, <2>3, GotoActs DEF TypeInv
  <2>5. /\ Moves(r, IF IsLast(r) THEN AfterStore(r) ELSE "store", NextI(r))
        /\ KeepsCounts(r) /\ KeepsCondition(r)
        /\ thread'[r].mutated = FALSE /\ thread'[r].raised = thread[r].raised
    BY <2>1, <2>3, <2>4 DEF Acts, Moves, KeepsCounts, KeepsCondition
  <2>. QED  BY <1>1, <1>2, <1>6, <2>2, <2>5
<1>. QED  BY <1>5, <1>6

\* Only a disturbed iteration raises.
LEMMA SumRaisesStep ==
    ASSUME TypeInv, NEW r \in Threads, SumRaises(r)
    PROVE  /\ thread[r].pc = "sum" /\ thread[r].mutated
           /\ Moves(r, IF thread[r].original_condition # Unsaved THEN "restore" ELSE "failed",
                    thread[r].i)
           /\ thread'[r].mutated = FALSE /\ thread'[r].raised = TRUE
           /\ KeepsCounts(r) /\ KeepsCondition(r)
           /\ UNCHANGED <<config, condition, tables, Counters>>
<1>. DEFINE pc == IF thread[r].original_condition # Unsaved THEN "restore" ELSE "failed"
            k == To(r, pc)
            m == Released(k)
            l == [m EXCEPT !.raised = TRUE]
<1>1. /\ thread[r].pc = "sum" /\ thread[r].mutated /\ Goto(r, l)
      /\ UNCHANGED <<config, condition, tables, Counters>>
  BY DEF SumRaises, At, UNCHANGED_Counters, Counters
<1>2. pc \in Steps
  BY DEF Steps
<1>. HIDE DEF pc
<1>3. k \in Locals /\ k.pc = pc
      /\ k.prompt = thread[r].prompt /\ k.i = thread[r].i /\ k.cached = thread[r].cached
      /\ k.reused = thread[r].reused /\ k.seen = thread[r].seen
      /\ k.original_condition = thread[r].original_condition
  BY <1>2, BlockFacts, ToFacts
<1>. HIDE DEF k
<1>4. /\ m \in Locals /\ m.mutated = FALSE
      /\ m.pc = k.pc /\ m.i = k.i
      /\ m.prompt = k.prompt /\ m.cached = k.cached
      /\ m.reused = k.reused /\ m.seen = k.seen
      /\ m.original_condition = k.original_condition
  BY <1>3, ReleasedFacts
<1>. HIDE DEF m
<1>5. /\ l \in Locals /\ l.mutated = FALSE /\ l.raised = TRUE
      /\ l.pc = m.pc /\ l.i = m.i
      /\ l.prompt = m.prompt /\ l.cached = m.cached
      /\ l.reused = m.reused /\ l.seen = m.seen
      /\ l.original_condition = m.original_condition
  BY <1>4 DEF Locals
<1>. HIDE DEF l
<1>6. Acts(r, l)
  BY <1>1, <1>5, GotoActs DEF TypeInv
<1>. QED
  BY <1>1, <1>3, <1>4, <1>5, <1>6 DEF Acts, Moves, KeepsCounts, KeepsCondition, pc

\* The saved condition is restored.
LEMMA RestoreStep ==
    ASSUME TypeInv, NEW r \in Threads, RestoreCondition(r)
    PROVE  /\ thread[r].pc = "restore"
           /\ Moves(r, IF thread[r].raised THEN "failed" ELSE "done", thread[r].i)
           /\ condition' = thread[r].original_condition
           /\ KeepsCounts(r) /\ KeepsCondition(r) /\ KeepsEviction(r)
           /\ UNCHANGED <<config, tables, Counters>>
<1>. DEFINE pc == IF thread[r].raised THEN "failed" ELSE "done"
<1>1. /\ thread[r].pc = "restore" /\ Goto(r, To(r, pc))
      /\ condition' = thread[r].original_condition
      /\ UNCHANGED <<config, tables, Counters>>
  BY DEF RestoreCondition, At, UNCHANGED_Counters, Counters
<1>2. pc \in Steps
  BY DEF Steps
<1>. HIDE DEF pc
<1>3. Acts(r, To(r, pc))
  BY <1>1, <1>2, BlockFacts, ToFacts, GotoActs DEF TypeInv
<1>4. /\ Moves(r, pc, thread[r].i)
      /\ KeepsCounts(r) /\ KeepsCondition(r) /\ KeepsEviction(r)
  BY <1>2, <1>3, BlockFacts, ToFacts
  DEF Acts, Moves, KeepsCounts, KeepsCondition, KeepsEviction
<1>. QED  BY <1>1, <1>4 DEF pc

------------------------------------------------------------------------------
(***************************************************************************)
(* Types.                                                                  *)
(***************************************************************************)
\* No step changes a prompt.
PromptsKept == \A r \in Threads : thread'[r].prompt = thread[r].prompt

LEMMA BlocksKept ==
    ASSUME PromptsKept
    PROVE  Blocks' = Blocks
<1>1. {ToSet(thread'[r].prompt) : r \in Threads} = {ToSet(thread[r].prompt) : r \in Threads}
  BY DEF PromptsKept
<1>. QED  BY <1>1 DEF Blocks, Threads

\* A step that moves r and leaves the rest in its types.
LEMMA TypeKept ==
    ASSUME TypeInv, NEW r \in Threads, NEW pc \in Steps, NEW i \in 1 .. Len(thread[r].prompt),
           Moves(r, pc, i), UNCHANGED config, condition' \in Conditions,
           tables' \in Seq(Good(Blocks)), Len(tables') >= Len(tables),
           request_count' \in Nat, total_prompt_tokens' \in Nat, total_cached_prefix_tokens' \in Nat,
           pc \in {"evict", "sum"} =>
               config.budget # NoBudget /\ thread'[r].table \in 1 .. Len(tables),
           pc = "restore" => thread'[r].original_condition # Unsaved
    PROVE  TypeInv' /\ PromptsKept /\ UNCHANGED <<config, Blocks>>
<1>1. PromptsKept
  BY DEF PromptsKept, Moves, Same
<1>2. Blocks' = Blocks
  BY <1>1, BlocksKept
<1>3. PromptsInv'
  <2>1. PICK p \in Runs : \A s \in Threads : thread[s].prompt = p[s]
    BY DEF TypeInv, PromptsInv
  <2>2. \A s \in Threads : thread'[s].prompt = p[s]
    BY <1>1, <2>1 DEF PromptsKept
  <2>. QED  BY <2>2 DEF PromptsInv, Threads
<1>4. Len(tables) \in Nat /\ Len(tables') \in Nat /\ Len(tables) > 0
  BY BlockFacts, LenProperties DEF TypeInv
<1>5. thread' \in [Threads -> Locals]
  BY DEF Moves
<1>6. ASSUME NEW s \in Threads
      PROVE  /\ thread'[s].i \in 1 .. Len(thread'[s].prompt)
             /\ InPc(s, {"evict", "sum"})' =>
                    config'.budget # NoBudget /\ thread'[s].table \in 1 .. Len(tables')
             /\ InPc(s, {"restore"})' => thread'[s].original_condition # Unsaved
  <2>1. CASE s = r
    <3>1. thread'[s].i = i /\ thread'[s].prompt = thread[s].prompt /\ thread'[s].pc = pc
      BY <2>1 DEF Moves
    <3>. QED  BY <1>4, <2>1, <3>1 DEF InPc
  <2>2. CASE s # r
    <3>1. Same(s)
      BY <2>2 DEF Moves
    <3>2. /\ thread[s].i \in 1 .. Len(thread[s].prompt)
          /\ InPc(s, {"evict", "sum"}) =>
                 config.budget # NoBudget /\ thread[s].table \in 1 .. Len(tables)
          /\ InPc(s, {"restore"}) => thread[s].original_condition # Unsaved
      BY DEF TypeInv
    <3>. QED  BY <1>4, <3>1, <3>2 DEF InPc, Same
  <2>. QED  BY <2>1, <2>2
<1>7. config' \in Configs /\ tables' \in Seq(Good(Blocks')) /\ Len(tables') > 0
  BY <1>2, <1>4 DEF TypeInv
<1>8. UNCHANGED <<config, Blocks>>
  BY <1>2
<1>9. TypeInv'
  BY <1>3, <1>5, <1>6, <1>7 DEF TypeInv, InPc
<1>. QED  BY <1>1, <1>8, <1>9

LEMMA TypeStep ==
    ASSUME TypeInv, Next
    PROVE  TypeInv' /\ PromptsKept /\ UNCHANGED <<config, Blocks>>
<1>1. PICK r \in Threads : Start(r) \/ EstimateBlock(r) \/ Observe(r)
  BY DEF Next
<1>2. /\ thread[r] \in Locals /\ thread[r].i \in 1 .. Len(thread[r].prompt)
      /\ NextI(r) \in 1 .. Len(thread[r].prompt) /\ 1 \in 1 .. Len(thread[r].prompt)
      /\ condition \in Conditions /\ tables \in Seq(Good(Blocks)) /\ Len(tables) \in Nat \ {0}
      /\ request_count \in Nat /\ total_prompt_tokens \in Nat /\ total_cached_prefix_tokens \in Nat
      /\ Len(tables) \in 1 .. Len(tables) /\ Len(tables) >= Len(tables)
      /\ InPc(r, {"evict", "sum"}) =>
             config.budget # NoBudget /\ thread[r].table \in 1 .. Len(tables)
      /\ InPc(r, {"restore"}) => thread[r].original_condition # Unsaved
  BY BlockFacts DEF TypeInv
<1>3. AfterStore(r) \in Steps /\ "store" \in Steps /\ AfterStore(r) # "evict" /\ AfterStore(r) # "sum"
      /\ (AfterStore(r) = "restore" => thread[r].original_condition # Unsaved)
  BY DEF AfterStore, Steps
<1>4. CASE Start(r)
  <2>. DEFINE pc == IF condition = "warm" THEN "estimate" ELSE "begin"
  <2>1. Moves(r, pc, thread[r].i) /\ UNCHANGED <<config, condition, tables, Counters>>
    BY <1>4, StartStep
  <2>2. pc \in Steps /\ pc \notin {"evict", "sum", "restore"}
    BY DEF Steps
  <2>. HIDE DEF pc
  <2>. QED  BY <1>2, <2>1, <2>2, TypeKept DEF Counters
<1>5. CASE EstimateBlock(r)
  <2>1. PICK pc \in Steps, i \in 1 .. Len(thread[r].prompt) :
           pc \notin {"evict", "sum", "restore"} /\ Moves(r, pc, i)
    BY <1>2, <1>5, EstimateStep DEF Steps
  <2>2. UNCHANGED <<config, condition, tables, Counters>>
    BY <1>5, EstimateStep
  <2>. QED  BY <1>2, <2>1, <2>2, TypeKept DEF Counters
<1>6. CASE BeginObserve(r)
  <2>1. PICK pc \in Steps : pc \notin {"evict", "sum", "restore"} /\ Moves(r, pc, thread[r].i)
    BY <1>6, BeginStep DEF Steps
  <2>2. UNCHANGED <<config, condition, tables, Counters>>
    BY <1>6, BeginStep
  <2>. QED  BY <1>2, <2>1, <2>2, TypeKept DEF Counters
<1>7. CASE ResetStorage(r)
  <2>1. PICK pc \in Steps : pc \notin {"evict", "sum", "restore"} /\ Moves(r, pc, thread[r].i)
    BY <1>7, ResetStep DEF Steps
  <2>2. tables' = Append(tables, EmptyTable) /\ UNCHANGED <<config, condition, Counters>>
    BY <1>7, ResetStep
  <2>3. tables' \in Seq(Good(Blocks)) /\ Len(tables') >= Len(tables)
    BY <1>2, <2>2, EmptyTableGood, AppendProperties
  <2>. QED  BY <1>2, <2>1, <2>2, <2>3, TypeKept DEF Counters
<1>8. CASE ToggleCondition(r)
  <2>1. Moves(r, "super", thread[r].i) /\ "super" \in Steps /\ condition' \in Conditions
        /\ UNCHANGED <<config, tables, Counters>>
    BY <1>8, ToggleStep DEF Steps, Conditions
  <2>. QED  BY <1>2, <2>1, TypeKept DEF Counters
<1>9. CASE EnterSuper(r)
  <2>1. PICK pc \in Steps : pc \notin {"evict", "sum", "restore"} /\ Moves(r, pc, thread[r].i)
    BY <1>9, EnterStep DEF Steps
  <2>2. UNCHANGED <<config, condition, tables, Counters>>
    BY <1>9, EnterStep
  <2>. QED  BY <1>2, <2>1, <2>2, TypeKept DEF Counters
<1>10. CASE LookupBlock(r)
  <2>1. PICK pc \in Steps, i \in 1 .. Len(thread[r].prompt) :
           pc \notin {"evict", "sum", "restore"} /\ Moves(r, pc, i)
    BY <1>2, <1>10, LookupStep DEF Steps
  <2>2. /\ tables' \in Seq(Good(Blocks)) /\ Len(tables') = Len(tables)
        /\ UNCHANGED <<config, condition, Counters>>
    BY <1>10, LookupStep
  <2>. QED  BY <1>2, <2>1, <2>2, TypeKept DEF Counters
<1>11. CASE CountRequest(r)
  <2>1. /\ Moves(r, "total", thread[r].i) /\ "total" \in Steps
        /\ request_count' = request_count + 1
        /\ UNCHANGED <<config, condition, tables, total_prompt_tokens, total_cached_prefix_tokens>>
    BY <1>11, CountStep DEF Steps
  <2>. QED  BY <1>2, <2>1, TypeKept
<1>12. CASE AddTotals(r)
  <2>. DEFINE pc == IF config.condition = "prefix_disabled" THEN "done" ELSE "store"
  <2>1. /\ Moves(r, pc, thread[r].i)
        /\ total_prompt_tokens' = thread[r].seen + TokensOf(thread[r].prompt)
        /\ total_cached_prefix_tokens' = total_cached_prefix_tokens + thread[r].reused
        /\ UNCHANGED <<config, condition, tables, request_count>>
    BY <1>12, TotalStep
  <2>2. pc \in Steps /\ pc \notin {"evict", "sum", "restore"}
    BY DEF Steps
  <2>. HIDE DEF pc
  <2>3. thread[r].seen \in Nat /\ thread[r].reused \in Nat
    BY <1>2 DEF Locals
  <2>4. TokensOf(thread[r].prompt) \in Nat
    BY PromptFacts, TokensAreNatural DEF BlockSet, TypeInv
  <2>5. total_prompt_tokens' \in Nat /\ total_cached_prefix_tokens' \in Nat
    BY <1>2, <2>1, <2>3, <2>4
  <2>. QED  BY <1>2, <2>1, <2>2, <2>5, TypeKept
<1>13. CASE StoreBlock(r)
  <2>. DEFINE pc == IF IsLast(r) THEN AfterStore(r) ELSE "store"
  <2>1. /\ \/ Moves(r, pc, NextI(r))
           \/ /\ config.budget # NoBudget /\ Moves(r, "evict", thread[r].i)
              /\ thread'[r].table = Len(tables)
        /\ KeepsCondition(r)
        /\ tables' \in Seq(Good(Blocks)) /\ Len(tables') = Len(tables)
        /\ UNCHANGED <<config, condition, Counters>>
    BY <1>13, StoreStep
  <2>2. /\ pc \in Steps /\ pc \notin {"evict", "sum"} /\ "evict" \in Steps
        /\ pc = "restore" => thread'[r].original_condition # Unsaved
    BY <1>3, <2>1 DEF Steps, KeepsCondition
  <2>. HIDE DEF pc
  <2>. QED  BY <1>2, <2>1, <2>2, TypeKept DEF Counters
<1>14. CASE BeginSum(r)
  <2>1. /\ thread[r].pc = "evict" /\ Moves(r, "sum", thread[r].i) /\ "sum" \in Steps
        /\ thread'[r].table = thread[r].table
        /\ UNCHANGED <<config, condition, tables, Counters>>
    BY <1>14, BeginSumStep DEF Steps
  <2>. QED  BY <1>2, <2>1, TypeKept DEF Counters, InPc
<1>15. CASE EndSum(r)
  <2>. DEFINE pc == IF IsLast(r) THEN AfterStore(r) ELSE "store"
  <2>1. /\ \/ Moves(r, pc, NextI(r))
           \/ /\ Moves(r, "evict", thread[r].i) /\ thread'[r].table = thread[r].table
        /\ thread[r].pc = "sum" /\ KeepsCondition(r)
        /\ tables' \in Seq(Good(Blocks)) /\ Len(tables') = Len(tables)
        /\ UNCHANGED <<config, condition, Counters>>
    BY <1>15, EndSumStep
  <2>2. /\ pc \in Steps /\ pc \notin {"evict", "sum"} /\ "evict" \in Steps
        /\ pc = "restore" => thread'[r].original_condition # Unsaved
    BY <1>3, <2>1 DEF Steps, KeepsCondition
  <2>. HIDE DEF pc
  <2>. QED  BY <1>2, <2>1, <2>2, TypeKept DEF Counters, InPc
<1>16. CASE SumRaises(r)
  <2>. DEFINE pc == IF thread[r].original_condition # Unsaved THEN "restore" ELSE "failed"
  <2>1. /\ Moves(r, pc, thread[r].i) /\ KeepsCondition(r)
        /\ UNCHANGED <<config, condition, tables, Counters>>
    BY <1>16, SumRaisesStep
  <2>2. /\ pc \in Steps /\ pc \notin {"evict", "sum"}
        /\ pc = "restore" => thread'[r].original_condition # Unsaved
    BY <2>1 DEF Steps, KeepsCondition
  <2>. HIDE DEF pc
  <2>. QED  BY <1>2, <2>1, <2>2, TypeKept DEF Counters
<1>17. CASE RestoreCondition(r)
  <2>. DEFINE pc == IF thread[r].raised THEN "failed" ELSE "done"
  <2>1. /\ thread[r].pc = "restore" /\ Moves(r, pc, thread[r].i)
        /\ condition' = thread[r].original_condition
        /\ UNCHANGED <<config, tables, Counters>>
    BY <1>17, RestoreStep
  <2>2. pc \in Steps /\ pc \notin {"evict", "sum", "restore"}
    BY DEF Steps
  <2>3. condition' \in Conditions
    BY <1>2, <2>1 DEF Locals, InPc
  <2>. HIDE DEF pc
  <2>. QED  BY <1>2, <2>1, <2>2, <2>3, TypeKept DEF Counters
<1>. QED
  BY <1>1, <1>4, <1>5, <1>6, <1>7, <1>8, <1>9, <1>10, <1>11, <1>12, <1>13, <1>14, <1>15,
     <1>16, <1>17 DEF Observe

LEMMA TypeInit == Init => TypeInv
<1>. SUFFICES ASSUME Init PROVE TypeInv
  OBVIOUS
<1>1. PICK p \in Runs :
         thread = [r \in Threads |->
                      [pc |-> "queued", prompt |-> p[r], i |-> 1,
                       cached |-> 0, reused |-> 0, seen |-> 0,
                       original_condition |-> Unsaved,
                       table |-> 0, sum |-> 0, mutated |-> FALSE, raised |-> FALSE]]
  BY DEF Init
<1>2. config \in Configs /\ condition \in Conditions
  BY ConfigsAssumption DEF Init
<1>3. tables \in Seq(Good(Blocks)) /\ Len(tables) > 0
  <2>1. EmptyTable \in Good(Blocks)
    BY EmptyTableGood
  <2>. QED  BY <2>1 DEF Init
<1>4. thread \in [Threads -> Locals]
  <2>1. \A r \in Threads : p[r] \in Prompts
    BY DEF Prompts
  <2>. QED  BY <1>1, <2>1 DEF Locals, Steps
<1>5. PromptsInv
  BY <1>1 DEF PromptsInv
<1>6. \A r \in Threads : Len(thread[r].prompt) \in Nat \ {0}
  BY <1>5, PromptFacts
<1>7. \A r \in Threads : thread[r].i = 1 /\ thread[r].pc = "queued"
  BY <1>1
<1>8. \A r \in Threads :
          /\ thread[r].i \in 1 .. Len(thread[r].prompt)
          /\ ~InPc(r, {"evict", "sum"}) /\ ~InPc(r, {"restore"})
  BY <1>6, <1>7 DEF InPc
<1>. QED  BY <1>2, <1>3, <1>4, <1>5, <1>8 DEF TypeInv, Init

LEMMA TypeStutter ==
    ASSUME TypeInv, UNCHANGED vars
    PROVE  TypeInv'
<1>1. UNCHANGED <<config, condition, tables, Counters, thread>>
  BY DEF vars, Counters
<1>2. Blocks' = Blocks /\ PromptsInv'
  BY <1>1 DEF Blocks, PromptsInv, TypeInv
<1>. QED  BY <1>1, <1>2 DEF TypeInv, InPc, Counters

\* Every reachable state of the shared cache has the type of TypeInv.
THEOREM ThreadedCacheTypes == Spec => []TypeInv
<1>1. TypeInv /\ [Next]_vars => TypeInv'
  BY TypeStep, TypeStutter
<1>. QED  BY <1>1, TypeInit, PTL DEF Spec

------------------------------------------------------------------------------
(***************************************************************************)
(* The semaphore, and the iterations that another thread disturbs.         *)
(***************************************************************************)
\* How many requests the semaphore admits.
Bound == Max({1, config.max_concurrency})

\* Only requests that overlap disturb an iteration, and only that fails a request.
AdmissionInv ==
    /\ Cardinality(Overlapping) <= Bound
    /\ \A r \in Threads :
          /\ thread[r].mutated => config.max_concurrency > 1
          /\ thread[r].raised => config.budget # NoBudget /\ config.max_concurrency > 1
          /\ InPc(r, {"failed"}) => thread[r].raised

\* What one step may do to the thread that takes it.
Takes(r) ==
    /\ \A s \in Threads \ {r} : Same(s)
    /\ \/ Start(r) /\ InPc(r, {"queued"})
       \/ ~InPc(r, {"queued", "done", "failed"})
    /\ thread'[r].mutated => thread[r].mutated
    /\ \/ thread'[r].raised = thread[r].raised
       \/ InPc(r, {"sum"}) /\ thread[r].mutated
    /\ thread'[r].pc = "failed" => thread'[r].raised

\* Every action is of this form.
LEMMA StepIsTaken ==
    ASSUME TypeInv, NEW r \in Threads, Start(r) \/ EstimateBlock(r) \/ Observe(r)
    PROVE  Takes(r)
<1>2. AfterStore(r) # "failed"
  BY DEF AfterStore
<1>3. CASE Start(r)
  BY <1>3, StartStep DEF Takes, InPc, Moves, KeepsEviction
<1>4. CASE EstimateBlock(r)
  BY <1>4, EstimateStep DEF Takes, InPc, Moves, KeepsEviction
<1>5. CASE BeginObserve(r)
  BY <1>5, BeginStep DEF Takes, InPc, Moves, KeepsEviction
<1>6. CASE ResetStorage(r)
  BY <1>6, ResetStep DEF Takes, InPc, Moves, KeepsEviction
<1>7. CASE ToggleCondition(r)
  BY <1>7, ToggleStep DEF Takes, InPc, Moves, KeepsEviction
<1>8. CASE EnterSuper(r)
  BY <1>8, EnterStep DEF Takes, InPc, Moves, KeepsEviction
<1>9. CASE LookupBlock(r)
  BY <1>9, LookupStep DEF Takes, InPc, Moves, KeepsEviction
<1>10. CASE CountRequest(r)
  BY <1>10, CountStep DEF Takes, InPc, Moves, KeepsEviction
<1>11. CASE AddTotals(r)
  BY <1>11, TotalStep DEF Takes, InPc, Moves, KeepsEviction
<1>12. CASE StoreBlock(r)
  BY <1>2, <1>12, StoreStep DEF Takes, InPc, Moves, KeepsEviction
<1>13. CASE BeginSum(r)
  BY <1>13, BeginSumStep DEF Takes, InPc, Moves
<1>14. CASE EndSum(r)
  BY <1>2, <1>14, EndSumStep DEF Takes, InPc, Moves
<1>15. CASE SumRaises(r)
  BY <1>15, SumRaisesStep DEF Takes, InPc, Moves
<1>16. CASE RestoreCondition(r)
  BY <1>16, RestoreStep DEF Takes, InPc, Moves, KeepsEviction
<1>. QED
  BY <1>3, <1>4, <1>5, <1>6, <1>7, <1>8, <1>9, <1>10, <1>11, <1>12, <1>13, <1>14,
     <1>15, <1>16 DEF Observe

LEMMA BoundFacts ==
    ASSUME TypeInv
    PROVE  /\ config.max_concurrency \in Nat /\ Bound \in Nat
           /\ Bound = IF config.max_concurrency > 1 THEN config.max_concurrency ELSE 1
           /\ IsFiniteSet(Threads) /\ IsFiniteSet(Overlapping)
           /\ Cardinality(Overlapping) \in Nat
<1>1. config.max_concurrency \in Nat
  BY ConfigsAssumption DEF TypeInv
<1>2. Bound = IF 1 <= config.max_concurrency THEN config.max_concurrency ELSE 1
  BY <1>1, MaxOfTwo DEF Bound
<1>3. IsFiniteSet(Threads)
  BY FS_Interval DEF Threads
<1>4. Overlapping \subseteq Threads
  BY DEF Overlapping
<1>. QED  BY <1>1, <1>2, <1>3, <1>4, FS_Subset, FS_CardinalityType

\* Two requests overlap only when the semaphore admits more than one.
LEMMA TwoOverlap ==
    ASSUME TypeInv, Cardinality(Overlapping) <= Bound,
           NEW r \in Overlapping, NEW s \in Overlapping, r # s
    PROVE  config.max_concurrency > 1
<1>1. {r} \cup {s} \subseteq Overlapping
  OBVIOUS
<1>2. IsFiniteSet({r}) /\ Cardinality({r}) = 1
  BY FS_Singleton
<1>3. Cardinality({r} \cup {s}) = 2
  <2>. DEFINE A == {r}
  <2>1. IsFiniteSet(A) /\ Cardinality(A) = 1 /\ s \notin A
    BY <1>2
  <2>. HIDE DEF A
  <2>2. Cardinality(A \cup {s}) = 1 + 1
    BY <2>1, FS_AddElement
  <2>. QED  BY <2>2 DEF A
<1>4. Cardinality({r} \cup {s}) <= Cardinality(Overlapping)
  BY <1>1, BoundFacts, FS_Subset
<1>5. /\ Cardinality(Overlapping) \in Nat /\ config.max_concurrency \in Nat
      /\ Bound = IF config.max_concurrency > 1 THEN config.max_concurrency ELSE 1
  BY BoundFacts
<1>6. 2 <= Cardinality(Overlapping)
  BY <1>3, <1>4
<1>7. 2 <= Bound /\ Bound \in Nat
  BY <1>5, <1>6, BoundFacts
<1>. QED  BY <1>5, <1>7

LEMMA AdmissionStep ==
    ASSUME TypeInv, AdmissionInv, Next
    PROVE  AdmissionInv'
<1>1. PICK r \in Threads : Takes(r)
  BY StepIsTaken DEF Next
<1>2. TypeInv' /\ config' = config /\ Bound' = Bound
  BY TypeStep DEF Bound
<1>3. Overlapping' \subseteq Overlapping \cup {r}
  BY <1>1 DEF Overlapping, Takes, Same
<1>4. Cardinality(Overlapping') <= Bound
  <2>1. Cardinality(Overlapping) <= Bound /\ IsFiniteSet(Overlapping) /\ Bound \in Nat
        /\ Cardinality(Overlapping) \in Nat
    BY BoundFacts DEF AdmissionInv
  <2>2. CASE Start(r)
    <3>1. Cardinality(Overlapping) < Bound
      BY <2>2 DEF Start, Bound
    <3>2. /\ IsFiniteSet(Overlapping \cup {r})
          /\ Cardinality(Overlapping \cup {r}) <= Cardinality(Overlapping) + 1
      <4>1. /\ IsFiniteSet(Overlapping \cup {r})
            /\ \/ Cardinality(Overlapping \cup {r}) = Cardinality(Overlapping)
               \/ Cardinality(Overlapping \cup {r}) = Cardinality(Overlapping) + 1
        BY <2>1, FS_AddElement
      <4>. QED  BY <2>1, <4>1
    <3>3. Cardinality(Overlapping') <= Cardinality(Overlapping \cup {r})
      BY <1>3, <3>2, FS_Subset
    <3>4. Cardinality(Overlapping \cup {r}) \in Nat /\ Cardinality(Overlapping') \in Nat
      BY <1>2, <3>2, FS_CardinalityType, BoundFacts, FS_Subset, <1>3
    <3>. QED  BY <2>1, <3>1, <3>2, <3>3, <3>4
  <2>3. CASE ~InPc(r, {"queued", "done", "failed"})
    <3>1. Overlapping' \subseteq Overlapping
      BY <1>3, <2>3 DEF Overlapping, InPc
    <3>2. Cardinality(Overlapping') <= Cardinality(Overlapping) /\ Cardinality(Overlapping') \in Nat
      BY <2>1, <3>1, FS_Subset, FS_CardinalityType
    <3>. QED  BY <2>1, <3>2
  <2>. QED  BY <1>1, <2>2, <2>3 DEF Takes
<1>5. ASSUME NEW s \in Threads, thread'[s].mutated
      PROVE  config.max_concurrency > 1
  <2>1. CASE thread[s].mutated
    BY <2>1 DEF AdmissionInv
  <2>2. CASE ~thread[s].mutated
    <3>1. s # r /\ thread[s].pc = "sum" /\ thread'[s].pc = "sum"
      BY <1>1, <1>5, <2>2 DEF Takes, Same
    <3>2. CASE InPc(r, {"queued"}) /\ Start(r)
      <4>1. s \in Overlapping'
        BY <3>1 DEF Overlapping
      <4>2. s \in Overlapping /\ r \notin Overlapping
        BY <3>1, <3>2 DEF Overlapping, InPc
      <4>3. Cardinality(Overlapping) < Bound /\ IsFiniteSet(Overlapping)
        BY <3>2, BoundFacts DEF Start, Bound
      <4>4. Cardinality({s}) = 1 /\ Cardinality({s}) <= Cardinality(Overlapping)
        BY <4>2, <4>3, FS_Singleton, FS_Subset
      <4>. QED  BY <4>3, <4>4, BoundFacts
    <3>3. CASE ~InPc(r, {"queued", "done", "failed"})
      <4>1. s \in Overlapping /\ r \in Overlapping
        BY <3>1, <3>3 DEF Overlapping, InPc
      <4>. QED  BY <3>1, <4>1, TwoOverlap DEF AdmissionInv
    <3>. QED  BY <1>1, <3>2, <3>3 DEF Takes
  <2>. QED  BY <2>1, <2>2
<1>6. ASSUME NEW s \in Threads
      PROVE  /\ thread'[s].raised => config.budget # NoBudget /\ config.max_concurrency > 1
             /\ thread'[s].pc = "failed" => thread'[s].raised
  <2>1. /\ thread[s].raised => config.budget # NoBudget /\ config.max_concurrency > 1
        /\ thread[s].mutated => config.max_concurrency > 1
        /\ thread[s].pc = "failed" => thread[s].raised
        /\ thread[s].pc = "sum" => config.budget # NoBudget
    BY DEF AdmissionInv, TypeInv, InPc
  <2>. QED  BY <1>1, <2>1 DEF Takes, Same, InPc
<1>. QED  BY <1>2, <1>4, <1>5, <1>6 DEF AdmissionInv, InPc

------------------------------------------------------------------------------
(***************************************************************************)
(* The budget: who is about to bring an overrun table back.                *)
(***************************************************************************)
\* r is about to evict from the current table all that is too much.
Evicts(r) ==
    /\ thread[r].table = Len(tables)
    /\ \/ InPc(r, {"evict"})
       \/ InPc(r, {"sum"}) /\ thread[r].sum >= cached_tokens(table)

\* The table is within the budget, or a request failed, or one is about to evict.
OverrunInv ==
    config.budget # NoBudget /\ cached_tokens(table) > config.budget =>
        \/ \E r \in Threads : thread[r].raised
        \/ \E r \in Threads : Evicts(r)

\* The tokens of a table are a number.
LEMMA TableTokens ==
    ASSUME TypeInv, NEW ts \in Seq(Good(Blocks)), Len(ts) > 0
    PROVE  Last(ts) \in Good(Blocks) /\ cached_tokens(Last(ts)) \in Nat
<1>1. Len(ts) \in Nat /\ Len(ts) \in 1 .. Len(ts)
  BY LenProperties
<1>2. ts[Len(ts)] \in Good(Blocks)
  BY <1>1, ElementOfSeq
<1>3. BlockSet(Blocks)
  BY PromptFacts DEF TypeInv
<1>4. cached_tokens(ts[Len(ts)]) \in Nat
  BY <1>2, <1>3, GoodFacts
<1>. QED  BY <1>2, <1>4 DEF Last

\* An overrun that was there before is explained as before.
LEMMA OverrunKept ==
    ASSUME TypeInv, OverrunInv, NEW r \in Threads, Takes(r), config' = config,
           tables' \in Seq(Good(Blocks)), Len(tables') = Len(tables), cached_tokens(table') <= cached_tokens(table),
           thread[r].raised => thread'[r].raised,
           Evicts(r) => Evicts(r)' \/ cached_tokens(table') <= config.budget
    PROVE  OverrunInv'
<1>. SUFFICES ASSUME config.budget # NoBudget, cached_tokens(table') > config.budget
              PROVE  \/ \E s \in Threads : thread'[s].raised
                     \/ \E s \in Threads : Evicts(s)'
  BY DEF OverrunInv
<1>1. /\ cached_tokens(table) \in Nat /\ cached_tokens(table') \in Nat /\ config.budget \in Nat
  <2>1. tables \in Seq(Good(Blocks)) /\ Len(tables) > 0 /\ config \in Configs
    BY DEF TypeInv
  <2>2. tables' \in Seq(Good(Blocks)) /\ Len(tables') > 0
    BY <2>1
  <2>3. cached_tokens(table) \in Nat /\ cached_tokens(table') \in Nat
    BY <2>1, <2>2, TableTokens DEF table
  <2>. QED  BY <2>1, <2>3, ConfigsAssumption
<1>2. cached_tokens(table) > config.budget
  BY <1>1
<1>3. CASE \E s \in Threads : thread[s].raised
  <2>1. PICK s \in Threads : thread[s].raised
    BY <1>3
  <2>2. thread'[s].raised
    <3>1. CASE s = r
      BY <2>1, <3>1 DEF Takes
    <3>2. CASE s # r
      BY <2>1, <3>2 DEF Takes, Same
    <3>. QED  BY <3>1, <3>2
  <2>. QED  BY <2>2
<1>4. CASE \E s \in Threads : Evicts(s)
  <2>1. PICK s \in Threads : Evicts(s)
    BY <1>4
  <2>2. CASE s = r
    <3>1. ~(cached_tokens(table') <= config.budget)
      BY <1>1
    <3>. QED  BY <2>1, <2>2, <3>1
  <2>3. CASE s # r
    <3>1. Same(s)
      BY <2>3 DEF Takes
    <3>2. thread[s].sum \in Nat
      BY DEF TypeInv, Locals
    <3>3. thread[s].sum >= cached_tokens(table) => thread[s].sum >= cached_tokens(table')
      BY <1>1, <3>2
    <3>4. Evicts(s)'
      BY <2>1, <3>1, <3>3 DEF Evicts, Same, InPc
    <3>. QED  BY <3>4
  <2>. QED  BY <2>2, <2>3
<1>. QED  BY <1>2, <1>3, <1>4 DEF OverrunInv

LEMMA OverrunStep ==
    ASSUME TypeInv, OverrunInv, Next
    PROVE  OverrunInv'
<1>1. PICK r \in Threads : Start(r) \/ EstimateBlock(r) \/ Observe(r)
  BY DEF Next
<1>2. Takes(r) /\ config' = config
  BY <1>1, StepIsTaken, TypeStep
<1>3. /\ tables \in Seq(Good(Blocks)) /\ Len(tables) \in Nat \ {0} /\ cached_tokens(table) \in Nat
      /\ BlockSet(Blocks) /\ Block(r) \in Blocks /\ table \in Good(Blocks)
  <2>1. tables \in Seq(Good(Blocks)) /\ Len(tables) > 0
    BY DEF TypeInv
  <2>2. cached_tokens(table) \in Nat
    BY <2>1, TableTokens DEF table
  <2>. QED  BY <2>1, <2>2, BlockFacts, PromptFacts DEF TypeInv
<1>4. ASSUME UNCHANGED tables, ~InPc(r, {"evict", "sum"}), thread[r].raised => thread'[r].raised
      PROVE  OverrunInv'
  <2>1. /\ tables' \in Seq(Good(Blocks)) /\ Len(tables') = Len(tables)
        /\ cached_tokens(table') <= cached_tokens(table)
    BY <1>3, <1>4 DEF table
  <2>2. ~Evicts(r)
    BY <1>4 DEF Evicts, InPc
  <2>. QED  BY <1>2, <1>4, <2>1, <2>2, OverrunKept
<1>5. CASE Start(r)
  <2>1. thread[r].pc = "queued" /\ KeepsEviction(r) /\ UNCHANGED tables
    BY <1>5, StartStep
  <2>. QED  BY <1>4, <2>1 DEF InPc, KeepsEviction
<1>6. CASE EstimateBlock(r)
  <2>1. thread[r].pc = "estimate" /\ KeepsEviction(r) /\ UNCHANGED tables
    BY <1>6, EstimateStep
  <2>. QED  BY <1>4, <2>1 DEF InPc, KeepsEviction
<1>7. CASE BeginObserve(r)
  <2>1. thread[r].pc = "begin" /\ KeepsEviction(r) /\ UNCHANGED tables
    BY <1>7, BeginStep
  <2>. QED  BY <1>4, <2>1 DEF InPc, KeepsEviction
<1>8. CASE ResetStorage(r)
  <2>1. tables' = Append(tables, EmptyTable)
    BY <1>8, ResetStep
  <2>2. table' = EmptyTable
    <3>1. EmptyTable \in Good(Blocks)
      BY EmptyTableGood
    <3>2. Len(tables') = Len(tables) + 1 /\ tables'[Len(tables) + 1] = EmptyTable
      BY <1>3, <2>1, <3>1, AppendProperties
    <3>. QED  BY <3>2 DEF table, Last
  <2>3. cached_tokens(table') = 0
    BY <2>2, EmptyTableGood
  <2>4. config.budget = NoBudget \/ config.budget \in Nat
    BY ConfigsAssumption DEF TypeInv
  <2>5. config'.budget = NoBudget \/ ~(cached_tokens(table') > config'.budget)
    BY <1>2, <2>3, <2>4
  <2>. QED  BY <2>5 DEF OverrunInv
<1>9. CASE ToggleCondition(r)
  <2>1. thread[r].pc = "toggle" /\ KeepsEviction(r) /\ UNCHANGED tables
    BY <1>9, ToggleStep
  <2>. QED  BY <1>4, <2>1 DEF InPc, KeepsEviction
<1>10. CASE EnterSuper(r)
  <2>1. thread[r].pc = "super" /\ KeepsEviction(r) /\ UNCHANGED tables
    BY <1>10, EnterStep
  <2>. QED  BY <1>4, <2>1 DEF InPc, KeepsEviction
<1>11. CASE LookupBlock(r)
  <2>1. /\ thread[r].pc = "lookup" /\ KeepsEviction(r)
        /\ tables' \in Seq(Good(Blocks)) /\ Len(tables') = Len(tables)
        /\ table' = contains(table, Block(r))
    BY <1>11, LookupStep
  <2>2. cached_tokens(table') <= cached_tokens(table)
    BY <1>3, <2>1, ContainsKeeps
  <2>3. ~Evicts(r)
    BY <2>1 DEF Evicts, InPc
  <2>4. thread[r].raised => thread'[r].raised
    BY <2>1 DEF KeepsEviction
  <2>. QED  BY <1>2, <2>1, <2>2, <2>3, <2>4, OverrunKept
<1>12. CASE CountRequest(r)
  <2>1. thread[r].pc = "count" /\ KeepsEviction(r) /\ UNCHANGED tables
    BY <1>12, CountStep
  <2>. QED  BY <1>4, <2>1 DEF InPc, KeepsEviction
<1>13. CASE AddTotals(r)
  <2>1. thread[r].pc = "total" /\ KeepsEviction(r) /\ UNCHANGED tables
    BY <1>13, TotalStep
  <2>. QED  BY <1>4, <2>1 DEF InPc, KeepsEviction
<1>14. CASE StoreBlock(r)
  <2>1. /\ thread[r].pc = "store" /\ tables' \in Seq(Good(Blocks)) /\ Len(tables') = Len(tables)
        /\ \/ /\ KeepsEviction(r)
              /\ config.budget # NoBudget => cached_tokens(table') = cached_tokens(table)
           \/ /\ thread'[r].pc = "evict" /\ thread'[r].table = Len(tables)
    BY <1>14, StoreStep DEF Moves
  <2>2. CASE /\ KeepsEviction(r)
             /\ config.budget # NoBudget => cached_tokens(table') = cached_tokens(table)
    <3>1. CASE config.budget = NoBudget
      BY <1>2, <3>1 DEF OverrunInv
    <3>2. CASE config.budget # NoBudget
      <4>1. ~Evicts(r) /\ (thread[r].raised => thread'[r].raised)
        BY <2>1, <2>2 DEF Evicts, InPc, KeepsEviction
      <4>2. cached_tokens(table') <= cached_tokens(table)
        BY <1>3, <2>2, <3>2
      <4>. QED  BY <1>2, <2>1, <4>1, <4>2, OverrunKept
    <3>. QED  BY <3>1, <3>2
  <2>3. CASE thread'[r].pc = "evict" /\ thread'[r].table = Len(tables)
    <3>1. Evicts(r)'
      BY <2>1, <2>3 DEF Evicts, InPc
    <3>. QED  BY <3>1 DEF OverrunInv
  <2>. QED  BY <2>1, <2>2, <2>3
<1>15. CASE BeginSum(r)
  <2>1. /\ thread[r].pc = "evict" /\ thread'[r].pc = "sum" /\ thread'[r].table = thread[r].table
        /\ thread'[r].sum = cached_tokens(tables[thread[r].table])
        /\ thread'[r].raised = thread[r].raised /\ UNCHANGED tables
    BY <1>15, BeginSumStep DEF Moves
  <2>2. /\ tables' \in Seq(Good(Blocks)) /\ Len(tables') = Len(tables) /\ table' = table
        /\ cached_tokens(table') <= cached_tokens(table)
    BY <1>3, <2>1 DEF table
  <2>3. ASSUME Evicts(r) PROVE Evicts(r)'
    <3>1. thread[r].table = Len(tables)
      BY <2>3 DEF Evicts
    <3>2. tables[thread[r].table] = table
      BY <3>1 DEF table, Last
    <3>3. thread'[r].sum >= cached_tokens(table')
      BY <1>3, <2>1, <2>2, <3>2
    <3>. QED  BY <2>1, <2>2, <3>1, <3>3 DEF Evicts, InPc
  <2>4. thread[r].raised => thread'[r].raised
    BY <2>1
  <2>. QED  BY <1>2, <2>2, <2>3, <2>4, OverrunKept
<1>16. CASE EndSum(r)
  <2>. DEFINE t == tables[thread[r].table]
  <2>1. /\ thread[r].pc = "sum" /\ thread'[r].raised = thread[r].raised
        /\ tables' \in Seq(Good(Blocks)) /\ Len(tables') = Len(tables)
        /\ \/ /\ thread'[r].pc = "evict" /\ thread'[r].table = thread[r].table
              /\ cached_tokens(table') <= cached_tokens(table)
           \/ /\ ~(thread[r].sum > config.budget /\ t.blocks # <<>>)
              /\ UNCHANGED tables
    BY <1>16, EndSumStep DEF Moves
  <2>2. thread[r].raised => thread'[r].raised
    BY <2>1
  <2>3. CASE /\ thread'[r].pc = "evict" /\ thread'[r].table = thread[r].table
             /\ cached_tokens(table') <= cached_tokens(table)
    <3>1. Evicts(r) => Evicts(r)'
      BY <2>1, <2>3 DEF Evicts, InPc
    <3>. QED  BY <1>2, <2>1, <2>2, <2>3, <3>1, OverrunKept
  <2>4. CASE /\ ~(thread[r].sum > config.budget /\ t.blocks # <<>>)
             /\ UNCHANGED tables
    <3>1. table' = table
      BY <2>4 DEF table
    <3>2. ASSUME Evicts(r) PROVE cached_tokens(table') <= config.budget
      <4>1. thread[r].sum >= cached_tokens(table) /\ t = table
        BY <2>1, <3>2 DEF Evicts, InPc, table, Last
      <4>2. config.budget \in Nat /\ thread[r].sum \in Nat
        BY <2>1, ConfigsAssumption DEF TypeInv, InPc, Locals
      <4>3. CASE t.blocks = <<>>
        <5>1. cached_tokens(table) = 0
          BY <4>1, <4>3, TokensOfNothing DEF cached_tokens
        <5>. QED  BY <3>1, <4>2, <5>1
      <4>4. CASE ~(thread[r].sum > config.budget)
        <5>. HIDE DEF t
        <5>1. cached_tokens(table) <= config.budget
          BY <1>3, <4>1, <4>2, <4>4
        <5>. QED  BY <3>1, <5>1
      <4>. QED  BY <2>4, <4>3, <4>4
    <3>3. cached_tokens(table') <= cached_tokens(table)
      BY <1>3, <3>1
    <3>. QED  BY <1>2, <2>1, <2>2, <3>2, <3>3, OverrunKept
  <2>. QED  BY <2>1, <2>3, <2>4
<1>17. CASE SumRaises(r)
  <2>1. thread'[r].raised
    BY <1>17, SumRaisesStep
  <2>. QED  BY <2>1 DEF OverrunInv
<1>18. CASE RestoreCondition(r)
  <2>1. thread[r].pc = "restore" /\ KeepsEviction(r) /\ UNCHANGED tables
    BY <1>18, RestoreStep
  <2>. QED  BY <1>4, <2>1 DEF InPc, KeepsEviction
<1>. QED
  BY <1>1, <1>5, <1>6, <1>7, <1>8, <1>9, <1>10, <1>11, <1>12, <1>13, <1>14, <1>15,
     <1>16, <1>17, <1>18 DEF Observe

LEMMA AdmissionInit == Init => AdmissionInv /\ OverrunInv
<1>. SUFFICES ASSUME Init PROVE AdmissionInv /\ OverrunInv
  OBVIOUS
<1>1. TypeInv
  BY TypeInit
<1>2. \A r \in Threads : thread[r].pc = "queued" /\ ~thread[r].mutated /\ ~thread[r].raised
  BY DEF Init
<1>3. Overlapping = {}
  BY <1>2 DEF Overlapping
<1>4. AdmissionInv
  BY <1>1, <1>2, <1>3, FS_EmptySet, BoundFacts DEF AdmissionInv, InPc
<1>5. OverrunInv
  <2>1. table = EmptyTable
    BY DEF Init, table, Last
  <2>2. cached_tokens(table) = 0
    BY <2>1, EmptyTableGood
  <2>3. config.budget = NoBudget \/ config.budget \in Nat
    BY <1>1, ConfigsAssumption DEF TypeInv
  <2>. QED  BY <2>2, <2>3 DEF OverrunInv
<1>. QED  BY <1>4, <1>5

\* The inductive invariant of the budget.
BudgetInv == TypeInv /\ AdmissionInv /\ OverrunInv

LEMMA BudgetInvImplies ==
    ASSUME BudgetInv
    PROVE  BudgetOverrunExplained
<1>. DEFINE raised == {r \in Threads : thread[r].raised}
<1>1. (\E r \in Threads : thread[r].raised) => raised # {}
  OBVIOUS
<1>2. raised # {} => config.budget # NoBudget /\ config.max_concurrency > 1
  BY DEF BudgetInv, AdmissionInv
<1>3. \A r \in Threads : Evicts(r) =>
          thread[r].pc \in {"evict", "sum"} /\ thread[r].table = Len(tables)
  BY DEF Evicts, InPc
<1>. QED  BY <1>1, <1>2, <1>3 DEF BudgetInv, OverrunInv, BudgetOverrunExplained

\* Whoever shares the table, however many requests overlap: more tokens than the budget are in
\* the table only while the eviction that removes them is under way, or after one failed, which
\* takes a budget and two requests at a time.
THEOREM BudgetOverrunIsExplained == Spec => []BudgetOverrunExplained
<1>1. Init => BudgetInv
  BY TypeInit, AdmissionInit DEF BudgetInv
<1>2. BudgetInv /\ [Next]_vars => BudgetInv'
  <2>1. CASE Next
    BY <2>1, TypeStep, AdmissionStep, OverrunStep DEF BudgetInv
  <2>2. CASE UNCHANGED vars
    <3>1. ASSUME BudgetInv PROVE TypeInv'
      BY <2>2, <3>1, TypeStutter DEF BudgetInv
    <3>. QED
      BY <2>2, <3>1
      DEF BudgetInv, AdmissionInv, OverrunInv, Evicts, vars, Overlapping, Bound, table, InPc
  <2>. QED  BY <2>1, <2>2
<1>3. BudgetInv => BudgetOverrunExplained
  BY BudgetInvImplies
<1>. QED  BY <1>1, <1>2, <1>3, PTL DEF Spec

------------------------------------------------------------------------------
(***************************************************************************)
(* What is in the table has been stored by a request.                      *)
(***************************************************************************)
Storing == {"store", "evict", "sum", "restore", "done", "failed"}

\* What one step may do to the keys of the table.
LEMMA KeysStep ==
    ASSUME TypeInv, NEW r \in Threads, Start(r) \/ EstimateBlock(r) \/ Observe(r)
    PROVE  /\ \/ Keys(table') \subseteq Keys(table)
              \/ InPc(r, {"store"}) /\ Keys(table') = Keys(table) \cup {Block(r).key}
           /\ \/ Keys(table) \subseteq Keys(table')
              \/ InPc(r, {"reset", "super_reset", "sum"})
           /\ InPc(r, {"reset", "super_reset"}) => Keys(table') = {}
<1>1. UNCHANGED tables => table' = table
  BY DEF table
<1>2. CASE Start(r)
  BY <1>1, <1>2, StartStep DEF InPc
<1>3. CASE EstimateBlock(r)
  BY <1>1, <1>3, EstimateStep DEF InPc
<1>4. CASE BeginObserve(r)
  BY <1>1, <1>4, BeginStep DEF InPc
<1>5. CASE ResetStorage(r)
  <2>1. tables' = Append(tables, EmptyTable) /\ thread[r].pc \in {"reset", "super_reset"}
    BY <1>5, ResetStep
  <2>2. table' = EmptyTable
    <3>1. tables \in Seq(Good(Blocks)) /\ EmptyTable \in Good(Blocks) /\ Len(tables) \in Nat
      BY EmptyTableGood, BlockFacts DEF TypeInv
    <3>2. Len(tables') = Len(tables) + 1 /\ tables'[Len(tables) + 1] = EmptyTable
      BY <2>1, <3>1, AppendProperties
    <3>. QED  BY <3>2 DEF table, Last
  <2>3. Keys(table') = {}
    BY <2>2, EmptyTableGood
  <2>. QED  BY <2>1, <2>3 DEF InPc
<1>6. CASE ToggleCondition(r)
  BY <1>1, <1>6, ToggleStep DEF InPc
<1>7. CASE EnterSuper(r)
  BY <1>1, <1>7, EnterStep DEF InPc
<1>8. CASE LookupBlock(r)
  <2>1. thread[r].pc = "lookup" /\ table' = contains(table, Block(r))
    BY <1>8, LookupStep
  <2>2. BlockSet(Blocks) /\ Block(r) \in Blocks /\ table \in Good(Blocks)
    BY BlockFacts, PromptFacts DEF TypeInv
  <2>3. Keys(table') = Keys(table)
    BY <2>1, <2>2, ContainsKeeps
  <2>. QED  BY <2>1, <2>3 DEF InPc
<1>9. CASE CountRequest(r)
  BY <1>1, <1>9, CountStep DEF InPc
<1>10. CASE AddTotals(r)
  BY <1>1, <1>10, TotalStep DEF InPc
<1>11. CASE StoreBlock(r)
  <2>1. /\ thread[r].pc = "store"
        /\ Keys(table') = Keys(table) \/ Keys(table') = Keys(table) \cup {Block(r).key}
    BY <1>11, StoreStep
  <2>. QED  BY <2>1 DEF InPc
<1>12. CASE BeginSum(r)
  BY <1>1, <1>12, BeginSumStep DEF InPc
<1>13. CASE EndSum(r)
  <2>1. thread[r].pc = "sum" /\ (Keys(table') \subseteq Keys(table) \/ UNCHANGED tables)
    BY <1>13, EndSumStep
  <2>. QED  BY <1>1, <2>1 DEF InPc
<1>14. CASE SumRaises(r)
  BY <1>1, <1>14, SumRaisesStep DEF InPc
<1>15. CASE RestoreCondition(r)
  BY <1>1, <1>15, RestoreStep DEF InPc
<1>. QED
  BY <1>2, <1>3, <1>4, <1>5, <1>6, <1>7, <1>8, <1>9, <1>10, <1>11, <1>12, <1>13, <1>14,
     <1>15 DEF Observe

\* A request that stores goes on to, and what it has estimated stays.
Keeps(r) ==
    /\ InPc(r, Storing) => thread'[r].pc \in Storing
    /\ \/ EstimateBlock(r)
       \/ /\ thread'[r].cached = thread[r].cached
          /\ thread'[r].pc \in {"queued", "estimate"} =>
                 InPc(r, {"queued", "estimate"}) /\ thread'[r].i = thread[r].i

\* Every action is of this form.
LEMMA StepKeeps ==
    ASSUME TypeInv, NEW r \in Threads, Start(r) \/ EstimateBlock(r) \/ Observe(r)
    PROVE  Keeps(r)
<1>1. AfterStore(r) \in {"restore", "done"}
  BY DEF AfterStore
<1>2. CASE Start(r)
  BY <1>2, StartStep DEF Keeps, InPc, Storing, Moves, KeepsCounts
<1>3. CASE EstimateBlock(r)
  BY <1>3, EstimateStep DEF Keeps, InPc, Storing
<1>4. CASE BeginObserve(r)
  BY <1>4, BeginStep DEF Keeps, InPc, Storing, Moves, KeepsCounts
<1>5. CASE ResetStorage(r)
  BY <1>5, ResetStep DEF Keeps, InPc, Storing, Moves, KeepsCounts
<1>6. CASE ToggleCondition(r)
  BY <1>6, ToggleStep DEF Keeps, InPc, Storing, Moves, KeepsCounts
<1>7. CASE EnterSuper(r)
  BY <1>7, EnterStep DEF Keeps, InPc, Storing, Moves, KeepsCounts
<1>8. CASE LookupBlock(r)
  BY <1>8, LookupStep DEF Keeps, InPc, Storing, Moves
<1>9. CASE CountRequest(r)
  BY <1>9, CountStep DEF Keeps, InPc, Storing, Moves
<1>10. CASE AddTotals(r)
  BY <1>10, TotalStep DEF Keeps, InPc, Storing, Moves
<1>11. CASE StoreBlock(r)
  BY <1>1, <1>11, StoreStep DEF Keeps, InPc, Storing, Moves, KeepsCounts
<1>12. CASE BeginSum(r)
  BY <1>12, BeginSumStep DEF Keeps, InPc, Storing, Moves, KeepsCounts
<1>13. CASE EndSum(r)
  BY <1>1, <1>13, EndSumStep DEF Keeps, InPc, Storing, Moves, KeepsCounts
<1>14. CASE SumRaises(r)
  BY <1>14, SumRaisesStep DEF Keeps, InPc, Storing, Moves, KeepsCounts
<1>15. CASE RestoreCondition(r)
  BY <1>15, RestoreStep DEF Keeps, InPc, Storing, Moves, KeepsCounts
<1>. QED
  BY <1>2, <1>3, <1>4, <1>5, <1>6, <1>7, <1>8, <1>9, <1>10, <1>11, <1>12, <1>13, <1>14,
     <1>15 DEF Observe

\* Who stores a block, has stored it or was to.
Owner(k) ==
    \E q \in Threads : /\ InPc(q, Storing)
                       /\ \E j \in 1 .. Len(thread[q].prompt) : thread[q].prompt[j].key = k

\* Every key of the table has an owner.
OriginInv == \A k \in Keys(table) : Owner(k)

\* A request that stores never goes back.
LEMMA StoringKept ==
    ASSUME NEW r \in Threads, Takes(r), Keeps(r)
    PROVE  \A q \in Threads : InPc(q, Storing) => InPc(q, Storing)'
BY DEF Takes, Keeps, Same, InPc

LEMMA OriginStep ==
    ASSUME TypeInv, OriginInv, Next
    PROVE  OriginInv'
<1>1. PICK r \in Threads : Start(r) \/ EstimateBlock(r) \/ Observe(r)
  BY DEF Next
<1>2. /\ \A q \in Threads : InPc(q, Storing) => InPc(q, Storing)'
      /\ \A q \in Threads : thread'[q].prompt = thread[q].prompt
  BY <1>1, StepIsTaken, StepKeeps, StoringKept, TypeStep DEF PromptsKept
<1>3. \A k : Owner(k) => Owner(k)'
  BY <1>2 DEF Owner
<1>4. ASSUME InPc(r, {"store"}) PROVE Owner(Block(r).key)
  <2>1. InPc(r, Storing)
    BY <1>4 DEF InPc, Storing
  <2>2. thread[r].i \in 1 .. Len(thread[r].prompt)
    BY DEF TypeInv
  <2>. QED  BY <2>1, <2>2 DEF Owner, Block
<1>5. \/ Keys(table') \subseteq Keys(table)
      \/ InPc(r, {"store"}) /\ Keys(table') = Keys(table) \cup {Block(r).key}
  BY <1>1, KeysStep
<1>6. ASSUME NEW k \in Keys(table') PROVE Owner(k)'
  <2>1. Owner(k)
    BY <1>4, <1>5, <1>6 DEF OriginInv
  <2>. QED  BY <1>3, <2>1
<1>. QED  BY <1>6 DEF OriginInv

------------------------------------------------------------------------------
(***************************************************************************)
(* The cached tokens of a response are those of a prefix that another      *)
(* request has stored or is storing.                                       *)
(***************************************************************************)
\* r has estimated its first m blocks, which another request stores.
Sharing(r, m) ==
    /\ thread[r].cached = TokensOf(Prefix(r, m))
    /\ m > 0 => \E q \in Threads \ {r} :
            InPc(q, Storing) /\ m <= Len(thread[q].prompt) /\ Prefix(q, m) = Prefix(r, m)

\* So has every request.
EarnedInv ==
    \A r \in Threads : \E m \in 0 .. Len(thread[r].prompt) :
        Sharing(r, m) /\ (InPc(r, {"queued", "estimate"}) => m = thread[r].i - 1)

\* The tokens of one more block, and of none.
LEMMA PrefixTokens ==
    ASSUME TypeInv, NEW r \in Threads
    PROVE  /\ \A m \in 1 .. Len(thread[r].prompt) :
                 /\ thread[r].prompt[m].token_count \in Nat
                 /\ TokensOf(Prefix(r, m)) = TokensOf(Prefix(r, m - 1)) + thread[r].prompt[m].token_count
           /\ \A m \in 0 .. Len(thread[r].prompt) : TokensOf(Prefix(r, m)) \in Nat
           /\ TokensOf(Prefix(r, 0)) = 0
           /\ Prefix(r, Len(thread[r].prompt)) = thread[r].prompt
<1>. DEFINE p == thread[r].prompt
<1>1. BlockSet(Blocks) /\ p \in Seq(Blocks) /\ Len(p) \in Nat \ {0}
      /\ \A j \in 1 .. Len(p) : p[j] \in Blocks
  BY PromptFacts DEF TypeInv
<1>2. \A b \in Blocks : b.token_count \in Nat
  BY <1>1 DEF BlockSet
<1>. HIDE DEF p
<1>3. ASSUME NEW m \in 1 .. Len(p)
      PROVE  /\ p[m].token_count \in Nat
             /\ TokensOf(SubSeq(p, 1, m)) = TokensOf(SubSeq(p, 1, m - 1)) + p[m].token_count
  <2>1. /\ SubSeq(p, 1, m) = Append(SubSeq(p, 1, m - 1), p[m])
        /\ SubSeq(p, 1, m - 1) \in Seq(Blocks) /\ p[m] \in Blocks
    BY <1>1, PrefixOneMore
  <2>. QED  BY <1>2, <2>1, TokensOfAppend
<1>4. ASSUME NEW m \in 0 .. Len(p) PROVE TokensOf(SubSeq(p, 1, m)) \in Nat
  BY <1>1, <1>2, PrefixFacts, TokensAreNatural
<1>5. SubSeq(p, 1, 0) = <<>>
  BY <1>1, PrefixFacts, EmptySeq
<1>6. SubSeq(p, 1, Len(p)) = p
  BY <1>1
<1>. QED  BY <1>3, <1>4, <1>5, <1>6, TokensOfNothing DEF Prefix, p

\* A block that is in the table ends a prefix that another request stores.
LEMMA HitIsShared ==
    ASSUME TypeInv, NEW r \in Threads, ~InPc(r, Storing), Owner(Block(r).key)
    PROVE  \E q \in Threads \ {r} :
              /\ InPc(q, Storing) /\ thread[r].i <= Len(thread[q].prompt)
              /\ Prefix(q, thread[r].i) = Prefix(r, thread[r].i)
<1>1. PICK q \in Threads : /\ InPc(q, Storing)
                           /\ \E j \in 1 .. Len(thread[q].prompt) :
                                 thread[q].prompt[j].key = Block(r).key
  BY DEF Owner
<1>2. PICK j \in 1 .. Len(thread[q].prompt) : thread[q].prompt[j].key = Block(r).key
  BY <1>1
<1>3. PromptsInv /\ thread[r].i \in 1 .. Len(thread[r].prompt)
  BY DEF TypeInv
<1>4. /\ j = thread[r].i /\ Prefix(q, j) = Prefix(r, j)
      /\ Len(thread[q].prompt) \in Nat
  BY <1>2, <1>3, PromptFacts DEF Block
<1>5. q # r
  BY <1>1
<1>. QED  BY <1>1, <1>2, <1>4, <1>5

\* It stays so.
LEMMA SharingKept ==
    ASSUME PromptsKept, \A q \in Threads : InPc(q, Storing) => InPc(q, Storing)',
           NEW r \in Threads, NEW m, Sharing(r, m), thread'[r].cached = thread[r].cached
    PROVE  Sharing(r, m)'
<1>1. \A q \in Threads : thread'[q].prompt = thread[q].prompt
  BY DEF PromptsKept
<1>2. \A q \in Threads : Prefix(q, m)' = Prefix(q, m)
  BY <1>1 DEF Prefix
<1>. QED  BY <1>1, <1>2 DEF Sharing

LEMMA EarnedStep ==
    ASSUME TypeInv, OriginInv, EarnedInv, Next
    PROVE  EarnedInv'
<1>1. PICK r \in Threads : Start(r) \/ EstimateBlock(r) \/ Observe(r)
  BY DEF Next
<1>2. Takes(r) /\ Keeps(r) /\ PromptsKept
  BY <1>1, StepIsTaken, StepKeeps, TypeStep
<1>3. \A q \in Threads : InPc(q, Storing) => InPc(q, Storing)'
  BY <1>2, StoringKept
<1>. SUFFICES ASSUME NEW s \in Threads
              PROVE  \E m \in 0 .. Len(thread[s].prompt) :
                         Sharing(s, m)' /\ (InPc(s, {"queued", "estimate"})' => m = thread'[s].i - 1)
  <2>1. \A s \in Threads : thread'[s].prompt = thread[s].prompt
    BY <1>2 DEF PromptsKept
  <2>. QED  BY <2>1 DEF EarnedInv
<1>4. PICK m \in 0 .. Len(thread[s].prompt) :
          Sharing(s, m) /\ (InPc(s, {"queued", "estimate"}) => m = thread[s].i - 1)
  BY DEF EarnedInv
<1>5. ASSUME thread'[s].cached = thread[s].cached,
             thread'[s].pc \in {"queued", "estimate"} =>
                 InPc(s, {"queued", "estimate"}) /\ thread'[s].i = thread[s].i
      PROVE  Sharing(s, m)' /\ (InPc(s, {"queued", "estimate"})' => m = thread'[s].i - 1)
  BY <1>2, <1>3, <1>4, <1>5, SharingKept DEF InPc
<1>6. CASE s # r
  <2>1. Same(s)
    BY <1>2, <1>6 DEF Takes
  <2>. QED  BY <1>5, <2>1 DEF Same, InPc
<1>7. CASE s = r /\ ~EstimateBlock(r)
  BY <1>2, <1>5, <1>7 DEF Keeps
<1>8. CASE s = r /\ EstimateBlock(r)
  <2>1. /\ thread[r].pc = "estimate"
        /\ \/ /\ Block(r).key \in Keys(table)
              /\ Moves(r, IF IsLast(r) THEN "begin" ELSE "estimate", NextI(r))
              /\ thread'[r].cached = thread[r].cached + Block(r).token_count
           \/ /\ Moves(r, "begin", 1)
              /\ thread'[r].cached = thread[r].cached
    BY <1>8, EstimateStep
  <2>2. CASE Moves(r, "begin", 1) /\ thread'[r].cached = thread[r].cached
    BY <1>5, <1>8, <2>2 DEF Moves
  <2>3. CASE /\ Block(r).key \in Keys(table)
             /\ Moves(r, IF IsLast(r) THEN "begin" ELSE "estimate", NextI(r))
             /\ thread'[r].cached = thread[r].cached + Block(r).token_count
    <3>1. PICK n \in 1 .. Len(thread[r].prompt) : n = thread[r].i /\ m = n - 1
      BY <1>4, <1>8, <2>1 DEF TypeInv, InPc
    <3>2. PICK q \in Threads \ {r} :
             InPc(q, Storing) /\ n <= Len(thread[q].prompt) /\ Prefix(q, n) = Prefix(r, n)
      <4>1. Owner(Block(r).key) /\ ~InPc(r, Storing)
        BY <2>1, <2>3 DEF OriginInv, InPc, Storing
      <4>. QED  BY <3>1, <4>1, HitIsShared
    <3>3. TokensOf(Prefix(r, n)) = thread[r].cached + Block(r).token_count
      <4>1. TokensOf(Prefix(r, n)) = TokensOf(Prefix(r, n - 1)) + Block(r).token_count
        BY <3>1, PrefixTokens DEF Block
      <4>2. thread[r].cached = TokensOf(Prefix(r, n - 1))
        BY <1>4, <1>8, <3>1 DEF Sharing
      <4>. QED  BY <4>1, <4>2
    <3>4. \A x \in Threads : thread'[x].prompt = thread[x].prompt
      BY <1>2 DEF PromptsKept
    <3>5. \A x \in Threads : Prefix(x, n)' = Prefix(x, n)
      BY <3>4 DEF Prefix
    <3>6. Sharing(r, n)'
      BY <2>3, <3>1, <3>2, <3>3, <3>4, <3>5, <1>3 DEF Sharing
    <3>7. InPc(r, {"queued", "estimate"})' => n = thread'[r].i - 1
      <4>1. IsLast(r) => thread'[r].pc = "begin"
        BY <2>3 DEF Moves
      <4>2. ~IsLast(r) => thread'[r].i = n + 1
        BY <2>3, <3>1 DEF Moves, NextI
      <4>. QED  BY <3>1, <4>1, <4>2 DEF InPc
    <3>8. n \in 0 .. Len(thread[r].prompt)
      BY <3>1
    <3>. QED  BY <1>8, <3>6, <3>7, <3>8
  <2>. QED  BY <2>1, <2>2, <2>3
<1>. QED  BY <1>6, <1>7, <1>8

------------------------------------------------------------------------------
(***************************************************************************)
(* The longest prefix that two prompts share.                              *)
(***************************************************************************)
\* A longer prefix has no fewer tokens.
LEMMA TokensGrow ==
    ASSUME NEW B, \A b \in B : b.token_count \in Nat, NEW s \in Seq(B),
           NEW l \in 0 .. Len(s), NEW m \in 0 .. l
    PROVE  /\ TokensOf(SubSeq(s, 1, m)) \in Nat /\ TokensOf(SubSeq(s, 1, l)) \in Nat
           /\ TokensOf(SubSeq(s, 1, m)) <= TokensOf(SubSeq(s, 1, l))
<1>. DEFINE t == SubSeq(s, 1, l)
            u == SubSeq(s, 1, m)
<1>0. Len(s) \in Nat
  BY LenProperties
<1>1. t \in Seq(B) /\ Len(t) = l /\ \A i \in 1 .. l : t[i] = s[i]
  BY PrefixFacts
<1>2. u \in Seq(B) /\ Len(u) = m /\ \A i \in 1 .. m : u[i] = s[i]
  <2>1. m \in 0 .. Len(s)
    BY <1>0
  <2>. QED  BY <2>1, PrefixFacts
<1>. HIDE DEF t, u
<1>3. /\ SubSeq(t, 1, m) \in Seq(B) /\ Len(SubSeq(t, 1, m)) = m
      /\ \A i \in 1 .. m : SubSeq(t, 1, m)[i] = t[i]
  BY <1>1, PrefixFacts
<1>4. \A i \in 1 .. m : SubSeq(t, 1, m)[i] = u[i]
  BY <1>0, <1>1, <1>2, <1>3
<1>5. SubSeq(t, 1, m) = u
  BY <1>2, <1>3, <1>4, SeqEqual
<1>. DEFINE v == SubSeq(t, m + 1, Len(t))
<1>6. /\ TokensOf(SubSeq(t, 1, m)) \in Nat /\ TokensOf(v) \in Nat
      /\ TokensOf(t) = TokensOf(SubSeq(t, 1, m)) + TokensOf(v)
  <2>1. m \in 0 .. Len(t)
    BY <1>1
  <2>. QED  BY <1>1, <2>1, TokensOfSplit
<1>. HIDE DEF v
<1>7. TokensOf(u) \in Nat /\ TokensOf(t) \in Nat /\ TokensOf(u) <= TokensOf(t)
  <2>1. TokensOf(u) \in Nat /\ TokensOf(t) = TokensOf(u) + TokensOf(v)
    BY <1>5, <1>6, Zenon
  <2>. QED  BY <1>6, <2>1
<1>. QED  BY <1>7 DEF t, u

\* No common prefix has more tokens than the longest.
LEMMA CommonPrefixTokens ==
    ASSUME NEW B, \A b \in B : b.token_count \in Nat, NEW p \in Seq(B), NEW s \in Seq(B)
    PROVE  /\ TokensOf(LongestCommonPrefix({p, s})) \in 0 .. TokensOf(s)
           /\ \A m \in 0 .. Len(s) :
                 m <= Len(p) /\ SubSeq(p, 1, m) = SubSeq(s, 1, m) =>
                     TokensOf(SubSeq(s, 1, m)) <= TokensOf(LongestCommonPrefix({p, s}))
<1>. DEFINE C == CommonPrefixes({p, s})
            T == {Len(x) : x \in C}
            longest == LongestCommonPrefix({p, s})
<1>0. Len(s) \in Nat /\ Len(p) \in Nat
  BY LenProperties
<1>1. ASSUME NEW x \in C
      PROVE  Len(x) \in 0 .. Len(s) /\ x = SubSeq(s, 1, Len(x))
  <2>1. x \in Prefixes(p) \cup Prefixes(s) /\ IsPrefix(x, s)
    BY <1>1 DEF CommonPrefixes
  <2>2. x \in Seq(B)
    BY <2>1, PrefixFacts DEF Prefixes
  <2>3. Len(x) <= Len(s) /\ SubSeq(x, 1, Len(x)) = SubSeq(s, 1, Len(x))
    BY <2>1 DEF IsPrefix
  <2>4. SubSeq(x, 1, Len(x)) = x /\ Len(x) \in Nat
    BY <2>2
  <2>. QED  BY <1>0, <2>3, <2>4
<1>2. ASSUME NEW m \in 0 .. Len(s), m <= Len(p), SubSeq(p, 1, m) = SubSeq(s, 1, m)
      PROVE  SubSeq(s, 1, m) \in C /\ Len(SubSeq(s, 1, m)) = m
  <2>. DEFINE x == SubSeq(s, 1, m)
  <2>1. x \in Seq(B) /\ Len(x) = m
    BY PrefixFacts
  <2>2. x \in Prefixes(s)
    BY DEF Prefixes
  <2>3. SubSeq(x, 1, Len(x)) = x
    BY <2>1
  <2>4. IsPrefix(x, s) /\ IsPrefix(x, p)
    BY <1>0, <1>2, <2>1, <2>3 DEF IsPrefix
  <2>. HIDE DEF x
  <2>5. x \in C
    BY <2>2, <2>4 DEF CommonPrefixes
  <2>. QED  BY <2>1, <2>5 DEF x
<1>3. T # {} /\ T \subseteq 0 .. Len(s)
  <2>0. PICK z \in 0 .. Len(s) : z = 0 /\ z <= Len(p) /\ z \in 0 .. Len(p)
    BY <1>0
  <2>1. SubSeq(p, 1, z) = SubSeq(s, 1, z)
    <3>1. /\ SubSeq(p, 1, z) \in Seq(B) /\ Len(SubSeq(p, 1, z)) = 0
          /\ SubSeq(s, 1, z) \in Seq(B) /\ Len(SubSeq(s, 1, z)) = 0
      BY <2>0, PrefixFacts
    <3>. QED  BY <3>1, EmptySeq
  <2>2. SubSeq(s, 1, z) \in C
    BY <1>2, <2>0, <2>1
  <2>. HIDE DEF C
  <2>3. \A x \in C : Len(x) \in 0 .. Len(s)
    BY <1>1
  <2>4. Len(SubSeq(s, 1, z)) \in T
    BY <2>2
  <2>5. T \subseteq 0 .. Len(s)
    BY <2>3, Zenon
  <2>. QED  BY <2>4, <2>5
<1>4. \E x \in C : \A y \in C : Len(y) <= Len(x)
  <2>1. Max(T) \in T /\ \A n \in T : n <= Max(T)
    <3>. HIDE DEF T
    <3>. QED  BY <1>0, <1>3, MaxFacts
  <2>. QED  BY <2>1
<1>5. longest \in C /\ \A y \in C : Len(y) <= Len(longest)
  BY <1>4 DEF LongestCommonPrefix
<1>. HIDE DEF C, longest
<1>6. PICK l \in 0 .. Len(s) : l = Len(longest) /\ longest = SubSeq(s, 1, l)
  BY <1>1, <1>5
<1>7. ASSUME NEW m \in 0 .. Len(s), m <= Len(p), SubSeq(p, 1, m) = SubSeq(s, 1, m)
      PROVE  TokensOf(SubSeq(s, 1, m)) <= TokensOf(longest)
  <2>1. m \in 0 .. l
    <3>1. SubSeq(s, 1, m) \in C /\ Len(SubSeq(s, 1, m)) = m
      BY <1>2, <1>7
    <3>2. m <= l
      BY <1>5, <1>6, <3>1, Zenon
    <3>. QED  BY <1>0, <3>2
  <2>. QED  BY <1>6, <2>1, TokensGrow
<1>8. TokensOf(longest) \in 0 .. TokensOf(s)
  <2>1. SubSeq(s, 1, Len(s)) = s /\ Len(s) \in 0 .. Len(s)
    BY <1>0
  <2>2. /\ TokensOf(SubSeq(s, 1, l)) \in Nat /\ TokensOf(SubSeq(s, 1, Len(s))) \in Nat
        /\ TokensOf(SubSeq(s, 1, l)) <= TokensOf(SubSeq(s, 1, Len(s)))
    BY <1>6, <2>1, TokensGrow
  <2>3. TokensOf(longest) \in Nat /\ TokensOf(s) \in Nat /\ TokensOf(longest) <= TokensOf(s)
    BY <1>6, <2>1, <2>2, Zenon
  <2>. QED  BY <2>3
<1>. QED  BY <1>7, <1>8 DEF longest

\* The first part of ReuseIsEarned.
LEMMA EarnedImplies ==
    ASSUME TypeInv, EarnedInv, NEW r \in Threads,
           NEW storing, \A q \in Threads : q \in storing <=> InPc(q, Storing), storing \subseteq Threads
    PROVE  thread[r].cached <= Max({0} \cup {CommonTokens(q, r) : q \in storing \ {r}})
<1>. DEFINE n == TokensOf(thread[r].prompt)
            T == {0} \cup {CommonTokens(q, r) : q \in storing \ {r}}
<1>1. \A q \in Threads : thread[q].prompt \in Seq(Blocks)
  BY PromptFacts DEF TypeInv
<1>2. \A b \in Blocks : b.token_count \in Nat
  BY PromptFacts DEF TypeInv, BlockSet
<1>3. n \in Nat
  BY <1>1, <1>2, TokensAreNatural
<1>4. ASSUME NEW q \in Threads
      PROVE  /\ CommonTokens(q, r) \in 0 .. n
             /\ \A m \in 0 .. Len(thread[r].prompt) :
                   m <= Len(thread[q].prompt) /\ Prefix(q, m) = Prefix(r, m) =>
                       TokensOf(Prefix(r, m)) <= CommonTokens(q, r)
  BY <1>1, <1>2, CommonPrefixTokens DEF CommonTokens, Prefix
<1>. HIDE DEF n
<1>5. T \subseteq 0 .. n /\ T # {} /\ 0 \in T
  BY <1>3, <1>4
<1>6. Max(T) \in 0 .. n /\ \A y \in T : y <= Max(T)
  <2>. HIDE DEF T
  <2>. QED  BY <1>3, <1>5, MaxFacts
<1>7. PICK m \in 0 .. Len(thread[r].prompt) : Sharing(r, m)
  BY DEF EarnedInv
<1>8. CASE m = 0
  <2>1. thread[r].cached = 0
    BY <1>7, <1>8, PrefixTokens DEF Sharing
  <2>. QED  BY <1>5, <1>6, <2>1
<1>9. CASE m > 0
  <2>1. PICK q \in Threads \ {r} :
           InPc(q, Storing) /\ m <= Len(thread[q].prompt) /\ Prefix(q, m) = Prefix(r, m)
    BY <1>7, <1>9 DEF Sharing
  <2>2. CommonTokens(q, r) \in T /\ q \in Threads
    BY <2>1
  <2>3. thread[r].cached <= CommonTokens(q, r)
    BY <1>4, <1>7, <2>1 DEF Sharing
  <2>4. CommonTokens(q, r) <= Max(T) /\ CommonTokens(q, r) \in Nat /\ Max(T) \in Nat
    BY <1>3, <1>4, <1>6, <2>2
  <2>5. thread[r].cached \in Nat
    BY DEF TypeInv, Locals
  <2>. HIDE DEF T
  <2>6. thread[r].cached <= Max(T)
    BY <2>3, <2>4, <2>5
  <2>. QED  BY <2>6 DEF T
<1>. QED  BY <1>7, <1>8, <1>9

------------------------------------------------------------------------------
(***************************************************************************)
(* The condition that the requests read, and the one they have saved.      *)
(***************************************************************************)
\* Before the observation has read the condition.
Early == {"queued", "estimate", "begin"}

\* The semaphore admits one request at a time.
Alone == config.max_concurrency <= 1

\* Only this cache model changes the condition.
Cow == config.model = "copy_on_write"

\* The condition is saved once, before it is used.
SavedInv ==
    \A r \in Threads :
        /\ InPc(r, Early) => thread[r].original_condition = Unsaved
        /\ InPc(r, {"reset", "toggle"}) => thread[r].original_condition # Unsaved

\* Who never saves never restores.
NeverChanged ==
    ~Cow \/ config.condition = "prefix_disabled" =>
        /\ condition = config.condition
        /\ \A r \in Threads : thread[r].original_condition = Unsaved

\* A warm cache is warm whoever restores.
AlwaysWarm ==
    config.condition = "warm" =>
        /\ condition = "warm"
        /\ \A r \in Threads : /\ thread[r].original_condition \in {Unsaved, "warm"}
                              /\ ~InPc(r, {"reset", "toggle", "super_reset"})

\* One at a time, only the request that will restore it has changed the condition.
ChangedByOne ==
    Alone =>
        /\ \A r \in Threads : thread[r].original_condition \in {Unsaved, config.condition}
        /\ condition # config.condition =>
              \E r \in Overlapping : thread[r].original_condition = config.condition

\* The second part of ReuseIsEarned.
NothingEarned ==
    config.condition # "warm" /\ (Alone \/ ~Cow) =>
        \A r \in Threads : ~InPc(r, {"estimate"}) /\ thread[r].cached = 0

ConditionInv == SavedInv /\ NeverChanged /\ AlwaysWarm /\ ChangedByOne /\ NothingEarned

\* A step that leaves the condition and what r has saved of it.
KeepsSaved(r) ==
    /\ condition' = condition /\ KeepsCondition(r)
    /\ thread'[r].pc \in Early => InPc(r, Early)
    /\ thread'[r].pc = "estimate" => InPc(r, {"estimate"})
    /\ thread'[r].pc \in {"reset", "toggle"} => InPc(r, {"reset", "toggle"})
    /\ thread'[r].pc = "super_reset" => condition = "cold"
    /\ thread'[r].pc \in {"done", "failed"} =>
           thread[r].original_condition = Unsaved \/ config.condition = "prefix_disabled"
    /\ thread'[r].cached = thread[r].cached \/ InPc(r, {"estimate"})

\* A condition is never mistaken for one that has not been saved.
LEMMA ConfigConditions ==
    ASSUME TypeInv
    PROVE  config.condition \in Conditions /\ config.condition # Unsaved /\ Unsaved \notin Conditions
<1>1. Unsaved \notin Conditions
  BY DEF Unsaved, Conditions
<1>2. config.condition \in Conditions
  BY ConfigsAssumption DEF TypeInv
<1>. QED  BY <1>1, <1>2

\* All actions but four are of this form.
LEMMA StepKeepsSaved ==
    ASSUME TypeInv, NEW r \in Threads, EstimateBlock(r) \/ Observe(r),
           ~BeginObserve(r), ~ToggleCondition(r), ~RestoreCondition(r)
    PROVE  KeepsSaved(r)
<1>1. AfterStore(r) = IF thread[r].original_condition # Unsaved THEN "restore" ELSE "done"
  BY DEF AfterStore
<1>3. CASE EstimateBlock(r)
  BY <1>3, EstimateStep DEF KeepsSaved, InPc, Early, Moves
<1>5. CASE ResetStorage(r)
  BY <1>5, ResetStep DEF KeepsSaved, InPc, Early, Moves, KeepsCounts
<1>7. CASE EnterSuper(r)
  BY <1>7, EnterStep DEF KeepsSaved, InPc, Early, Moves, KeepsCounts
<1>8. CASE LookupBlock(r)
  BY <1>8, LookupStep DEF KeepsSaved, InPc, Early, Moves
<1>9. CASE CountRequest(r)
  BY <1>9, CountStep DEF KeepsSaved, InPc, Early, Moves
<1>10. CASE AddTotals(r)
  BY <1>10, TotalStep DEF KeepsSaved, InPc, Early, Moves
<1>11. CASE StoreBlock(r)
  BY <1>1, <1>11, StoreStep DEF KeepsSaved, InPc, Early, Moves, KeepsCounts
<1>12. CASE BeginSum(r)
  BY <1>12, BeginSumStep DEF KeepsSaved, InPc, Early, Moves, KeepsCounts
<1>13. CASE EndSum(r)
  BY <1>1, <1>13, EndSumStep DEF KeepsSaved, InPc, Early, Moves, KeepsCounts
<1>14. CASE SumRaises(r)
  BY <1>14, SumRaisesStep DEF KeepsSaved, InPc, Early, Moves, KeepsCounts
<1>. QED
  BY <1>3, <1>5, <1>7, <1>8, <1>9, <1>10, <1>11, <1>12, <1>13, <1>14 DEF Observe

\* They keep the invariant.
LEMMA ConditionKept ==
    ASSUME TypeInv, ConditionInv, NEW r \in Threads, Takes(r), KeepsSaved(r), config' = config
    PROVE  ConditionInv'
<1>1. \A s \in Threads \ {r} : Same(s)
  BY DEF Takes
<1>2. \A s \in Threads : thread'[s].original_condition = thread[s].original_condition
  BY <1>1 DEF Same, KeepsSaved, KeepsCondition
<1>3. SavedInv'
  BY <1>1, <1>2 DEF ConditionInv, SavedInv, KeepsSaved, Same, InPc
<1>4. NeverChanged'
  BY <1>2 DEF ConditionInv, NeverChanged, KeepsSaved, Cow
<1>5. AlwaysWarm'
  BY <1>1, <1>2 DEF ConditionInv, AlwaysWarm, KeepsSaved, Same, InPc
<1>6. ChangedByOne'
  <2>. SUFFICES ASSUME Alone, condition # config.condition
                PROVE  \E s \in Overlapping' : thread'[s].original_condition = config.condition
    BY <1>2 DEF ConditionInv, ChangedByOne, KeepsSaved, Alone
  <2>1. PICK s \in Overlapping : thread[s].original_condition = config.condition
    BY DEF ConditionInv, ChangedByOne
  <2>2. s \in Overlapping'
    <3>1. CASE s = r
      <4>1. thread'[r].pc \notin {"done", "failed"}
        <5>1. config.condition # "prefix_disabled"
          BY DEF ConditionInv, NeverChanged
        <5>. QED  BY <2>1, <3>1, <5>1, ConfigConditions DEF KeepsSaved
      <4>2. thread'[r].pc # "queued"
        <5>1. SavedInv
          BY DEF ConditionInv
        <5>2. ~InPc(r, Early)
          BY <2>1, <3>1, <5>1, ConfigConditions DEF SavedInv
        <5>. QED  BY <5>2 DEF KeepsSaved, Early
      <4>. QED  BY <3>1, <4>1, <4>2 DEF Overlapping
    <3>2. CASE s # r
      BY <1>1, <2>1, <3>2 DEF Overlapping, Same
    <3>. QED  BY <3>1, <3>2
  <2>. QED  BY <1>2, <2>1, <2>2 DEF Overlapping
<1>7. NothingEarned'
  <2>. SUFFICES ASSUME config.condition # "warm", Alone \/ ~Cow, NEW s \in Threads
                PROVE  ~InPc(s, {"estimate"})' /\ thread'[s].cached = 0
    BY DEF NothingEarned, Alone, Cow
  <2>1. \A x \in Threads : ~InPc(x, {"estimate"}) /\ thread[x].cached = 0
    BY DEF ConditionInv, NothingEarned
  <2>2. CASE s = r
    BY <2>1, <2>2 DEF KeepsSaved, InPc
  <2>3. CASE s # r
    BY <1>1, <2>1, <2>3 DEF Same, InPc
  <2>. QED  BY <2>2, <2>3
<1>. QED  BY <1>3, <1>4, <1>5, <1>6, <1>7 DEF ConditionInv

\* One at a time, the others have saved nothing that is to be restored.
LEMMA OthersUnchanged ==
    ASSUME TypeInv, AdmissionInv, ConditionInv, Alone,
           NEW r \in Overlapping, thread[r].original_condition = Unsaved
    PROVE  condition = config.condition
<1>. SUFFICES ASSUME condition # config.condition PROVE FALSE
  OBVIOUS
<1>1. PICK s \in Overlapping : thread[s].original_condition = config.condition
  BY DEF ConditionInv, ChangedByOne
<1>2. s # r
  BY <1>1, ConfigConditions
<1>3. config.max_concurrency > 1
  BY <1>1, <1>2, TwoOverlap DEF AdmissionInv
<1>4. config.max_concurrency \in Nat
  BY BoundFacts
<1>. QED  BY <1>3, <1>4 DEF Alone

\* No request overlaps with one that the semaphore has just admitted alone.
LEMMA StartsAlone ==
    ASSUME TypeInv, Alone, NEW r \in Threads, Start(r)
    PROVE  Overlapping = {}
<1>1. /\ Cardinality(Overlapping) \in Nat /\ IsFiniteSet(Overlapping)
      /\ config.max_concurrency \in Nat
      /\ Bound = IF config.max_concurrency > 1 THEN config.max_concurrency ELSE 1
  BY BoundFacts
<1>2. Cardinality(Overlapping) < Bound
  BY DEF Start, Bound
<1>3. Cardinality(Overlapping) = 0
  BY <1>1, <1>2 DEF Alone
<1>. QED  BY <1>1, <1>3, FS_EmptySet

LEMMA ConditionStep ==
    ASSUME TypeInv, AdmissionInv, ConditionInv, Next
    PROVE  ConditionInv'
<1>1. PICK r \in Threads : Start(r) \/ EstimateBlock(r) \/ Observe(r)
  BY DEF Next
<1>2. Takes(r) /\ config' = config /\ \A s \in Threads \ {r} : Same(s)
  BY <1>1, StepIsTaken, TypeStep DEF Takes
<1>3. SavedInv /\ NeverChanged /\ AlwaysWarm /\ ChangedByOne /\ NothingEarned
  BY DEF ConditionInv
<1>4. CASE Start(r)
  <2>1. /\ thread[r].pc = "queued"
        /\ thread'[r].pc = IF condition = "warm" THEN "estimate" ELSE "begin"
        /\ thread'[r].cached = thread[r].cached
        /\ thread'[r].original_condition = thread[r].original_condition
        /\ condition' = condition
    BY <1>4, StartStep DEF Moves, KeepsCounts, KeepsCondition
  <2>2. \A s \in Threads : thread'[s].original_condition = thread[s].original_condition
    BY <1>2, <2>1 DEF Same
  <2>3. SavedInv'
    <3>1. thread[r].original_condition = Unsaved
      BY <1>3, <2>1 DEF SavedInv, InPc, Early
    <3>. QED  BY <1>2, <1>3, <2>1, <2>2, <3>1 DEF SavedInv, Same, InPc, Early
  <2>4. NeverChanged'
    BY <1>2, <1>3, <2>1, <2>2 DEF NeverChanged, Cow
  <2>5. AlwaysWarm'
    BY <1>2, <1>3, <2>1, <2>2 DEF AlwaysWarm, Same, InPc
  <2>6. ASSUME Alone PROVE condition = config.condition
    <3>1. Overlapping = {}
      BY <1>4, <2>6, StartsAlone
    <3>. QED  BY <1>3, <2>6, <3>1 DEF ChangedByOne
  <2>7. ChangedByOne'
    BY <1>2, <1>3, <2>1, <2>2, <2>6 DEF ChangedByOne, Alone
  <2>8. NothingEarned'
    <3>. SUFFICES ASSUME config.condition # "warm", Alone \/ ~Cow, NEW s \in Threads
                  PROVE  ~InPc(s, {"estimate"})' /\ thread'[s].cached = 0
      BY <1>2 DEF NothingEarned, Alone, Cow
    <3>1. \A x \in Threads : ~InPc(x, {"estimate"}) /\ thread[x].cached = 0
      BY <1>3 DEF NothingEarned
    <3>2. condition = config.condition
      BY <1>3, <2>6 DEF NeverChanged
    <3>. QED  BY <1>2, <2>1, <3>1, <3>2 DEF Same, InPc
  <2>. QED  BY <2>3, <2>4, <2>5, <2>7, <2>8 DEF ConditionInv
<1>5. CASE BeginObserve(r)
  <2>1. /\ thread[r].pc = "begin" /\ thread'[r].cached = thread[r].cached
        /\ condition' = condition
        /\ \/ /\ config.model = "copy_on_write" /\ condition # "prefix_disabled"
              /\ thread'[r].pc = IF condition = "cold" THEN "reset" ELSE "super"
              /\ thread'[r].original_condition = condition
           \/ thread'[r].pc = "super" /\ KeepsCondition(r)
    BY <1>5, BeginStep DEF Moves, KeepsCounts
  <2>2. CASE thread'[r].pc = "super" /\ KeepsCondition(r)
    <3>1. KeepsSaved(r)
      BY <2>1, <2>2 DEF KeepsSaved, Early
    <3>. QED  BY <1>2, <3>1, ConditionKept
  <2>3. CASE /\ config.model = "copy_on_write" /\ condition # "prefix_disabled"
             /\ thread'[r].pc = IF condition = "cold" THEN "reset" ELSE "super"
             /\ thread'[r].original_condition = condition
    <3>1. condition # Unsaved /\ condition \in Conditions
      BY ConfigConditions DEF TypeInv
    <3>2. SavedInv'
      BY <1>2, <1>3, <2>3, <3>1 DEF SavedInv, Same, InPc, Early
    <3>3. NeverChanged'
      BY <1>2, <1>3, <2>3 DEF NeverChanged, Cow
    <3>4. AlwaysWarm'
      BY <1>2, <1>3, <2>1, <2>3 DEF AlwaysWarm, Same, InPc
    <3>5. ASSUME Alone PROVE condition = config.condition
      <4>1. r \in Overlapping /\ thread[r].original_condition = Unsaved
        BY <1>3, <2>1 DEF Overlapping, SavedInv, InPc, Early
      <4>. QED  BY <3>5, <4>1, OthersUnchanged
    <3>6. ChangedByOne'
      <4>1. Alone =>
              /\ \A s \in Threads : thread'[s].original_condition \in {Unsaved, config.condition}
              /\ condition' = config.condition
        BY <1>2, <1>3, <2>1, <2>3, <3>5 DEF ChangedByOne, Same
      <4>. QED  BY <1>2, <4>1 DEF ChangedByOne, Alone
    <3>7. NothingEarned'
      BY <1>2, <1>3, <2>1, <2>3 DEF NothingEarned, Alone, Cow, Same, InPc
    <3>. QED  BY <3>2, <3>3, <3>4, <3>6, <3>7 DEF ConditionInv
  <2>. QED  BY <2>1, <2>2, <2>3
<1>6. CASE ToggleCondition(r)
  <2>1. /\ thread[r].pc = "toggle" /\ thread'[r].pc = "super"
        /\ thread'[r].cached = thread[r].cached
        /\ thread'[r].original_condition = thread[r].original_condition
        /\ condition' = "warm"
    BY <1>6, ToggleStep DEF Moves, KeepsCounts, KeepsCondition
  <2>2. \A s \in Threads : thread'[s].original_condition = thread[s].original_condition
    BY <1>2, <2>1 DEF Same
  <2>3. thread[r].original_condition # Unsaved
    BY <1>3, <2>1 DEF SavedInv, InPc
  <2>4. SavedInv'
    BY <1>2, <1>3, <2>1, <2>2 DEF SavedInv, Same, InPc, Early
  <2>5. NeverChanged'
    BY <1>2, <1>3, <2>3 DEF NeverChanged, Cow
  <2>6. AlwaysWarm'
    BY <1>2, <1>3, <2>1, <2>2 DEF AlwaysWarm, Same, InPc
  <2>7. ChangedByOne'
    <3>1. r \in Overlapping'
      BY <2>1 DEF Overlapping
    <3>2. Alone => thread'[r].original_condition = config.condition
      BY <1>3, <2>1, <2>3 DEF ChangedByOne
    <3>. QED  BY <1>2, <1>3, <2>2, <3>1, <3>2 DEF ChangedByOne, Alone
  <2>8. NothingEarned'
    BY <1>2, <1>3, <2>1 DEF NothingEarned, Alone, Cow, Same, InPc
  <2>. QED  BY <2>4, <2>5, <2>6, <2>7, <2>8 DEF ConditionInv
<1>7. CASE RestoreCondition(r)
  <2>1. /\ thread[r].pc = "restore" /\ thread'[r].pc \in {"failed", "done"}
        /\ thread'[r].cached = thread[r].cached
        /\ thread'[r].original_condition = thread[r].original_condition
        /\ condition' = thread[r].original_condition
        /\ thread[r].original_condition # Unsaved
    BY <1>7, RestoreStep DEF Moves, KeepsCounts, KeepsCondition, TypeInv, InPc
  <2>2. \A s \in Threads : thread'[s].original_condition = thread[s].original_condition
    BY <1>2, <2>1 DEF Same
  <2>3. SavedInv'
    BY <1>2, <1>3, <2>1, <2>2 DEF SavedInv, Same, InPc, Early
  <2>4. NeverChanged'
    BY <1>2, <1>3, <2>1 DEF NeverChanged, Cow
  <2>5. AlwaysWarm'
    BY <1>2, <1>3, <2>1, <2>2 DEF AlwaysWarm, Same, InPc
  <2>6. ChangedByOne'
    <3>1. Alone => condition' = config.condition
      BY <1>3, <2>1 DEF ChangedByOne
    <3>. QED  BY <1>2, <1>3, <2>2, <3>1 DEF ChangedByOne, Alone
  <2>7. NothingEarned'
    BY <1>2, <1>3, <2>1 DEF NothingEarned, Alone, Cow, Same, InPc
  <2>. QED  BY <2>3, <2>4, <2>5, <2>6, <2>7 DEF ConditionInv
<1>8. CASE /\ EstimateBlock(r) \/ Observe(r)
           /\ ~BeginObserve(r) /\ ~ToggleCondition(r) /\ ~RestoreCondition(r)
  BY <1>2, <1>8, StepKeepsSaved, ConditionKept
<1>. QED  BY <1>1, <1>4, <1>5, <1>6, <1>7, <1>8

LEMMA ConditionInit == Init => ConditionInv
<1>. SUFFICES ASSUME Init PROVE ConditionInv
  OBVIOUS
<1>1. condition = config.condition
  BY DEF Init
<1>2. \A r \in Threads : /\ thread[r].pc = "queued" /\ thread[r].original_condition = Unsaved
                         /\ thread[r].cached = 0
  BY DEF Init
<1>. QED
  BY <1>1, <1>2
  DEF ConditionInv, SavedInv, NeverChanged, AlwaysWarm, ChangedByOne, NothingEarned, InPc

------------------------------------------------------------------------------
(***************************************************************************)
(* Sums over some of the requests.                                         *)
(***************************************************************************)
\* SumOver is the sum of DataLemmas.
LEMMA SumOverAdds ==
    ASSUME NEW D, IsFiniteSet(D), NEW f \in [D -> Nat],
           NEW g \in [SUBSET D -> Nat], IsSum(g, D, f), NEW S \in SUBSET D
    PROVE  SumOver(f, S) = g[S]
<1>. DEFINE Is(h) == h = [s \in SUBSET S |-> IF s = {} THEN 0
                             ELSE f[CHOOSE x \in s : TRUE] + h[s \ {CHOOSE x \in s : TRUE}]]
            fold == CHOOSE h : Is(h)
            gS == [s \in SUBSET S |-> g[s]]
<1>1. SumOver(f, S) = fold[S]
  BY Zenon DEF SumOver, MapThenSumSet, MapThenFoldSet
<1>2. \A s \in SUBSET S : s \in SUBSET D /\ s \ {CHOOSE x \in s : TRUE} \in SUBSET S
  OBVIOUS
<1>3. \A s \in SUBSET S : gS[s] = IF s = {} THEN 0
                ELSE f[CHOOSE x \in s : TRUE] + gS[s \ {CHOOSE x \in s : TRUE}]
  BY <1>2 DEF IsSum
<1>4. Is(gS)
  <2>1. gS = [s \in SUBSET S |-> gS[s]]
    OBVIOUS
  <2>. HIDE DEF gS
  <2>. QED  BY <1>3, <2>1
<1>5. Is(fold)
  BY <1>4
<1>6. \A s \in SUBSET S : fold[s] = IF s = {} THEN 0
                ELSE f[CHOOSE x \in s : TRUE] + fold[s \ {CHOOSE x \in s : TRUE}]
  BY <1>5
<1>. HIDE DEF fold
<1>7. IsSum(fold, S, f) /\ IsSum(gS, S, f)
  <2>. HIDE DEF gS
  <2>. QED  BY <1>3, <1>6 DEF IsSum
<1>8. IsFiniteSet(S)
  BY FS_Subset
<1>9. gS[S] = g[S] /\ S \in SUBSET S
  OBVIOUS
<1>. HIDE DEF gS
<1>10. fold[S] = gS[S]
  BY <1>7, <1>8, <1>9, SumIsUnique
<1>. QED  BY <1>1, <1>9, <1>10

\* One more element adds its value.
LEMMA SumOverFacts ==
    ASSUME NEW D, IsFiniteSet(D), NEW f \in [D -> Nat]
    PROVE  /\ \A S \in SUBSET D : SumOver(f, S) \in Nat
           /\ SumOver(f, {}) = 0
           /\ \A S \in SUBSET D : \A x \in S : SumOver(f, S) = f[x] + SumOver(f, S \ {x})
<1>1. PICK g \in [SUBSET D -> Nat] : IsSum(g, D, f)
  BY SumExists
<1>2. \A S \in SUBSET D : SumOver(f, S) = g[S]
  BY <1>1, SumOverAdds
<1>3. g[{}] = 0 /\ \A S \in SUBSET D : \A x \in S : g[S] = f[x] + g[S \ {x}]
  <2>1. Adds(g, D, f)
    BY <1>1 DEF Adds
  <2>. QED  BY <2>1, AddsUp
<1>4. {} \in SUBSET D /\ \A S \in SUBSET D : \A x \in S : S \ {x} \in SUBSET D
  OBVIOUS
<1>. QED  BY <1>2, <1>3, <1>4

\* Equal values have equal sums.
LEMMA SumOverSame ==
    ASSUME NEW D, IsFiniteSet(D), NEW f \in [D -> Nat], NEW h \in [D -> Nat],
           NEW S \in SUBSET D, \A x \in S : f[x] = h[x]
    PROVE  SumOver(f, S) = SumOver(h, S)
<1>. DEFINE P == {k \in Nat : \A s \in SUBSET S : Cardinality(s) = k => SumOver(f, s) = SumOver(h, s)}
<1>1. \A s \in SUBSET S : IsFiniteSet(s) /\ Cardinality(s) \in Nat /\ s \in SUBSET D
  <2>1. IsFiniteSet(S)
    BY FS_Subset
  <2>. QED  BY <2>1, FS_Subset, FS_CardinalityType
<1>2. /\ SumOver(f, {}) = 0
      /\ \A s \in SUBSET D : \A x \in s : SumOver(f, s) = f[x] + SumOver(f, s \ {x})
  BY SumOverFacts
<1>3. /\ SumOver(h, {}) = 0
      /\ \A s \in SUBSET D : \A x \in s : SumOver(h, s) = h[x] + SumOver(h, s \ {x})
  BY SumOverFacts
<1>4. 0 \in P
  <2>1. \A s \in SUBSET S : Cardinality(s) = 0 => s = {}
    BY <1>1, FS_EmptySet
  <2>. QED  BY <1>2, <1>3, <2>1
<1>5. ASSUME NEW k \in Nat, k \in P PROVE k + 1 \in P
  <2>1. ASSUME NEW s \in SUBSET S, Cardinality(s) = k + 1 PROVE SumOver(f, s) = SumOver(h, s)
    <3>1. IsFiniteSet(s) /\ s # {}
      <4>1. IsFiniteSet(s) /\ Cardinality(s) # 0
        BY <1>1, <2>1
      <4>. QED  BY <4>1, FS_EmptySet
    <3>2. PICK x \in s : TRUE
      BY <3>1
    <3>3. s \ {x} \in SUBSET S /\ Cardinality(s \ {x}) = k
      <4>1. Cardinality(s \ {x}) = Cardinality(s) - 1
        BY <3>1, <3>2, FS_RemoveElement
      <4>. QED  BY <2>1, <4>1
    <3>4. SumOver(f, s \ {x}) = SumOver(h, s \ {x})
      BY <1>5, <3>3
    <3>5. f[x] = h[x]
      BY <3>2
    <3>6. /\ SumOver(f, s) = f[x] + SumOver(f, s \ {x})
          /\ SumOver(h, s) = h[x] + SumOver(h, s \ {x})
      BY <1>1, <1>2, <1>3, <3>2
    <3>. QED  BY <3>4, <3>5, <3>6
  <2>. QED  BY <2>1
<1>. HIDE DEF P
<1>6. \A k \in Nat : k \in P
  BY <1>4, <1>5, InductionOnNat
<1>7. S \in SUBSET S
  OBVIOUS
<1>. QED  BY <1>1, <1>6, <1>7 DEF P

------------------------------------------------------------------------------
(***************************************************************************)
(* The counters.  A loop over the blocks begins with the first one, and    *)
(* nothing is counted before the table has been asked.                     *)
(***************************************************************************)
\* Before the table is asked for the first block.
BeforeLookup == Early \cup {"reset", "toggle", "super", "super_reset"}

\* Where the loop of r and its counts are then.
Place(r) ==
    /\ InPc(r, (BeforeLookup \cup {"count", "total"}) \ {"estimate"}) => thread[r].i = 1
    /\ InPc(r, BeforeLookup) => thread[r].reused = 0
    /\ InPc(r, {"queued"}) => thread[r].cached = 0

PlaceInv == \A r \in Threads : Place(r)

\* Whom request_count has counted.
Observed == {r \in Threads : InPc(r, {"total"} \cup Storing)}

\* Whose tokens the totals have counted.
Added == {r \in Threads : InPc(r, Storing)}

\* What a step may do to the counters and to who has been counted.
Counts(r) ==
    \/ CountRequest(r)
    \/ AddTotals(r)
    \/ /\ UNCHANGED Counters
       /\ InPc(r, Storing)' <=> InPc(r, Storing)
       /\ ~InPc(r, {"total"}) /\ ~InPc(r, {"total"})'

\* Every action is of this form.
LEMMA StepCounts ==
    ASSUME TypeInv, NEW r \in Threads, Start(r) \/ EstimateBlock(r) \/ Observe(r)
    PROVE  Counts(r)
<1>1. AfterStore(r) \in {"restore", "done"}
  BY DEF AfterStore
<1>2. CASE Start(r)
  BY <1>2, StartStep DEF Counts, InPc, Storing, Moves, Counters
<1>3. CASE EstimateBlock(r)
  BY <1>3, EstimateStep DEF Counts, InPc, Storing, Moves, Counters
<1>4. CASE BeginObserve(r)
  BY <1>4, BeginStep DEF Counts, InPc, Storing, Moves, Counters
<1>5. CASE ResetStorage(r)
  BY <1>5, ResetStep DEF Counts, InPc, Storing, Moves, Counters
<1>6. CASE ToggleCondition(r)
  BY <1>6, ToggleStep DEF Counts, InPc, Storing, Moves, Counters
<1>7. CASE EnterSuper(r)
  BY <1>7, EnterStep DEF Counts, InPc, Storing, Moves, Counters
<1>8. CASE LookupBlock(r)
  BY <1>8, LookupStep DEF Counts, InPc, Storing, Moves, Counters
<1>9. CASE StoreBlock(r)
  BY <1>1, <1>9, StoreStep DEF Counts, InPc, Storing, Moves, Counters
<1>10. CASE BeginSum(r)
  BY <1>10, BeginSumStep DEF Counts, InPc, Storing, Moves, Counters
<1>11. CASE EndSum(r)
  BY <1>1, <1>11, EndSumStep DEF Counts, InPc, Storing, Moves, Counters
<1>12. CASE SumRaises(r)
  BY <1>12, SumRaisesStep DEF Counts, InPc, Storing, Moves, Counters
<1>13. CASE RestoreCondition(r)
  BY <1>13, RestoreStep DEF Counts, InPc, Storing, Moves, Counters
<1>. QED
  BY <1>2, <1>3, <1>4, <1>5, <1>6, <1>7, <1>8, <1>9, <1>10, <1>11, <1>12, <1>13
  DEF Observe, Counts

LEMMA PlaceStep ==
    ASSUME TypeInv, PlaceInv, Next
    PROVE  PlaceInv'
<1>1. PICK r \in Threads : Start(r) \/ EstimateBlock(r) \/ Observe(r)
  BY DEF Next
<1>2. \A s \in Threads \ {r} : Same(s)
  BY <1>1, StepIsTaken DEF Takes
<1>3. Place(r)
  BY DEF PlaceInv
<1>4. AfterStore(r) \in {"restore", "done"} /\ (IsLast(r) => NextI(r) = 1)
  BY DEF AfterStore, NextI
<1>5. Place(r)'
  <2>2. CASE Start(r)
    BY <1>3, <2>2, StartStep DEF Place, InPc, BeforeLookup, Early, Moves, KeepsCounts
  <2>3. CASE EstimateBlock(r)
    BY <1>3, <1>4, <2>3, EstimateStep DEF Place, InPc, BeforeLookup, Early, Moves
  <2>4. CASE BeginObserve(r)
    BY <1>3, <2>4, BeginStep DEF Place, InPc, BeforeLookup, Early, Moves, KeepsCounts
  <2>5. CASE ResetStorage(r)
    BY <1>3, <2>5, ResetStep DEF Place, InPc, BeforeLookup, Early, Moves, KeepsCounts
  <2>6. CASE ToggleCondition(r)
    BY <1>3, <2>6, ToggleStep DEF Place, InPc, BeforeLookup, Early, Moves, KeepsCounts
  <2>7. CASE EnterSuper(r)
    BY <1>3, <2>7, EnterStep DEF Place, InPc, BeforeLookup, Early, Moves, KeepsCounts
  <2>8. CASE LookupBlock(r)
    BY <1>3, <1>4, <2>8, LookupStep DEF Place, InPc, BeforeLookup, Early, Moves
  <2>9. CASE CountRequest(r)
    BY <1>3, <2>9, CountStep DEF Place, InPc, BeforeLookup, Early, Moves
  <2>10. CASE AddTotals(r)
    BY <1>3, <2>10, TotalStep DEF Place, InPc, BeforeLookup, Early, Moves
  <2>11. CASE StoreBlock(r)
    BY <1>4, <2>11, StoreStep DEF Place, InPc, BeforeLookup, Early, Moves
  <2>12. CASE BeginSum(r)
    BY <2>12, BeginSumStep DEF Place, InPc, BeforeLookup, Early, Moves
  <2>13. CASE EndSum(r)
    BY <1>4, <2>13, EndSumStep DEF Place, InPc, BeforeLookup, Early, Moves
  <2>14. CASE SumRaises(r)
    BY <2>14, SumRaisesStep DEF Place, InPc, BeforeLookup, Early, Moves
  <2>15. CASE RestoreCondition(r)
    BY <2>15, RestoreStep DEF Place, InPc, BeforeLookup, Early, Moves
  <2>. QED
    BY <1>1, <2>2, <2>3, <2>4, <2>5, <2>6, <2>7, <2>8, <2>9, <2>10, <2>11, <2>12, <2>13,
       <2>14, <2>15 DEF Observe
<1>6. ASSUME NEW s \in Threads \ {r} PROVE Place(s)'
  <2>1. Same(s) /\ Place(s)
    BY <1>2 DEF PlaceInv
  <2>. QED  BY <2>1 DEF Same, Place, InPc
<1>. QED  BY <1>5, <1>6 DEF PlaceInv

\* request_count counts every request once.
CountInv == request_count = Cardinality(Observed)

LEMMA CountInvStep ==
    ASSUME TypeInv, CountInv, Next
    PROVE  CountInv'
<1>1. PICK r \in Threads : Start(r) \/ EstimateBlock(r) \/ Observe(r)
  BY DEF Next
<1>2. \A s \in Threads \ {r} : Same(s)
  BY <1>1, StepIsTaken DEF Takes
<1>3. \A s \in Threads \ {r} : s \in Observed' <=> s \in Observed
  BY <1>2 DEF Observed, Same, InPc
<1>4. Observed' \subseteq Threads /\ Observed \subseteq Threads
  BY DEF Observed, Threads
<1>5. CASE CountRequest(r)
  <2>1. thread[r].pc = "count" /\ thread'[r].pc = "total" /\ request_count' = request_count + 1
    BY <1>5, CountStep DEF Moves
  <2>2. r \notin Observed /\ r \in Observed'
    BY <2>1 DEF Observed, InPc, Storing
  <2>3. Observed' = Observed \cup {r}
    BY <1>3, <1>4, <2>2
  <2>4. IsFiniteSet(Observed)
    BY <1>4, BoundFacts, FS_Subset
  <2>5. Cardinality(Observed \cup {r}) = Cardinality(Observed) + 1
    BY <2>2, <2>4, FS_AddElement
  <2>. QED  BY <2>1, <2>3, <2>5 DEF CountInv
<1>6. CASE ~CountRequest(r)
  <2>1. request_count' = request_count /\ (r \in Observed' <=> r \in Observed)
    <3>1. CASE AddTotals(r)
      BY <3>1, TotalStep DEF Moves, Observed, InPc, Storing
    <3>2. CASE ~AddTotals(r)
      <4>1. /\ UNCHANGED Counters /\ (InPc(r, Storing)' <=> InPc(r, Storing))
            /\ ~InPc(r, {"total"}) /\ ~InPc(r, {"total"})'
        BY <1>1, <1>6, <3>2, StepCounts DEF Counts
      <4>. QED  BY <4>1 DEF Observed, InPc, Counters
    <3>. QED  BY <3>1, <3>2
  <2>2. \A s : s \in Observed' <=> s \in Observed
    BY <1>3, <1>4, <2>1
  <2>3. Observed' = Observed
    <3>. HIDE DEF Observed
    <3>. QED  BY <2>2
  <2>. QED  BY <2>1, <2>3 DEF CountInv
<1>. QED  BY <1>5, <1>6

------------------------------------------------------------------------------
(***************************************************************************)
(* The total of the prompt tokens: a thread may add to one it has seen     *)
(* before another has added to it, and never to a larger one.              *)
(***************************************************************************)
\* The tokens of the prompts, and of the estimates.
PromptTokens == [r \in Threads |-> TokensOf(thread[r].prompt)]

CachedTokens == [r \in Threads |-> thread[r].cached]

\* They are numbers, and so are their sums.
LEMMA TokensTypes ==
    ASSUME TypeInv
    PROVE  /\ PromptTokens \in [Threads -> Nat] /\ CachedTokens \in [Threads -> Nat]
           /\ IsFiniteSet(Threads) /\ Added \in SUBSET Threads
           /\ SumOver(PromptTokens, Added) \in Nat /\ SumOver(CachedTokens, Added) \in Nat
           /\ \A r \in Threads \ Added :
                 /\ Added \cup {r} \in SUBSET Threads
                 /\ SumOver(PromptTokens, Added \cup {r}) =
                        SumOver(PromptTokens, Added) + TokensOf(thread[r].prompt)
                 /\ SumOver(CachedTokens, Added \cup {r}) =
                        SumOver(CachedTokens, Added) + thread[r].cached
<1>1. /\ \A r \in Threads : thread[r].prompt \in Seq(Blocks)
      /\ \A b \in Blocks : b.token_count \in Nat
  BY PromptFacts DEF TypeInv, BlockSet
<1>2. PromptTokens \in [Threads -> Nat]
  BY <1>1, TokensAreNatural DEF PromptTokens
<1>3. CachedTokens \in [Threads -> Nat]
  BY DEF TypeInv, Locals, CachedTokens
<1>4. IsFiniteSet(Threads) /\ Added \in SUBSET Threads
  BY BoundFacts DEF Added
<1>5. /\ \A S \in SUBSET Threads : SumOver(PromptTokens, S) \in Nat
      /\ \A S \in SUBSET Threads : \A x \in S :
             SumOver(PromptTokens, S) = PromptTokens[x] + SumOver(PromptTokens, S \ {x})
  BY <1>2, <1>4, SumOverFacts
<1>6. /\ \A S \in SUBSET Threads : SumOver(CachedTokens, S) \in Nat
      /\ \A S \in SUBSET Threads : \A x \in S :
             SumOver(CachedTokens, S) = CachedTokens[x] + SumOver(CachedTokens, S \ {x})
  BY <1>3, <1>4, SumOverFacts
<1>7. ASSUME NEW r \in Threads \ Added
      PROVE  /\ Added \cup {r} \in SUBSET Threads
             /\ SumOver(PromptTokens, Added \cup {r}) =
                    SumOver(PromptTokens, Added) + TokensOf(thread[r].prompt)
             /\ SumOver(CachedTokens, Added \cup {r}) =
                    SumOver(CachedTokens, Added) + thread[r].cached
  <2>. DEFINE S == Added \cup {r}
  <2>1. S \in SUBSET Threads /\ r \in S /\ S \ {r} = Added
    BY <1>4
  <2>2. /\ PromptTokens[r] = TokensOf(thread[r].prompt) /\ CachedTokens[r] = thread[r].cached
        /\ PromptTokens[r] \in Nat /\ CachedTokens[r] \in Nat
    BY <1>2, <1>3 DEF PromptTokens, CachedTokens
  <2>. HIDE DEF S
  <2>3. SumOver(PromptTokens, S) = PromptTokens[r] + SumOver(PromptTokens, Added)
    BY <1>5, <2>1
  <2>4. SumOver(CachedTokens, S) = CachedTokens[r] + SumOver(CachedTokens, Added)
    BY <1>6, <2>1
  <2>5. SumOver(PromptTokens, Added) \in Nat /\ SumOver(CachedTokens, Added) \in Nat
    BY <1>4, <1>5, <1>6
  <2>6. /\ SumOver(PromptTokens, S) = SumOver(PromptTokens, Added) + TokensOf(thread[r].prompt)
        /\ SumOver(CachedTokens, S) = SumOver(CachedTokens, Added) + thread[r].cached
    BY <2>2, <2>3, <2>4, <2>5
  <2>. QED  BY <2>1, <2>6 DEF S
<1>. QED  BY <1>2, <1>3, <1>4, <1>5, <1>6, <1>7

\* The tokens of those who have been counted change only when r adds its own.
LEMMA SumsStep ==
    ASSUME TypeInv, NEW r \in Threads, Start(r) \/ EstimateBlock(r) \/ Observe(r)
    PROVE  /\ AddTotals(r) =>
                 /\ SumOver(PromptTokens, Added)' =
                        SumOver(PromptTokens, Added) + TokensOf(thread[r].prompt)
                 /\ SumOver(CachedTokens, Added)' = SumOver(CachedTokens, Added) + thread[r].cached
           /\ ~AddTotals(r) =>
                 /\ SumOver(PromptTokens, Added)' = SumOver(PromptTokens, Added)
                 /\ SumOver(CachedTokens, Added)' = SumOver(CachedTokens, Added)
<1>1. /\ TypeInv' /\ \A s \in Threads : thread'[s].prompt = thread[s].prompt
      /\ \A s \in Threads \ {r} : Same(s)
  BY TypeStep, StepIsTaken DEF PromptsKept, Next, Takes
<1>2. PromptTokens' = PromptTokens
  BY <1>1 DEF PromptTokens, Threads
<1>3. \A s \in Threads \ {r} : s \in Added' <=> s \in Added
  BY <1>1 DEF Added, Same, InPc
<1>4. Added \subseteq Threads /\ Added' \subseteq Threads
  BY DEF Added, Threads
<1>5. SumOver(PromptTokens, Added)' = SumOver(PromptTokens', Added')
      /\ SumOver(CachedTokens, Added)' = SumOver(CachedTokens', Added')
  OBVIOUS
<1>6. CachedTokens' \in [Threads -> Nat]
  <2>1. \A s \in Threads : thread'[s].cached \in Nat
    BY <1>1 DEF TypeInv, Locals
  <2>. QED  BY <2>1 DEF CachedTokens, Threads
<1>7. \A S \in SUBSET Threads :
          (\A s \in S : thread'[s].cached = thread[s].cached) =>
              SumOver(CachedTokens', S) = SumOver(CachedTokens, S)
  <2>. SUFFICES ASSUME NEW S \in SUBSET Threads, \A s \in S : thread'[s].cached = thread[s].cached
                PROVE  SumOver(CachedTokens', S) = SumOver(CachedTokens, S)
    OBVIOUS
  <2>1. \A s \in S : CachedTokens'[s] = CachedTokens[s]
    BY DEF CachedTokens, Threads
  <2>2. CachedTokens \in [Threads -> Nat] /\ IsFiniteSet(Threads)
    BY TokensTypes
  <2>. QED  BY <1>6, <2>1, <2>2, SumOverSame
<1>8. CASE AddTotals(r)
  <2>1. thread[r].pc = "total" /\ thread'[r].pc \in {"done", "store"}
        /\ thread'[r].cached = thread[r].cached
    BY <1>8, TotalStep DEF Moves
  <2>2. r \in Threads \ Added /\ r \in Added'
    BY <2>1 DEF Added, InPc, Storing
  <2>3. Added' = Added \cup {r}
    BY <1>3, <1>4, <2>2
  <2>4. \A s \in Threads : thread'[s].cached = thread[s].cached
    BY <1>1, <2>1 DEF Same
  <2>5. SumOver(CachedTokens', Added \cup {r}) = SumOver(CachedTokens, Added \cup {r})
    BY <1>4, <1>7, <2>4
  <2>. QED  BY <1>2, <1>5, <1>8, <2>2, <2>3, <2>5, TokensTypes
<1>9. CASE ~AddTotals(r)
  <2>1. r \in Added' <=> r \in Added
    <3>1. CASE CountRequest(r)
      BY <3>1, CountStep DEF Moves, Added, InPc, Storing
    <3>2. CASE ~CountRequest(r)
      BY <1>9, <3>2, StepCounts DEF Counts, Added
    <3>. QED  BY <3>1, <3>2
  <2>2. \A s : s \in Added' <=> s \in Added
    BY <1>3, <1>4, <2>1
  <2>3. Added' = Added
    <3>. HIDE DEF Added
    <3>. QED  BY <2>2
  <2>4. \A s \in Added : thread'[s].cached = thread[s].cached
    <3>1. r \in Added => thread'[r].cached = thread[r].cached
      <4>1. CASE EstimateBlock(r)
        BY <4>1, EstimateStep DEF Added, InPc, Storing
      <4>2. CASE ~EstimateBlock(r)
        BY <4>2, StepKeeps DEF Keeps
      <4>. QED  BY <4>1, <4>2
    <3>. QED  BY <1>1, <1>4, <3>1 DEF Same
  <2>5. SumOver(CachedTokens', Added) = SumOver(CachedTokens, Added)
    BY <1>4, <1>7, <2>4
  <2>. QED  BY <1>2, <1>5, <1>9, <2>3, <2>5
<1>. QED  BY <1>8, <1>9

\* No total, and none that a thread has seen, is more than the sum; one at a time all are equal.
TotalInv ==
    /\ total_prompt_tokens <= SumOver(PromptTokens, Added)
    /\ Alone => total_prompt_tokens = SumOver(PromptTokens, Added)
    /\ \A r \in Threads : InPc(r, {"total"}) =>
          /\ thread[r].seen <= SumOver(PromptTokens, Added)
          /\ Alone => thread[r].seen = SumOver(PromptTokens, Added)

\* One at a time, the others have not begun or are through when r takes a step.
LEMMA OthersRest ==
    ASSUME TypeInv, AdmissionInv, Alone, NEW r \in Threads, Takes(r), NEW s \in Threads \ {r}
    PROVE  s \notin Overlapping
<1>1. CASE Start(r)
  BY <1>1, StartsAlone
<1>2. CASE ~Start(r)
  <2>1. r \in Overlapping
    BY <1>2 DEF Takes, Overlapping, InPc
  <2>2. config.max_concurrency \in Nat
    BY BoundFacts
  <2>. QED  BY <2>1, <2>2, TwoOverlap DEF AdmissionInv, Alone
<1>. QED  BY <1>1, <1>2

LEMMA TotalInvStep ==
    ASSUME TypeInv, AdmissionInv, TotalInv, Next
    PROVE  TotalInv'
<1>1. PICK r \in Threads : Start(r) \/ EstimateBlock(r) \/ Observe(r)
  BY DEF Next
<1>2. /\ TypeInv' /\ config' = config /\ (Alone' <=> Alone)
      /\ Takes(r) /\ \A s \in Threads \ {r} : Same(s)
  BY <1>1, TypeStep, StepIsTaken DEF Next, Takes, Alone
<1>. DEFINE sum == SumOver(PromptTokens, Added)
            n == TokensOf(thread[r].prompt)
<1>3. /\ AddTotals(r) => sum' = sum + n
      /\ ~AddTotals(r) => sum' = sum
  BY <1>1, SumsStep
<1>4. sum \in Nat /\ n \in Nat /\ total_prompt_tokens \in Nat
      /\ \A s \in Threads : thread[s].seen \in Nat
  <2>1. sum \in Nat
    BY TokensTypes
  <2>2. PromptTokens \in [Threads -> Nat]
    BY TokensTypes
  <2>. QED  BY <2>1, <2>2 DEF TypeInv, Locals, PromptTokens
<1>5. /\ total_prompt_tokens <= sum
      /\ Alone => total_prompt_tokens = sum
      /\ \A s \in Threads : InPc(s, {"total"}) =>
            thread[s].seen <= sum /\ (Alone => thread[s].seen = sum)
  BY DEF TotalInv
<1>6. ASSUME Alone, NEW s \in Threads \ {r} PROVE ~InPc(s, {"total"})'
  <2>1. s \notin Overlapping /\ Same(s)
    BY <1>2, <1>6, OthersRest
  <2>. QED  BY <2>1 DEF Overlapping, Same, InPc
<1>. HIDE DEF sum, n
<1>7. /\ total_prompt_tokens' <= sum'
      /\ Alone => total_prompt_tokens' = sum'
      /\ InPc(r, {"total"})' => thread'[r].seen <= sum' /\ (Alone => thread'[r].seen = sum')
  <2>1. CASE AddTotals(r)
    <3>1. /\ InPc(r, {"total"}) /\ ~InPc(r, {"total"})'
          /\ total_prompt_tokens' = thread[r].seen + n
      BY <2>1, TotalStep DEF Moves, InPc, n
    <3>2. thread[r].seen <= sum /\ (Alone => thread[r].seen = sum) /\ thread[r].seen \in Nat
      BY <1>4, <1>5, <3>1
    <3>. QED  BY <1>3, <1>4, <2>1, <3>1, <3>2
  <2>2. CASE CountRequest(r)
    <3>1. thread'[r].seen = total_prompt_tokens /\ total_prompt_tokens' = total_prompt_tokens
          /\ thread[r].pc = "count"
      BY <2>2, CountStep
    <3>2. ~AddTotals(r)
      BY <3>1 DEF AddTotals, At
    <3>. QED  BY <1>3, <1>4, <1>5, <3>1, <3>2
  <2>3. CASE ~AddTotals(r) /\ ~CountRequest(r)
    <3>1. UNCHANGED Counters /\ ~InPc(r, {"total"})'
      BY <1>1, <2>3, StepCounts DEF Counts
    <3>. QED  BY <1>3, <1>4, <1>5, <2>3, <3>1 DEF Counters
  <2>. QED  BY <2>1, <2>2, <2>3
<1>8. ASSUME NEW s \in Threads \ {r}, InPc(s, {"total"})'
      PROVE  thread'[s].seen <= sum' /\ ~Alone
  <2>1. InPc(s, {"total"}) /\ thread'[s].seen = thread[s].seen
    BY <1>2, <1>8 DEF Same, InPc
  <2>2. thread[s].seen <= sum /\ thread[s].seen \in Nat
    BY <1>4, <1>5, <2>1
  <2>3. sum' \in Nat /\ sum <= sum'
    BY <1>3, <1>4
  <2>. QED  BY <1>4, <1>6, <1>8, <2>1, <2>2, <2>3
<1>9. \A s \in Threads : InPc(s, {"total"})' =>
          thread'[s].seen <= sum' /\ (Alone => thread'[s].seen = sum')
  BY <1>7, <1>8
<1>. QED  BY <1>2, <1>7, <1>9 DEF TotalInv, sum

------------------------------------------------------------------------------
(***************************************************************************)
(* What a response has estimated and what the observation then finds.      *)
(***************************************************************************)
\* The first m blocks of r are in the table.
Hits(r, m) == \A j \in 1 .. m : thread[r].prompt[j].key \in Keys(table)

\* These are what r has estimated.
Estimated(r, m) == thread[r].cached = TokensOf(Prefix(r, m)) /\ Hits(r, m)

\* These are what the observation of r has found.
Looked(r, m) == thread[r].reused = TokensOf(Prefix(r, m))

\* Without a budget, in the warm condition, the table only grows.
Kept(r) ==
    /\ InPc(r, {"estimate"}) => Estimated(r, thread[r].i - 1)
    /\ InPc(r, {"begin", "super", "lookup"}) =>
           \E m \in 0 .. Len(thread[r].prompt) : Estimated(r, m)
    /\ InPc(r, {"lookup"}) => Looked(r, thread[r].i - 1)
    /\ InPc(r, {"count", "total"}) => thread[r].cached <= thread[r].reused
    /\ InPc(r, {"store"}) => Hits(r, thread[r].i - 1)
    /\ InPc(r, {"restore", "done"}) => Hits(r, Len(thread[r].prompt))

Keeping == config.condition = "warm" /\ config.budget = NoBudget

\* Overlapping requests lose no reuse.
KeptInv ==
    Keeping => /\ \A r \in Threads : Kept(r)
               /\ SumOver(CachedTokens, Added) <= total_cached_prefix_tokens

\* What a request has found stays in a table that grows.
LEMMA HitsKept ==
    ASSUME NEW r \in Threads, thread'[r].prompt = thread[r].prompt,
           Keys(table) \subseteq Keys(table')
    PROVE  /\ \A m : Hits(r, m) => Hits(r, m)'
           /\ \A m : Prefix(r, m)' = Prefix(r, m)
           /\ thread'[r].cached = thread[r].cached =>
                 \A m : Estimated(r, m) => Estimated(r, m)'
<1>1. \A m : Hits(r, m) => Hits(r, m)'
  BY DEF Hits
<1>2. \A m : Prefix(r, m)' = Prefix(r, m)
  BY DEF Prefix
<1>. QED  BY <1>1, <1>2 DEF Estimated

\* One more hit, and none yet.
LEMMA OneMoreHit ==
    ASSUME TypeInv, NEW r \in Threads
    PROVE  /\ thread[r].i \in Nat \ {0} /\ thread[r].i - 1 \in 0 .. Len(thread[r].prompt)
           /\ Len(thread[r].prompt) \in Nat
           /\ Hits(r, 0) /\ TokensOf(Prefix(r, 0)) = 0
           /\ TokensOf(Prefix(r, thread[r].i)) =
                  TokensOf(Prefix(r, thread[r].i - 1)) + Block(r).token_count
           /\ Hits(r, thread[r].i - 1) /\ Block(r).key \in Keys(table) => Hits(r, thread[r].i)
           /\ \A m \in 0 .. Len(thread[r].prompt) :
                 Hits(r, m) /\ Block(r).key \notin Keys(table) => m <= thread[r].i - 1
           /\ \A l, m \in 0 .. Len(thread[r].prompt) : m <= l =>
                 TokensOf(Prefix(r, m)) <= TokensOf(Prefix(r, l))
<1>1. thread[r].i \in 1 .. Len(thread[r].prompt) /\ Len(thread[r].prompt) \in Nat \ {0}
  BY BlockFacts
<1>2. TokensOf(Prefix(r, thread[r].i)) =
          TokensOf(Prefix(r, thread[r].i - 1)) + Block(r).token_count
  BY <1>1, PrefixTokens DEF Block
<1>3. TokensOf(Prefix(r, 0)) = 0 /\ Hits(r, 0)
  BY PrefixTokens DEF Hits
<1>4. Hits(r, thread[r].i - 1) /\ Block(r).key \in Keys(table) => Hits(r, thread[r].i)
  BY <1>1 DEF Hits, Block
<1>5. ASSUME NEW m \in 0 .. Len(thread[r].prompt), Hits(r, m), Block(r).key \notin Keys(table)
      PROVE  m <= thread[r].i - 1
  BY <1>1, <1>5 DEF Hits, Block
<1>6. ASSUME NEW l \in 0 .. Len(thread[r].prompt), NEW m \in 0 .. Len(thread[r].prompt), m <= l
      PROVE  TokensOf(Prefix(r, m)) <= TokensOf(Prefix(r, l))
  <2>1. thread[r].prompt \in Seq(Blocks) /\ \A b \in Blocks : b.token_count \in Nat
    BY PromptFacts DEF TypeInv, BlockSet
  <2>2. m \in 0 .. l
    BY <1>6
  <2>. QED  BY <2>1, <2>2, TokensGrow DEF Prefix
<1>. QED  BY <1>1, <1>2, <1>3, <1>4, <1>5, <1>6

\* What the request that acts keeps, action by action.
LEMMA KeptByActor ==
    ASSUME TypeInv, ConditionInv, PlaceInv, Keeping, NEW r \in Threads, Kept(r),
           Start(r) \/ EstimateBlock(r) \/ Observe(r)
    PROVE  Kept(r)'
<1>1. condition = "warm" /\ ~InPc(r, {"reset", "toggle", "super_reset"})
  BY DEF ConditionInv, AlwaysWarm, Keeping
<1>2. ~InPc(r, {"evict", "sum"})
  BY DEF TypeInv, Keeping
<1>3. Keys(table) \subseteq Keys(table')
  BY <1>1, <1>2, KeysStep DEF InPc
<1>4. thread'[r].prompt = thread[r].prompt /\ TypeInv'
  BY TypeStep DEF Next, PromptsKept
<1>5. /\ \A m : Hits(r, m) => Hits(r, m)'
      /\ \A m : Prefix(r, m)' = Prefix(r, m)
      /\ thread'[r].cached = thread[r].cached =>
            \A m : Estimated(r, m) => Estimated(r, m)'
  BY <1>3, <1>4, HitsKept
<1>6. Place(r)
  BY DEF PlaceInv
<1>7. PICK n \in Nat \ {0} : n = thread[r].i
  BY OneMoreHit
<1>8. PICK len \in Nat : len = Len(thread[r].prompt)
  BY OneMoreHit
<1>9. /\ n - 1 \in 0 .. len /\ n \in 1 .. len
      /\ Hits(r, 0) /\ TokensOf(Prefix(r, 0)) = 0
      /\ TokensOf(Prefix(r, n)) = TokensOf(Prefix(r, n - 1)) + Block(r).token_count
      /\ Hits(r, n - 1) /\ Block(r).key \in Keys(table) => Hits(r, n)
      /\ \A m \in 0 .. len : Hits(r, m) /\ Block(r).key \notin Keys(table) => m <= n - 1
      /\ \A l, m \in 0 .. len : m <= l => TokensOf(Prefix(r, m)) <= TokensOf(Prefix(r, l))
  BY <1>7, <1>8, OneMoreHit DEF TypeInv
<1>10. IsLast(r) <=> n = len
  BY <1>7, <1>8 DEF IsLast
<1>11. NextI(r) = IF n = len THEN 1 ELSE n + 1
  BY <1>7, <1>10 DEF NextI
<1>12. PICK i1 \in Nat \ {0} : i1 = thread'[r].i
  BY <1>4, OneMoreHit DEF TypeInv, Locals
\* What Kept says of the next state.
<1>13. ASSUME thread'[r].pc = "estimate" => Estimated(r, i1 - 1)',
              thread'[r].pc \in {"begin", "super", "lookup"} =>
                  \E m \in 0 .. len : Estimated(r, m)',
              thread'[r].pc = "lookup" => thread'[r].reused = TokensOf(Prefix(r, i1 - 1)),
              thread'[r].pc \in {"count", "total"} => thread'[r].cached <= thread'[r].reused,
              thread'[r].pc = "store" => Hits(r, i1 - 1)',
              thread'[r].pc \in {"restore", "done"} => Hits(r, len)'
       PROVE  Kept(r)'
  <2>1. /\ InPc(r, {"estimate"})' => Estimated(r, i1 - 1)'
        /\ InPc(r, {"begin", "super", "lookup"})' => \E m \in 0 .. len : Estimated(r, m)'
        /\ InPc(r, {"lookup"})' => Looked(r, i1 - 1)'
        /\ InPc(r, {"count", "total"})' => thread'[r].cached <= thread'[r].reused
        /\ InPc(r, {"store"})' => Hits(r, i1 - 1)'
        /\ InPc(r, {"restore", "done"})' => Hits(r, len)'
    BY <1>5, <1>13 DEF InPc, Looked
  <2>2. len = Len(thread'[r].prompt)
    BY <1>4, <1>8
  <2>. QED  BY <1>12, <2>1, <2>2 DEF Kept, Estimated, Looked, Hits, Prefix
<1>14. CASE Start(r)
  <2>1. /\ thread[r].pc = "queued" /\ thread'[r].pc = "estimate"
        /\ thread'[r].i = thread[r].i /\ thread'[r].cached = thread[r].cached
    BY <1>1, <1>14, StartStep DEF Moves, KeepsCounts
  <2>2. i1 = 1 /\ thread[r].cached = 0
    BY <1>6, <1>12, <2>1 DEF Place, InPc, BeforeLookup, Early
  <2>3. Estimated(r, 0)
    BY <1>9, <2>2 DEF Estimated
  <2>4. Estimated(r, i1 - 1)'
    <3>1. i1 - 1 = 0
      BY <2>2
    <3>. QED  BY <1>5, <2>1, <2>3, <3>1
  <2>. QED  BY <1>13, <2>1, <2>4
<1>15. CASE EstimateBlock(r)
  <2>1. thread[r].pc = "estimate" /\ Estimated(r, n - 1)
    BY <1>7, <1>15, EstimateStep DEF Kept, InPc
  <2>2. \/ /\ Block(r).key \in Keys(table)
           /\ thread'[r].pc = (IF n = len THEN "begin" ELSE "estimate")
           /\ thread'[r].i = (IF n = len THEN 1 ELSE n + 1)
           /\ thread'[r].cached = thread[r].cached + Block(r).token_count
        \/ thread'[r].pc = "begin" /\ thread'[r].cached = thread[r].cached
    BY <1>10, <1>11, <1>15, EstimateStep DEF Moves
  <2>3. CASE thread'[r].pc = "begin" /\ thread'[r].cached = thread[r].cached
    <3>1. Estimated(r, n - 1)'
      BY <1>5, <2>1, <2>3
    <3>. QED  BY <1>9, <1>13, <2>3, <3>1
  <2>4. CASE /\ Block(r).key \in Keys(table)
             /\ thread'[r].pc = (IF n = len THEN "begin" ELSE "estimate")
             /\ thread'[r].i = (IF n = len THEN 1 ELSE n + 1)
             /\ thread'[r].cached = thread[r].cached + Block(r).token_count
    <3>1. Hits(r, n)' /\ thread'[r].cached = TokensOf(Prefix(r, n)) /\ Prefix(r, n)' = Prefix(r, n)
      BY <1>5, <1>9, <2>1, <2>4 DEF Estimated
    <3>2. Estimated(r, n)'
      BY <3>1 DEF Estimated
    <3>3. n # len => i1 - 1 = n
      BY <1>12, <2>4
    <3>. QED  BY <1>9, <1>13, <2>4, <3>2, <3>3
  <2>. QED  BY <2>2, <2>3, <2>4
<1>16. CASE BeginObserve(r)
  <2>1. thread[r].pc = "begin" /\ thread'[r].pc = "super" /\ thread'[r].cached = thread[r].cached
    BY <1>1, <1>16, BeginStep DEF Moves, KeepsCounts
  <2>2. PICK m \in 0 .. len : Estimated(r, m)
    BY <1>8, <2>1 DEF Kept, InPc
  <2>3. Estimated(r, m)'
    BY <1>5, <2>1, <2>2
  <2>. QED  BY <1>13, <2>1, <2>3
<1>17. CASE EnterSuper(r)
  <2>1. /\ thread[r].pc = "super" /\ thread'[r].pc = "lookup" /\ thread'[r].i = thread[r].i
        /\ thread'[r].cached = thread[r].cached /\ thread'[r].reused = thread[r].reused
    BY <1>1, <1>17, EnterStep DEF Moves, KeepsCounts
  <2>2. i1 = 1 /\ thread'[r].reused = 0
    BY <1>6, <1>12, <2>1 DEF Place, InPc, BeforeLookup
  <2>3. PICK m \in 0 .. len : Estimated(r, m)
    BY <1>8, <2>1 DEF Kept, InPc
  <2>4. Estimated(r, m)'
    BY <1>5, <2>1, <2>3
  <2>5. i1 - 1 = 0
    BY <2>2
  <2>6. thread'[r].reused = TokensOf(Prefix(r, i1 - 1))
    BY <1>9, <2>2, <2>5
  <2>. QED  BY <1>13, <2>1, <2>4, <2>6
<1>18. CASE LookupBlock(r)
  <2>1. thread[r].pc = "lookup" /\ thread[r].reused = TokensOf(Prefix(r, n - 1))
        /\ thread'[r].cached = thread[r].cached
    BY <1>7, <1>18, LookupStep DEF Kept, InPc, Looked
  <2>2. PICK m \in 0 .. len : Estimated(r, m)
    BY <1>8, <2>1 DEF Kept, InPc
  <2>3. Estimated(r, m)' /\ thread[r].cached = TokensOf(Prefix(r, m)) /\ Hits(r, m)
    BY <1>5, <2>1, <2>2 DEF Estimated
  <2>4. \/ /\ Block(r).key \in Keys(table)
           /\ thread'[r].pc = (IF n = len THEN "count" ELSE "lookup")
           /\ thread'[r].i = (IF n = len THEN 1 ELSE n + 1)
           /\ thread'[r].reused = thread[r].reused + Block(r).token_count
        \/ /\ Block(r).key \notin Keys(table)
           /\ thread'[r].pc = "count" /\ thread'[r].reused = thread[r].reused
    BY <1>10, <1>11, <1>18, LookupStep DEF Moves
  <2>5. CASE /\ Block(r).key \in Keys(table)
             /\ thread'[r].pc = (IF n = len THEN "count" ELSE "lookup")
             /\ thread'[r].i = (IF n = len THEN 1 ELSE n + 1)
             /\ thread'[r].reused = thread[r].reused + Block(r).token_count
    <3>1. thread'[r].reused = TokensOf(Prefix(r, n))
      BY <1>9, <2>1, <2>5
    <3>2. n # len => i1 - 1 = n
      BY <1>12, <2>5
    <3>3. n = len => thread'[r].cached <= thread'[r].reused
      BY <1>9, <2>1, <2>3, <3>1
    <3>. QED  BY <1>13, <2>3, <2>5, <3>1, <3>2, <3>3
  <2>6. CASE /\ Block(r).key \notin Keys(table)
             /\ thread'[r].pc = "count" /\ thread'[r].reused = thread[r].reused
    <3>1. m <= n - 1
      BY <1>9, <2>3, <2>6
    <3>2. TokensOf(Prefix(r, m)) <= TokensOf(Prefix(r, n - 1))
      BY <1>9, <3>1
    <3>. QED  BY <1>13, <2>1, <2>3, <2>6, <3>2
  <2>. QED  BY <2>4, <2>5, <2>6
<1>19. CASE CountRequest(r)
  <2>1. /\ thread[r].pc = "count" /\ thread'[r].pc = "total"
        /\ thread'[r].cached = thread[r].cached /\ thread'[r].reused = thread[r].reused
    BY <1>19, CountStep DEF Moves
  <2>2. thread[r].cached <= thread[r].reused
    BY <2>1 DEF Kept, InPc
  <2>. QED  BY <1>13, <2>1, <2>2
<1>20. CASE AddTotals(r)
  <2>1. thread[r].pc = "total" /\ thread'[r].pc = "store" /\ thread'[r].i = thread[r].i
    BY <1>20, TotalStep DEF Moves, Keeping
  <2>2. i1 - 1 = 0
    BY <1>6, <1>12, <2>1 DEF Place, InPc
  <2>3. Hits(r, i1 - 1)'
    BY <1>5, <1>9, <2>2
  <2>. QED  BY <1>13, <2>1, <2>3
<1>21. CASE StoreBlock(r)
  <2>1. thread[r].pc = "store" /\ Hits(r, n - 1)
    BY <1>7, <1>21, StoreStep DEF Kept, InPc
  <2>2. /\ thread'[r].pc = (IF n = len THEN AfterStore(r) ELSE "store")
        /\ thread'[r].i = (IF n = len THEN 1 ELSE n + 1)
        /\ Block(r).key \in Keys(table')
    BY <1>10, <1>11, <1>21, StoreStep DEF Moves, Keeping
  <2>3. AfterStore(r) \in {"restore", "done"}
    BY DEF AfterStore
  <2>4. Hits(r, n)'
    <3>1. \A j \in 1 .. n - 1 : thread[r].prompt[j].key \in Keys(table')
      BY <1>3, <2>1 DEF Hits
    <3>2. thread[r].prompt[n].key \in Keys(table')
      BY <1>7, <2>2 DEF Block
    <3>3. \A j \in 1 .. n : j = n \/ j \in 1 .. n - 1
      OBVIOUS
    <3>. QED  BY <1>4, <3>1, <3>2, <3>3 DEF Hits
  <2>5. n # len => i1 - 1 = n
    BY <1>12, <2>2
  <2>. QED  BY <1>13, <2>2, <2>3, <2>4, <2>5
<1>22. CASE RestoreCondition(r)
  <2>1. thread[r].pc = "restore" /\ thread'[r].pc \in {"failed", "done"}
    BY <1>22, RestoreStep DEF Moves
  <2>2. Hits(r, len)'
    BY <1>5, <1>8, <2>1 DEF Kept, InPc
  <2>. QED  BY <1>13, <2>1, <2>2
<1>23. ~ResetStorage(r) /\ ~ToggleCondition(r) /\ ~BeginSum(r) /\ ~EndSum(r) /\ ~SumRaises(r)
  BY <1>1, <1>2 DEF ResetStorage, ToggleCondition, BeginSum, EndSum, SumRaises, At, InPc
<1>. QED
  BY <1>14, <1>15, <1>16, <1>17, <1>18, <1>19, <1>20, <1>21, <1>22, <1>23 DEF Observe

LEMMA KeptStep ==
    ASSUME TypeInv, ConditionInv, PlaceInv, KeptInv, Next
    PROVE  KeptInv'
<1>1. PICK r \in Threads : Start(r) \/ EstimateBlock(r) \/ Observe(r)
  BY DEF Next
<1>2. /\ config' = config /\ \A s \in Threads : thread'[s].prompt = thread[s].prompt
      /\ \A s \in Threads \ {r} : Same(s)
  BY <1>1, TypeStep, StepIsTaken DEF PromptsKept, Takes
<1>. SUFFICES ASSUME Keeping
              PROVE  /\ \A s \in Threads : Kept(s)'
                     /\ SumOver(CachedTokens, Added)' <= total_cached_prefix_tokens'
  BY <1>2 DEF KeptInv, Keeping
<1>3. Keys(table) \subseteq Keys(table')
  <2>1. ~InPc(r, {"reset", "super_reset"})
    BY DEF ConditionInv, AlwaysWarm, Keeping, InPc
  <2>2. ~InPc(r, {"sum"})
    BY DEF TypeInv, Keeping, InPc
  <2>. QED  BY <1>1, <2>1, <2>2, KeysStep DEF InPc
<1>4. ASSUME NEW s \in Threads \ {r} PROVE Kept(s)'
  <2>1. Same(s) /\ Kept(s) /\ thread'[s].prompt = thread[s].prompt
    BY <1>2 DEF KeptInv
  <2>2. /\ thread'[s].pc = thread[s].pc /\ thread'[s].i = thread[s].i
        /\ thread'[s].cached = thread[s].cached /\ thread'[s].reused = thread[s].reused
    BY <2>1 DEF Same
  <2>3. /\ \A m : Hits(s, m) => Hits(s, m)'
        /\ \A m : Estimated(s, m) => Estimated(s, m)'
        /\ \A m : Looked(s, m) => Looked(s, m)'
    BY <1>3, <2>1, <2>2, HitsKept DEF Looked
  <2>4. PICK i, len : i = thread[s].i - 1 /\ len = Len(thread[s].prompt)
    OBVIOUS
  <2>5. /\ InPc(s, {"estimate"})' => Estimated(s, i)'
        /\ InPc(s, {"begin", "super", "lookup"})' => \E m \in 0 .. len : Estimated(s, m)'
        /\ InPc(s, {"lookup"})' => Looked(s, i)'
        /\ InPc(s, {"count", "total"})' => thread'[s].cached <= thread'[s].reused
        /\ InPc(s, {"store"})' => Hits(s, i)'
        /\ InPc(s, {"restore", "done"})' => Hits(s, len)'
    BY <2>1, <2>2, <2>3, <2>4 DEF Kept, InPc
  <2>6. i = thread'[s].i - 1 /\ len = Len(thread'[s].prompt)
    BY <2>1, <2>2, <2>4
  <2>. QED  BY <2>5, <2>6 DEF Kept, Estimated, Looked, Hits, Prefix
<1>5. Kept(r)'
  BY <1>1, KeptByActor DEF KeptInv
<1>6. SumOver(CachedTokens, Added)' <= total_cached_prefix_tokens'
  <2>1. /\ SumOver(CachedTokens, Added) \in Nat /\ total_cached_prefix_tokens \in Nat
        /\ thread[r].cached \in Nat /\ thread[r].reused \in Nat
        /\ SumOver(CachedTokens, Added) <= total_cached_prefix_tokens
    BY TokensTypes DEF TypeInv, Locals, KeptInv
  <2>2. CASE AddTotals(r)
    <3>1. /\ total_cached_prefix_tokens' = total_cached_prefix_tokens + thread[r].reused
          /\ thread[r].pc = "total"
      BY <2>2, TotalStep
    <3>2. SumOver(CachedTokens, Added)' = SumOver(CachedTokens, Added) + thread[r].cached
      BY <1>1, <2>2, SumsStep
    <3>3. thread[r].cached <= thread[r].reused
      BY <3>1 DEF KeptInv, Kept, InPc
    <3>. QED  BY <2>1, <3>1, <3>2, <3>3
  <2>3. CASE ~AddTotals(r)
    <3>1. total_cached_prefix_tokens' = total_cached_prefix_tokens
      <4>1. CASE CountRequest(r)
        BY <4>1, CountStep
      <4>2. CASE ~CountRequest(r)
        BY <1>1, <2>3, <4>2, StepCounts DEF Counts, Counters
      <4>. QED  BY <4>1, <4>2
    <3>2. SumOver(CachedTokens, Added)' = SumOver(CachedTokens, Added)
      BY <1>1, <2>3, SumsStep
    <3>. QED  BY <2>1, <3>1, <3>2
  <2>. QED  BY <2>2, <2>3
<1>. QED  BY <1>4, <1>5, <1>6

------------------------------------------------------------------------------
(***************************************************************************)
(* One at a time, the observation finds just what the estimate has found.  *)
(***************************************************************************)
Agreed(r, m) ==
    /\ Estimated(r, m)
    /\ m < Len(thread[r].prompt) => thread[r].prompt[m + 1].key \notin Keys(table)

\* What is so of the one request under way.
Agrees(r) ==
    /\ InPc(r, {"estimate"}) => Estimated(r, thread[r].i - 1)
    /\ InPc(r, {"begin", "super"}) /\ config.condition = "warm" =>
           \E m \in 0 .. Len(thread[r].prompt) : Agreed(r, m)
    /\ InPc(r, {"toggle"}) => Keys(table) = {}
    /\ InPc(r, {"super"}) /\ thread[r].original_condition # Unsaved
           /\ config.condition = "cold" => Keys(table) = {}
    /\ InPc(r, {"lookup"}) =>
           /\ Looked(r, thread[r].i - 1)
           /\ \E m \in 0 .. Len(thread[r].prompt) : thread[r].i - 1 <= m /\ Agreed(r, m)
    /\ InPc(r, {"count", "total"}) => thread[r].reused = thread[r].cached

\* The totals are then exact.
AloneInv ==
    Alone => /\ \A r \in Threads : Agrees(r)
             /\ SumOver(CachedTokens, Added) = total_cached_prefix_tokens

\* The keys stay where no block is stored or evicted and no table replaced.
LEMMA KeysUnchanged ==
    ASSUME TypeInv, NEW r \in Threads, Start(r) \/ EstimateBlock(r) \/ Observe(r),
           ~InPc(r, {"store", "sum", "reset", "super_reset"})
    PROVE  Keys(table') = Keys(table)
BY KeysStep DEF InPc

\* What the request that acts keeps, action by action.
LEMMA AgreesByActor ==
    ASSUME TypeInv, AdmissionInv, ConditionInv, PlaceInv, Alone, NEW r \in Threads, Agrees(r),
           Start(r) \/ EstimateBlock(r) \/ Observe(r)
    PROVE  Agrees(r)'
<1>1. SavedInv /\ NeverChanged /\ AlwaysWarm /\ ChangedByOne /\ NothingEarned
  BY DEF ConditionInv
<1>2. config.condition # "warm" => ~InPc(r, {"estimate"}) /\ thread[r].cached = 0
  BY <1>1 DEF NothingEarned
<1>3. condition \in Conditions /\ config.condition \in Conditions
  BY ConfigConditions DEF TypeInv
<1>4. thread'[r].prompt = thread[r].prompt /\ TypeInv' /\ config' = config
  BY TypeStep DEF Next, PromptsKept
<1>5. \A m : Prefix(r, m)' = Prefix(r, m)
  BY <1>4 DEF Prefix
<1>6. Place(r)
  BY DEF PlaceInv
<1>7. PICK n \in Nat \ {0} : n = thread[r].i
  BY OneMoreHit
<1>8. PICK len \in Nat : len = Len(thread[r].prompt)
  BY OneMoreHit
<1>9. /\ n - 1 \in 0 .. len /\ n \in 1 .. len
      /\ Hits(r, 0) /\ TokensOf(Prefix(r, 0)) = 0
      /\ TokensOf(Prefix(r, n)) = TokensOf(Prefix(r, n - 1)) + Block(r).token_count
      /\ Hits(r, n - 1) /\ Block(r).key \in Keys(table) => Hits(r, n)
      /\ \A m \in 0 .. len : Hits(r, m) /\ Block(r).key \notin Keys(table) => m <= n - 1
  BY <1>7, <1>8, OneMoreHit DEF TypeInv
<1>10. IsLast(r) <=> n = len
  BY <1>7, <1>8 DEF IsLast
<1>11. NextI(r) = IF n = len THEN 1 ELSE n + 1
  BY <1>7, <1>10 DEF NextI
<1>12. PICK i1 \in Nat \ {0} : i1 = thread'[r].i
  BY <1>4, OneMoreHit DEF TypeInv, Locals
\* What Agrees says of the next state.
<1>13. ASSUME thread'[r].pc = "estimate" => Estimated(r, i1 - 1)',
              thread'[r].pc \in {"begin", "super"} /\ config.condition = "warm" =>
                  \E m \in 0 .. len : Agreed(r, m)',
              thread'[r].pc = "toggle" => Keys(table') = {},
              thread'[r].pc = "super" /\ thread'[r].original_condition # Unsaved
                  /\ config.condition = "cold" => Keys(table') = {},
              thread'[r].pc = "lookup" =>
                  /\ thread'[r].reused = TokensOf(Prefix(r, i1 - 1))
                  /\ \E m \in 0 .. len : i1 - 1 <= m /\ Agreed(r, m)',
              thread'[r].pc \in {"count", "total"} => thread'[r].reused = thread'[r].cached
       PROVE  Agrees(r)'
  <2>1. /\ InPc(r, {"estimate"})' => Estimated(r, i1 - 1)'
        /\ InPc(r, {"begin", "super"})' /\ config'.condition = "warm" =>
              \E m \in 0 .. len : Agreed(r, m)'
        /\ InPc(r, {"toggle"})' => Keys(table') = {}
        /\ InPc(r, {"super"})' /\ thread'[r].original_condition # Unsaved
               /\ config'.condition = "cold" => Keys(table') = {}
        /\ InPc(r, {"lookup"})' =>
              Looked(r, i1 - 1)' /\ \E m \in 0 .. len : i1 - 1 <= m /\ Agreed(r, m)'
        /\ InPc(r, {"count", "total"})' => thread'[r].reused = thread'[r].cached
    BY <1>4, <1>5, <1>13 DEF InPc, Looked
  <2>2. len = Len(thread'[r].prompt)
    BY <1>4, <1>8
  <2>. QED  BY <1>12, <2>1, <2>2 DEF Agrees, Agreed, Estimated, Looked, Hits, Prefix
\* Where neither the keys nor the estimate change.
<1>14. ASSUME Keys(table') = Keys(table), thread'[r].cached = thread[r].cached
       PROVE  \A m : (Agreed(r, m) => Agreed(r, m)') /\ (Estimated(r, m) => Estimated(r, m)')
  <2>1. \A m : Estimated(r, m) => Estimated(r, m)'
    BY <1>4, <1>14, HitsKept
  <2>. QED  BY <1>4, <1>14, <2>1 DEF Agreed
\* An empty table agrees with an estimate of nothing.
<1>15. ASSUME Keys(table') = {}, thread'[r].cached = 0
       PROVE  Agreed(r, 0)'
  <2>1. Prefix(r, 0)' = Prefix(r, 0) /\ Hits(r, 0)'
    BY <1>5 DEF Hits
  <2>. QED  BY <1>9, <1>15, <2>1 DEF Agreed, Estimated
<1>16. CASE Start(r)
  <2>1. /\ thread[r].pc = "queued"
        /\ thread'[r].pc = (IF condition = "warm" THEN "estimate" ELSE "begin")
        /\ thread'[r].i = thread[r].i /\ thread'[r].cached = thread[r].cached
    BY <1>16, StartStep DEF Moves, KeepsCounts
  <2>2. i1 = 1 /\ thread[r].cached = 0
    BY <1>6, <1>12, <2>1 DEF Place, InPc, BeforeLookup, Early
  <2>3. Estimated(r, 0)
    BY <1>9, <2>2 DEF Estimated
  <2>4. Keys(table') = Keys(table)
    BY <2>1, KeysUnchanged DEF InPc
  <2>5. Estimated(r, i1 - 1)'
    <3>1. i1 - 1 = 0
      BY <2>2
    <3>. QED  BY <1>14, <2>1, <2>3, <2>4, <3>1
  <2>6. config.condition = "warm" => condition = "warm"
    BY <1>1 DEF AlwaysWarm
  <2>. QED  BY <1>13, <2>1, <2>5, <2>6
<1>17. CASE EstimateBlock(r)
  <2>1. thread[r].pc = "estimate" /\ Estimated(r, n - 1)
    BY <1>7, <1>17, EstimateStep DEF Agrees, InPc
  <2>2. Keys(table') = Keys(table)
    BY <2>1, KeysUnchanged DEF InPc
  <2>3. \/ /\ Block(r).key \in Keys(table)
           /\ thread'[r].pc = (IF n = len THEN "begin" ELSE "estimate")
           /\ thread'[r].i = (IF n = len THEN 1 ELSE n + 1)
           /\ thread'[r].cached = thread[r].cached + Block(r).token_count
        \/ /\ Block(r).key \notin Keys(table)
           /\ thread'[r].pc = "begin" /\ thread'[r].cached = thread[r].cached
    BY <1>10, <1>11, <1>17, EstimateStep DEF Moves
  <2>4. CASE /\ Block(r).key \notin Keys(table)
             /\ thread'[r].pc = "begin" /\ thread'[r].cached = thread[r].cached
    <3>1. thread[r].prompt[(n - 1) + 1].key \notin Keys(table)
      BY <1>7, <2>4 DEF Block
    <3>2. Agreed(r, n - 1)'
      BY <1>14, <2>1, <2>2, <2>4, <3>1 DEF Agreed
    <3>. QED  BY <1>9, <1>13, <2>4, <3>2
  <2>5. CASE /\ Block(r).key \in Keys(table)
             /\ thread'[r].pc = (IF n = len THEN "begin" ELSE "estimate")
             /\ thread'[r].i = (IF n = len THEN 1 ELSE n + 1)
             /\ thread'[r].cached = thread[r].cached + Block(r).token_count
    <3>1. Hits(r, n)
      BY <1>9, <2>1, <2>5 DEF Estimated
    <3>2. Hits(r, n)'
      BY <1>4, <2>2, <3>1, HitsKept
    <3>3. thread'[r].cached = TokensOf(Prefix(r, n)) /\ Prefix(r, n)' = Prefix(r, n)
      BY <1>5, <1>9, <2>1, <2>5 DEF Estimated
    <3>4. Estimated(r, n)'
      BY <3>2, <3>3 DEF Estimated
    <3>5. n # len => i1 - 1 = n
      BY <1>12, <2>5
    <3>6. n = len => Agreed(r, n)'
      BY <1>4, <1>8, <3>4 DEF Agreed
    <3>. QED  BY <1>9, <1>13, <2>5, <3>4, <3>5, <3>6
  <2>. QED  BY <2>3, <2>4, <2>5
<1>18. CASE BeginObserve(r)
  <2>1. /\ thread[r].pc = "begin" /\ thread'[r].cached = thread[r].cached
        /\ thread'[r].pc \in {"reset", "super"}
        /\ \/ thread'[r].original_condition = condition /\ (condition = "cold" => thread'[r].pc = "reset")
           \/ thread'[r].original_condition = thread[r].original_condition
    BY <1>18, BeginStep DEF Moves, KeepsCounts, KeepsCondition
  <2>2. thread[r].original_condition = Unsaved /\ r \in Overlapping
    BY <1>1, <2>1 DEF SavedInv, InPc, Early, Overlapping
  <2>3. condition = config.condition
    BY <2>2, OthersUnchanged
  <2>4. Keys(table') = Keys(table)
    BY <2>1, KeysUnchanged DEF InPc
  <2>5. ASSUME config.condition = "warm" PROVE \E m \in 0 .. len : Agreed(r, m)'
    <3>1. PICK m \in 0 .. len : Agreed(r, m)
      BY <1>8, <2>1, <2>5 DEF Agrees, InPc
    <3>. QED  BY <1>14, <2>1, <2>4, <3>1
  <2>. QED  BY <1>13, <2>1, <2>2, <2>3, <2>5
<1>19. CASE ResetStorage(r)
  <2>1. /\ \/ thread[r].pc = "reset" /\ thread'[r].pc = "toggle"
           \/ thread[r].pc = "super_reset" /\ thread'[r].pc = "lookup"
        /\ thread'[r].i = thread[r].i
        /\ thread'[r].cached = thread[r].cached /\ thread'[r].reused = thread[r].reused
    BY <1>19, ResetStep DEF Moves, KeepsCounts
  <2>2. Keys(table') = {}
    BY <2>1, KeysStep DEF InPc
  <2>3. thread[r].pc = "super_reset" => i1 = 1 /\ thread'[r].reused = 0
    BY <1>6, <1>12, <2>1 DEF Place, InPc, BeforeLookup
  <2>4. config.condition # "warm"
    BY <1>1, <2>1 DEF AlwaysWarm, InPc
  <2>5. Agreed(r, 0)'
    BY <1>2, <1>15, <2>1, <2>2, <2>4
  <2>6. thread[r].pc = "super_reset" =>
           /\ i1 - 1 = 0 /\ thread'[r].reused = TokensOf(Prefix(r, i1 - 1))
           /\ \E m \in 0 .. len : i1 - 1 <= m /\ Agreed(r, m)'
    <3>1. ASSUME thread[r].pc = "super_reset" PROVE i1 - 1 = 0 /\ thread'[r].reused = TokensOf(Prefix(r, i1 - 1))
      <4>1. i1 - 1 = 0
        BY <2>3, <3>1
      <4>. QED  BY <1>9, <2>3, <3>1, <4>1
    <3>2. 0 \in 0 .. len
      OBVIOUS
    <3>. QED  BY <2>5, <3>1, <3>2
  <2>. QED  BY <1>13, <2>1, <2>2, <2>6
<1>20. CASE ToggleCondition(r)
  <2>1. thread[r].pc = "toggle" /\ thread'[r].pc = "super" /\ table' = table
    BY <1>20, ToggleStep DEF Moves, table
  <2>2. Keys(table') = {} /\ config.condition # "warm"
    BY <1>1, <2>1 DEF Agrees, InPc, AlwaysWarm
  <2>. QED  BY <1>13, <2>1, <2>2
<1>21. CASE EnterSuper(r)
  <2>1. /\ thread[r].pc = "super" /\ thread'[r].i = thread[r].i
        /\ thread'[r].cached = thread[r].cached /\ thread'[r].reused = thread[r].reused
        /\ \/ condition = "prefix_disabled" /\ thread'[r].pc = "count"
           \/ condition = "cold" /\ thread'[r].pc = "super_reset"
           \/ condition = "warm" /\ thread'[r].pc = "lookup"
    BY <1>21, EnterStep DEF Moves, KeepsCounts
  <2>2. i1 = 1 /\ thread'[r].reused = 0
    BY <1>6, <1>12, <2>1 DEF Place, InPc, BeforeLookup
  <2>3. Keys(table') = Keys(table)
    BY <2>1, KeysUnchanged DEF InPc
  <2>4. config.condition = "warm" => condition = "warm"
    BY <1>1 DEF AlwaysWarm
  <2>5. CASE condition # "warm"
    BY <1>2, <1>13, <2>1, <2>2, <2>4, <2>5
  <2>6. CASE condition = "warm"
    <3>1. \E m \in 0 .. len : Agreed(r, m)'
      <4>1. CASE config.condition = "warm"
        <5>1. PICK m \in 0 .. len : Agreed(r, m)
          BY <1>8, <2>1, <4>1 DEF Agrees, InPc
        <5>. QED  BY <1>14, <2>1, <2>3, <5>1
      <4>2. CASE config.condition # "warm"
        <5>1. r \in Overlapping
          BY <2>1 DEF Overlapping
        <5>2. thread[r].original_condition # Unsaved
          BY <2>6, <4>2, <5>1, OthersUnchanged
        <5>3. config.condition = "cold"
          BY <1>1, <1>3, <2>6, <4>2 DEF NeverChanged, Conditions
        <5>4. Keys(table) = {}
          BY <2>1, <5>2, <5>3 DEF Agrees, InPc
        <5>5. Agreed(r, 0)' /\ 0 \in 0 .. len
          BY <1>2, <1>15, <2>1, <2>3, <4>2, <5>4
        <5>. QED  BY <5>5
      <4>. QED  BY <4>1, <4>2
    <3>2. i1 - 1 = 0
      BY <2>2
    <3>3. thread'[r].reused = TokensOf(Prefix(r, i1 - 1))
      BY <1>9, <2>2, <3>2
    <3>4. \E m \in 0 .. len : i1 - 1 <= m /\ Agreed(r, m)'
      BY <3>1, <3>2
    <3>. QED  BY <1>13, <2>1, <2>6, <3>3, <3>4
  <2>. QED  BY <2>5, <2>6
<1>22. CASE LookupBlock(r)
  <2>1. thread[r].pc = "lookup" /\ thread[r].reused = TokensOf(Prefix(r, n - 1))
        /\ thread'[r].cached = thread[r].cached
    BY <1>7, <1>22, LookupStep DEF Agrees, InPc, Looked
  <2>2. PICK m \in 0 .. len : n - 1 <= m /\ Agreed(r, m)
    BY <1>7, <1>8, <2>1 DEF Agrees, InPc
  <2>3. Keys(table') = Keys(table)
    BY <2>1, KeysUnchanged DEF InPc
  <2>4. /\ Agreed(r, m)' /\ thread[r].cached = TokensOf(Prefix(r, m)) /\ Hits(r, m)
        /\ m < len => thread[r].prompt[m + 1].key \notin Keys(table)
    BY <1>8, <1>14, <2>1, <2>2, <2>3 DEF Agreed, Estimated
  <2>5. \/ /\ Block(r).key \in Keys(table)
           /\ thread'[r].pc = (IF n = len THEN "count" ELSE "lookup")
           /\ thread'[r].i = (IF n = len THEN 1 ELSE n + 1)
           /\ thread'[r].reused = thread[r].reused + Block(r).token_count
        \/ /\ Block(r).key \notin Keys(table)
           /\ thread'[r].pc = "count" /\ thread'[r].reused = thread[r].reused
    BY <1>10, <1>11, <1>22, LookupStep DEF Moves
  <2>6. CASE /\ Block(r).key \in Keys(table)
             /\ thread'[r].pc = (IF n = len THEN "count" ELSE "lookup")
             /\ thread'[r].i = (IF n = len THEN 1 ELSE n + 1)
             /\ thread'[r].reused = thread[r].reused + Block(r).token_count
    <3>1. thread'[r].reused = TokensOf(Prefix(r, n))
      BY <1>9, <2>1, <2>6
    <3>2. n <= m
      <4>1. m # n - 1
        <5>. SUFFICES ASSUME m = n - 1 PROVE FALSE
          OBVIOUS
        <5>1. m < len /\ m + 1 = n
          BY <1>9
        <5>2. thread[r].prompt[n].key \notin Keys(table)
          BY <2>4, <5>1
        <5>. QED  BY <1>7, <2>6, <5>2 DEF Block
      <4>. QED  BY <1>9, <2>2, <4>1
    <3>3. n = len => m = n
      BY <1>9, <3>2
    <3>4. n = len => thread'[r].reused = thread'[r].cached
      BY <2>1, <2>4, <3>1, <3>3
    <3>5. n # len => i1 - 1 = n
      BY <1>12, <2>6
    <3>. QED  BY <1>13, <2>4, <2>6, <3>1, <3>2, <3>4, <3>5
  <2>7. CASE /\ Block(r).key \notin Keys(table)
             /\ thread'[r].pc = "count" /\ thread'[r].reused = thread[r].reused
    <3>1. m <= n - 1
      BY <1>9, <2>4, <2>7
    <3>2. m = n - 1
      BY <1>9, <2>2, <3>1
    <3>. QED  BY <1>13, <2>1, <2>4, <2>7, <3>2
  <2>. QED  BY <2>5, <2>6, <2>7
<1>23. CASE CountRequest(r)
  <2>1. /\ thread[r].pc = "count" /\ thread'[r].pc = "total"
        /\ thread'[r].cached = thread[r].cached /\ thread'[r].reused = thread[r].reused
    BY <1>23, CountStep DEF Moves
  <2>2. thread[r].reused = thread[r].cached
    BY <2>1 DEF Agrees, InPc
  <2>. QED  BY <1>13, <2>1, <2>2
\* The rest of the request is not constrained.
<1>24. ASSUME thread'[r].pc \in Storing PROVE Agrees(r)'
  BY <1>13, <1>24 DEF Storing
<1>25. CASE AddTotals(r)
  BY <1>24, <1>25, TotalStep DEF Moves, Storing
<1>26. CASE /\ StoreBlock(r) \/ BeginSum(r) \/ EndSum(r) \/ SumRaises(r) \/ RestoreCondition(r)
  <2>1. InPc(r, Storing)
    BY <1>26 DEF StoreBlock, BeginSum, EndSum, SumRaises, RestoreCondition, At, InPc, Storing
  <2>2. Keeps(r)
    BY StepKeeps
  <2>. QED  BY <1>24, <2>1, <2>2 DEF Keeps
<1>. QED
  BY <1>16, <1>17, <1>18, <1>19, <1>20, <1>21, <1>22, <1>23, <1>25, <1>26 DEF Observe

LEMMA AloneStep ==
    ASSUME TypeInv, AdmissionInv, ConditionInv, PlaceInv, AloneInv, Next
    PROVE  AloneInv'
<1>1. PICK r \in Threads : Start(r) \/ EstimateBlock(r) \/ Observe(r)
  BY DEF Next
<1>2. Takes(r) /\ config' = config /\ \A s \in Threads \ {r} : Same(s)
  BY <1>1, TypeStep, StepIsTaken DEF Takes
<1>. SUFFICES ASSUME Alone
              PROVE  /\ \A s \in Threads : Agrees(s)'
                     /\ SumOver(CachedTokens, Added)' = total_cached_prefix_tokens'
  BY <1>2 DEF AloneInv, Alone
<1>3. ASSUME NEW s \in Threads \ {r} PROVE Agrees(s)'
  <2>1. s \notin Overlapping /\ Same(s)
    BY <1>2, OthersRest
  <2>2. thread'[s].pc \in {"queued", "done", "failed"}
    BY <2>1 DEF Overlapping, Same
  <2>. QED  BY <2>2 DEF Agrees, InPc
<1>4. Agrees(r)'
  BY <1>1, AgreesByActor DEF AloneInv
<1>5. SumOver(CachedTokens, Added)' = total_cached_prefix_tokens'
  <2>1. SumOver(CachedTokens, Added) = total_cached_prefix_tokens
    BY DEF AloneInv
  <2>2. CASE AddTotals(r)
    <3>1. /\ total_cached_prefix_tokens' = total_cached_prefix_tokens + thread[r].reused
          /\ thread[r].pc = "total"
      BY <2>2, TotalStep
    <3>2. SumOver(CachedTokens, Added)' = SumOver(CachedTokens, Added) + thread[r].cached
      BY <1>1, <2>2, SumsStep
    <3>3. thread[r].reused = thread[r].cached
      BY <3>1 DEF AloneInv, Agrees, InPc
    <3>. QED  BY <2>1, <3>1, <3>2, <3>3
  <2>3. CASE ~AddTotals(r)
    <3>1. total_cached_prefix_tokens' = total_cached_prefix_tokens
      <4>1. CASE CountRequest(r)
        BY <4>1, CountStep
      <4>2. CASE ~CountRequest(r)
        BY <1>1, <2>3, <4>2, StepCounts DEF Counts, Counters
      <4>. QED  BY <4>1, <4>2
    <3>2. SumOver(CachedTokens, Added)' = SumOver(CachedTokens, Added)
      BY <1>1, <2>3, SumsStep
    <3>. QED  BY <2>1, <3>1, <3>2
  <2>. QED  BY <2>2, <2>3
<1>. QED  BY <1>3, <1>4, <1>5

------------------------------------------------------------------------------
(***************************************************************************)
(* The responses and the counters of the run.                              *)
(***************************************************************************)
\* The inductive invariant of the reuse.
ReuseInv ==
    /\ TypeInv /\ AdmissionInv /\ OriginInv /\ EarnedInv /\ ConditionInv
    /\ PlaceInv /\ CountInv /\ TotalInv /\ KeptInv /\ AloneInv

LEMMA ReuseInit == Init => ReuseInv
<1>. SUFFICES ASSUME Init PROVE ReuseInv
  OBVIOUS
<1>1. TypeInv /\ AdmissionInv /\ ConditionInv
  BY TypeInit, AdmissionInit, ConditionInit
<1>2. \A r \in Threads : /\ thread[r].pc = "queued" /\ thread[r].i = 1
                         /\ thread[r].cached = 0 /\ thread[r].reused = 0
  BY DEF Init
<1>3. request_count = 0 /\ total_prompt_tokens = 0 /\ total_cached_prefix_tokens = 0
  BY DEF Init
<1>4. Keys(table) = {}
  <2>1. table = EmptyTable
    BY DEF Init, table, Last
  <2>. QED  BY <2>1, EmptyTableGood
<1>5. OriginInv
  BY <1>4 DEF OriginInv
<1>6. EarnedInv
  <2>1. ASSUME NEW r \in Threads PROVE Sharing(r, 0) /\ 0 \in 0 .. Len(thread[r].prompt)
    <3>1. TokensOf(Prefix(r, 0)) = 0 /\ Len(thread[r].prompt) \in Nat
      BY <1>1, PrefixTokens, BlockFacts
    <3>. QED  BY <1>2, <3>1 DEF Sharing
  <2>. QED  BY <1>2, <2>1 DEF EarnedInv
<1>7. PlaceInv
  BY <1>2 DEF PlaceInv, Place
<1>8. Observed = {} /\ Added = {}
  BY <1>2 DEF Observed, Added, InPc, Storing
<1>9. CountInv
  BY <1>3, <1>8, FS_EmptySet DEF CountInv
<1>10. SumOver(PromptTokens, Added) = 0 /\ SumOver(CachedTokens, Added) = 0
  <2>1. PromptTokens \in [Threads -> Nat] /\ CachedTokens \in [Threads -> Nat]
        /\ IsFiniteSet(Threads)
    BY <1>1, TokensTypes
  <2>. QED  BY <1>8, <2>1, SumOverFacts
<1>11. TotalInv
  BY <1>2, <1>3, <1>10 DEF TotalInv, InPc
<1>12. KeptInv
  BY <1>2, <1>3, <1>10 DEF KeptInv, Kept, InPc
<1>13. AloneInv
  BY <1>2, <1>3, <1>10 DEF AloneInv, Agrees, InPc
<1>. QED  BY <1>1, <1>5, <1>6, <1>7, <1>9, <1>11, <1>12, <1>13 DEF ReuseInv

LEMMA ReuseStutter ==
    ASSUME ReuseInv, UNCHANGED vars
    PROVE  ReuseInv'
<1>1. UNCHANGED <<config, condition, tables, request_count, total_prompt_tokens,
                  total_cached_prefix_tokens, thread>>
  BY DEF vars
<1>2. TypeInv' /\ table' = table
  BY <1>1, TypeStutter DEF ReuseInv, table
<1>3. AdmissionInv'
  BY <1>1 DEF ReuseInv, AdmissionInv, Overlapping, Bound, InPc
<1>4. OriginInv' /\ EarnedInv'
  BY <1>1, <1>2 DEF ReuseInv, OriginInv, Owner, EarnedInv, Sharing, Prefix, InPc
<1>5. ConditionInv'
  BY <1>1
  DEF ReuseInv, ConditionInv, SavedInv, NeverChanged, AlwaysWarm, ChangedByOne, NothingEarned,
      Alone, Cow, Overlapping, InPc
<1>6. PlaceInv'
  BY <1>1 DEF ReuseInv, PlaceInv, Place, InPc
<1>7. PromptTokens' = PromptTokens /\ CachedTokens' = CachedTokens /\ Added' = Added
      /\ Observed' = Observed
  BY <1>1 DEF PromptTokens, CachedTokens, Added, Observed, InPc
<1>8. CountInv'
  BY <1>1, <1>7 DEF ReuseInv, CountInv
<1>9. TotalInv'
  BY <1>1, <1>7 DEF ReuseInv, TotalInv, Alone, InPc
<1>10. KeptInv'
  <2>1. \A r \in Threads : Kept(r) => Kept(r)'
    BY <1>1, <1>2 DEF Kept, Estimated, Hits, Looked, Prefix, InPc
  <2>. QED  BY <1>1, <1>7, <2>1 DEF ReuseInv, KeptInv, Keeping
<1>11. AloneInv'
  <2>1. \A r \in Threads : Agrees(r) => Agrees(r)'
    BY <1>1, <1>2 DEF Agrees, Agreed, Estimated, Hits, Looked, Prefix, InPc
  <2>. QED  BY <1>1, <1>7, <2>1 DEF ReuseInv, AloneInv, Alone
<1>. QED
  BY <1>2, <1>3, <1>4, <1>5, <1>6, <1>8, <1>9, <1>10, <1>11 DEF ReuseInv

\* Without a budget the table ends up with every block of the run.
LEMMA AllBlocksKept ==
    ASSUME TypeInv, \A r \in Threads : Hits(r, Len(thread[r].prompt))
    PROVE  ToSet(table.blocks) = Blocks
<1>1. table \in Good(Blocks) /\ BlockSet(Blocks)
  <2>1. tables \in Seq(Good(Blocks)) /\ Len(tables) > 0 /\ BlockSet(Blocks)
    BY PromptFacts DEF TypeInv
  <2>2. Len(tables) \in Nat /\ Len(tables) \in 1 .. Len(tables)
    BY <2>1, LenProperties
  <2>3. tables[Len(tables)] \in Good(Blocks)
    BY <2>1, <2>2, ElementOfSeq
  <2>. QED  BY <2>1, <2>2, <2>3 DEF table, Last
<1>2. /\ table.blocks \in Seq(Blocks) /\ Len(table.blocks) \in Nat
      /\ \A i \in 1 .. Len(table.blocks) : table.blocks[i] \in Blocks
  BY <1>1, GoodFacts
<1>3. ToSet(table.blocks) = {table.blocks[i] : i \in 1 .. Len(table.blocks)}
  <2>1. DOMAIN table.blocks = 1 .. Len(table.blocks)
    BY <1>2, LenProperties
  <2>. QED  BY <2>1 DEF ToSet
<1>4. ASSUME NEW b \in Blocks PROVE b \in ToSet(table.blocks)
  <2>1. PICK r \in Threads : \E j \in 1 .. Len(thread[r].prompt) : thread[r].prompt[j] = b
    BY PromptFacts DEF TypeInv
  <2>2. b.key \in Keys(table)
    BY <2>1 DEF Hits
  <2>3. PICK i \in 1 .. Len(table.blocks) : table.blocks[i].key = b.key
    BY <2>2 DEF Keys
  <2>4. table.blocks[i] = b
    BY <1>2, <2>3, PromptFacts DEF TypeInv
  <2>. QED  BY <1>3, <2>4
<1>. QED  BY <1>2, <1>3, <1>4

LEMMA ReuseInvImplies ==
    ASSUME ReuseInv
    PROVE  ReuseIsEarned
<1>. DEFINE storing == {q \in Threads : thread[q].pc \in {"store", "evict", "sum", "restore",
                                                          "done", "failed"}}
            blocks  == UNION {ToSet(thread[r].prompt) : r \in Threads}
            cached  == SumOver([r \in Threads |-> thread[r].cached], Threads)
            prompt_tokens == SumOver([r \in Threads |-> TokensOf(thread[r].prompt)], Threads)
            alone   == config.max_concurrency = 1
<1>1. TypeInv /\ AdmissionInv /\ EarnedInv /\ CountInv /\ TotalInv /\ KeptInv /\ AloneInv
      /\ NothingEarned
  BY DEF ReuseInv, ConditionInv
<1>2. alone => Alone
  BY DEF Alone
<1>3. /\ \A q \in Threads : q \in storing <=> InPc(q, Storing)
      /\ storing \subseteq Threads
  BY DEF InPc, Storing
<1>4. blocks = Blocks
  BY DEF Blocks
<1>5. cached = SumOver(CachedTokens, Threads) /\ prompt_tokens = SumOver(PromptTokens, Threads)
  BY DEF CachedTokens, PromptTokens
<1>. HIDE DEF storing, blocks, cached, prompt_tokens, alone
<1>6. ASSUME NEW r \in Threads
      PROVE  thread[r].cached <= Max({0} \cup {CommonTokens(q, r) : q \in storing \ {r}})
  BY <1>1, <1>3, EarnedImplies
<1>7. config.condition # "warm" /\ (alone \/ config.model # "copy_on_write") =>
          \A r \in Threads : thread[r].cached = 0
  BY <1>1, <1>2 DEF NothingEarned, Cow
<1>8. ASSUME AllOver
      PROVE  /\ request_count = RequestCount
             /\ total_prompt_tokens <= prompt_tokens
             /\ alone => /\ total_prompt_tokens = prompt_tokens
                         /\ total_cached_prefix_tokens = cached
             /\ config.condition = "warm" /\ config.budget = NoBudget =>
                   /\ total_cached_prefix_tokens >= cached
                   /\ ToSet(table.blocks) = blocks
  <2>1. \A r \in Threads : InPc(r, {"done", "failed"})
    BY <1>8 DEF AllOver, At, InPc
  <2>2. Observed = Threads /\ Added = Threads
    BY <2>1 DEF Observed, Added, InPc, Storing
  <2>3. Cardinality(Threads) = RequestCount
    BY FS_Interval DEF Threads
  <2>4. request_count = RequestCount
    BY <1>1, <2>2, <2>3 DEF CountInv
  <2>5. total_prompt_tokens <= prompt_tokens /\ (alone => total_prompt_tokens = prompt_tokens)
    BY <1>1, <1>2, <1>5, <2>2 DEF TotalInv
  <2>6. alone => total_cached_prefix_tokens = cached
    BY <1>1, <1>2, <1>5, <2>2 DEF AloneInv
  <2>7. ASSUME config.condition = "warm", config.budget = NoBudget
        PROVE  total_cached_prefix_tokens >= cached /\ ToSet(table.blocks) = blocks
    <3>1. (\A r \in Threads : Kept(r)) /\ cached <= total_cached_prefix_tokens
      BY <1>1, <1>5, <2>2, <2>7 DEF KeptInv, Keeping
    <3>2. \A r \in Threads : InPc(r, {"done"})
      BY <1>1, <2>1, <2>7 DEF AdmissionInv, InPc
    <3>3. \A r \in Threads : Hits(r, Len(thread[r].prompt))
      BY <3>1, <3>2 DEF Kept, InPc
    <3>4. ToSet(table.blocks) = blocks
      BY <1>1, <1>4, <3>3, AllBlocksKept
    <3>5. cached \in Nat /\ total_cached_prefix_tokens \in Nat
      BY <1>1, <1>5, <2>2, TokensTypes DEF TypeInv
    <3>. QED  BY <3>1, <3>4, <3>5
  <2>. QED  BY <2>4, <2>5, <2>6, <2>7
<1>. QED
  BY <1>6, <1>7, <1>8 DEF ReuseIsEarned, storing, blocks, cached, prompt_tokens, alone

\* However the requests that share the cache interleave: what a response reports as cached,
\* another request has stored or is storing; nothing is reported outside the warm condition
\* unless copy_on_write requests overlap; and when all is over the counters and the table agree
\* with the responses as ReuseIsEarned says.
THEOREM ReuseIsAlwaysEarned == Spec => []ReuseIsEarned
<1>1. ReuseInv /\ [Next]_vars => ReuseInv'
  <2>1. CASE Next
    BY <2>1, TypeStep, AdmissionStep, OriginStep, EarnedStep, ConditionStep, PlaceStep,
       CountInvStep, TotalInvStep, KeptStep, AloneStep DEF ReuseInv
  <2>2. CASE UNCHANGED vars
    BY <2>2, ReuseStutter
  <2>. QED  BY <2>1, <2>2
<1>2. ReuseInv => ReuseIsEarned
  BY ReuseInvImplies
<1>. QED  BY <1>1, <1>2, ReuseInit, PTL DEF Spec
=============================================================================
