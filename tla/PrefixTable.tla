------------------------------ MODULE PrefixTable ------------------------------
(***************************************************************************)
(* cache/prefix_table.py: an ordered table of token blocks with an LRU     *)
(* token budget.  A table is a record; its blocks are a sequence, the      *)
(* least recently used first, as in the OrderedDict.                       *)
(*                                                                         *)
(* An operator named X_Fault is X with a fault a programmer could make; no *)
(* specification uses it.                                                  *)
(***************************************************************************)
EXTENDS Naturals, Sequences, SequencesExt, FiniteSetsExt

CONSTANT NoBudget       \* max_memory_tokens = None

EmptyTable ==
    [blocks |-> <<>>, logical_blocks |-> {}, lookup_count |-> 0, hit_count |-> 0,
     eviction_count |-> 0, evicted_token_count |-> 0]

TokensOf(blocks) == FoldLeft(LAMBDA n, b : n + b.token_count, 0, blocks)

Keys(t) == {t.blocks[i].key : i \in 1 .. Len(t.blocks)}

cached_tokens(t) == TokensOf(t.blocks)

\* setdefault: the first token count of a logical key stays.
logical_tokens(t) == MapThenSumSet(LAMBDA l : l.token_count, t.logical_blocks)
------------------------------------------------------------------------------
\* First in, first out.
move_to_end_Nothing(t, b) == t

move_to_end(t, b) ==
    [t EXCEPT !.blocks = Append(RemoveFirstMatch(@, LAMBDA c : c.key = b.key), b)]

(***************************************************************************)
(* contains: a lookup that is counted, and moves a hit to the end.         *)
(***************************************************************************)
contains(t, b) ==
    IF b.key \in Keys(t)
    THEN [move_to_end(t, b) EXCEPT !.lookup_count = @ + 1, !.hit_count = @ + 1]
    ELSE [t EXCEPT !.lookup_count = @ + 1]

(***************************************************************************)
(* Drops the fewest blocks from the front that bring the rest within the   *)
(* budget.                                                                 *)
(***************************************************************************)
evict_if_needed(t, budget) ==
    LET after(n) == SubSeq(t.blocks, n + 1, Len(t.blocks))
        dropped  == Min({n \in 0 .. Len(t.blocks) : TokensOf(after(n)) <= budget})
    IN  IF budget = NoBudget THEN t
        ELSE [t EXCEPT !.blocks = after(dropped),
                       !.eviction_count = @ + dropped,
                       !.evicted_token_count = @ + TokensOf(SubSeq(t.blocks, 1, dropped))]

Insert(t, b) ==
    [t EXCEPT !.blocks = Append(@, b),
              !.logical_blocks =
                  IF \E l \in @ : l.key = b.logical_key THEN @
                  ELSE @ \cup {[key |-> b.logical_key, token_count |-> b.token_count]}]

\* Makes room before the new block is counted.
add_EvictsFirst(t, b, budget) ==
    CASE budget # NoBudget /\ b.token_count > budget -> t
      [] b.key \in Keys(t) -> move_to_end(t, b)
      [] OTHER -> Insert(evict_if_needed(t, budget), b)

(***************************************************************************)
(* add: a block larger than the budget is not stored, a known one becomes  *)
(* the most recent, a new one is appended and may evict.                   *)
(***************************************************************************)
add(t, b, budget) ==
    IF budget # NoBudget /\ b.token_count > budget THEN t
    ELSE IF b.key \in Keys(t) THEN move_to_end(t, b)
    ELSE evict_if_needed(Insert(t, b), budget)
=============================================================================
