------------------------------- MODULE Memcheck -------------------------------
(***************************************************************************)
(* The leak detector (memcheck.c): a table of the blocks it knows of and   *)
(* counters, changed around the calls of the C library's allocator.        *)
(***************************************************************************)
EXTENDS Integers, Sequences, FiniteSets, Functions

CONSTANTS Ptr,         \* addresses the allocator may return
          Size,        \* sizes the program asks for
          MaxAllocs,   \* CWH_MEMCHECK_MAX_ALLOCS
          MaxTotal     \* bound: allocations counted between two resets

ASSUME MemcheckAssumption == Size \subseteq Nat /\ MaxAllocs \in Nat /\ MaxTotal \in Nat

VARIABLES
  heap,            \* the blocks that exist: address to size
  g_alloc_table, g_initialized,
  g_stats,
  since            \* (history) blocks that came into being while the detector
                   \* watched and its table had room
vars == <<heap, g_alloc_table, g_initialized, g_stats, since>>

NoStats == [total_allocations |-> 0, total_frees |-> 0, current_allocations |-> 0,
            peak_allocations |-> 0, current_bytes |-> 0, peak_bytes |-> 0]

Init == /\ heap = <<>> /\ g_alloc_table = <<>> /\ g_initialized = FALSE
        /\ g_stats = NoStats /\ since = {}

-----------------------------------------------------------------------------
Larger(a, b) == IF a > b THEN a ELSE b
Full(table) == Len(table) >= MaxAllocs

\* A block that is added to a table and to its statistics, unless the table
\* is full.
add_allocation(table, ptr, size) ==
  IF Full(table) THEN table ELSE Append(table, [ptr |-> ptr, size |-> size])

Counted(table, stats, size) ==
  IF Full(table) THEN stats
  ELSE [total_allocations |-> stats.total_allocations + 1,
        total_frees |-> stats.total_frees,
        current_allocations |-> stats.current_allocations + 1,
        peak_allocations |-> Larger(stats.peak_allocations, stats.current_allocations + 1),
        current_bytes |-> stats.current_bytes + size,
        peak_bytes |-> Larger(stats.peak_bytes, stats.current_bytes + size)]

find_alloc_slot(table, ptr) == {i \in DOMAIN table : table[i].ptr = ptr}

\* The last entry takes the place of the one removed.  (Variant: it is cut
\* off, whichever was meant.)
LastCut(table, i) == SubSeq(table, 1, Len(table) - 1)
Swapped(table, i) == SubSeq([table EXCEPT ![i] = table[Len(table)]], 1, Len(table) - 1)

\* A block that is not in the table changes nothing.
remove_allocation(table, ptr) ==
  IF find_alloc_slot(table, ptr) = {} THEN table
  ELSE Swapped(table, CHOOSE i \in find_alloc_slot(table, ptr) : TRUE)

\* (Variant: of the counters, only that of frees looks for the block.)
UncountedAlways(table, stats, ptr) ==
  [stats EXCEPT !.total_frees = @ + Cardinality(find_alloc_slot(table, ptr)),
                !.current_allocations = @ - 1]
Uncounted(table, stats, ptr) ==
  IF find_alloc_slot(table, ptr) = {} THEN stats
  ELSE LET slot == CHOOSE i \in find_alloc_slot(table, ptr) : TRUE
       IN  [total_allocations |-> stats.total_allocations,
            total_frees |-> stats.total_frees + 1,
            current_allocations |-> stats.current_allocations - 1,
            peak_allocations |-> stats.peak_allocations,
            current_bytes |-> stats.current_bytes - table[slot].size,
            peak_bytes |-> stats.peak_bytes]

-----------------------------------------------------------------------------
Live == DOMAIN heap
Fresh == Ptr \ Live
WithBlock(h, p, n) == [q \in DOMAIN h \cup {p} |-> IF q = p THEN n ELSE h[q]]
WithoutBlock(h, p) == [q \in DOMAIN h \ {p} |-> h[q]]

cwh_memcheck_init ==
  /\ ~g_initialized /\ g_initialized' = TRUE
  /\ g_alloc_table' = <<>> /\ g_stats' = NoStats /\ since' = {}
  /\ UNCHANGED heap

cwh_memcheck_shutdown == /\ g_initialized /\ g_initialized' = FALSE
                         /\ UNCHANGED <<heap, g_alloc_table, g_stats, since>>

cwh_memcheck_reset == /\ g_alloc_table' = <<>> /\ g_stats' = NoStats /\ since' = {}
                      /\ UNCHANGED <<heap, g_initialized>>

\* A block that has come into being at p is put down in table and stats.
PutDown(table, stats, S, p, n) ==
  /\ g_alloc_table' = add_allocation(table, p, n)
  /\ g_stats' = Counted(table, stats, n)
  /\ since' = IF Full(table) THEN S ELSE S \cup {p}

\* malloc and calloc; one that fails changes nothing.
cwh_memcheck_malloc(n) ==
  \E p \in Fresh :
    /\ g_stats.total_allocations < MaxTotal
    /\ heap' = WithBlock(heap, p, n)
    /\ IF g_initialized THEN PutDown(g_alloc_table, g_stats, since, p, n)
       ELSE UNCHANGED <<g_alloc_table, g_stats, since>>
    /\ UNCHANGED g_initialized

\* The block at p is forgotten before realloc, which moves it or not, or
\* fails and leaves it where it is, or frees it when n is zero.
cwh_memcheck_realloc(p, n) ==
  LET table == remove_allocation(g_alloc_table, p)
      stats == Uncounted(g_alloc_table, g_stats, p)
  IN  /\ g_stats.total_allocations < MaxTotal
      /\ \/ /\ n > 0
            /\ \E q \in Fresh \cup {p} :
                 /\ heap' = WithBlock(WithoutBlock(heap, p), q, n)
                 /\ IF g_initialized THEN PutDown(table, stats, since \ {p}, q, n)
                    ELSE UNCHANGED <<g_alloc_table, g_stats, since>>
         \/ /\ heap' = IF n = 0 THEN WithoutBlock(heap, p) ELSE heap
            /\ IF g_initialized
               THEN g_alloc_table' = table /\ g_stats' = stats /\ since' = since \ {p}
               ELSE UNCHANGED <<g_alloc_table, g_stats, since>>
      /\ UNCHANGED g_initialized

cwh_memcheck_free(p) ==
  /\ heap' = WithoutBlock(heap, p)
  /\ IF g_initialized
     THEN /\ g_alloc_table' = remove_allocation(g_alloc_table, p)
          /\ g_stats' = Uncounted(g_alloc_table, g_stats, p)
          /\ since' = since \ {p}
     ELSE UNCHANGED <<g_alloc_table, g_stats, since>>
  /\ UNCHANGED g_initialized

Next == \/ cwh_memcheck_init \/ cwh_memcheck_shutdown \/ cwh_memcheck_reset
        \/ \E n \in Size : cwh_memcheck_malloc(n)
        \/ \E p \in Live : cwh_memcheck_free(p)
        \/ \E p \in Live, n \in Size : cwh_memcheck_realloc(p, n)

Spec == Init /\ [][Next]_vars

-----------------------------------------------------------------------------
(***************************************************************************)
(* The counters are those of the table: as many allocations are current as *)
(* have an entry, which is as many as were counted and not yet freed, and  *)
(* never more than the peak or than the table holds; whatever blocks are   *)
(* freed that the table, because it was full, reset, or not yet in use,    *)
(* does not know.                                                          *)
(***************************************************************************)
CountersAgree ==
  /\ g_stats.current_allocations = Len(g_alloc_table)
  /\ g_stats.total_allocations - g_stats.total_frees = Len(g_alloc_table)
  /\ Len(g_alloc_table) <= g_stats.peak_allocations
  /\ g_stats.peak_allocations <= MaxAllocs

TableExact ==
  /\ {g_alloc_table[i].ptr : i \in DOMAIN g_alloc_table} = since
  /\ \A i, j \in DOMAIN g_alloc_table : g_alloc_table[i].ptr = g_alloc_table[j].ptr => i = j
  /\ \A i \in DOMAIN g_alloc_table : /\ g_alloc_table[i].ptr \in Live
                                     /\ g_alloc_table[i].size = heap[g_alloc_table[i].ptr]
BytesExact ==
  g_stats.current_bytes = FoldFunction(LAMBDA e, n : e.size + n, 0, g_alloc_table)

(***************************************************************************)
(* While the detector watches, its table, and so the leaks it reports, are *)
(* blocks that exist, each once and with its size: all that came into      *)
(* being since it was started or reset, while there was room, and that no  *)
(* free or failed realloc has taken out; the bytes it counts are theirs.   *)
(***************************************************************************)
LeaksExact ==
  g_initialized => TableExact /\ BytesExact

=============================================================================
