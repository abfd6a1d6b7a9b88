------------------------------- MODULE Paging -------------------------------
(***************************************************************************)
(* paging_init of threads/init.c: the page directory and the page tables   *)
(* that map all RAM at PHYS_BASE.  A page stands for its address; pages    *)
(* count from PHYS_BASE, so the directory's first entry here is the one    *)
(* for PHYS_BASE.                                                          *)
(*                                                                         *)
(* A definition marked `Wrong' is a fault put in to see that a property    *)
(* notices it; no action uses it.                                          *)
(***************************************************************************)
EXTENDS Integers, Sequences

CONSTANTS
    ENTRIES,        \* 1024 entries in a page table
    RamSizes,       \* init_ram_pages of the machines looked at
    KernelPages,    \* pages in palloc's kernel pool when paging_init begins
    KernelText      \* the pages from _start to _end_kernel_text

ASSUME PagingAssumption ==
    /\ ENTRIES \in Nat \ {0}
    /\ RamSizes \subseteq Nat
    /\ KernelPages \subseteq Nat

VARIABLES
    init_ram_pages,
    pool,           \* pages left in the kernel pool
    pd,             \* the directory: the page tables made, by number; 0 is none
    tables,         \* the page tables, numbered in the order they are made
    page,           \* the page to be mapped next
    paging          \* "idle", "map", "done" or "panic"

pagingVars == <<init_ram_pages, pool, pd, tables, page, paging>>

pd_no(n) == n \div ENTRIES
pt_no(n) == n % ENTRIES

NotMapped == [frame |-> -1, writable |-> FALSE]
pte_create_kernel(n) == [frame |-> n, writable |-> n \notin KernelText]

PagingInit ==
    /\ init_ram_pages \in RamSizes
    /\ pool \in KernelPages
    /\ pd = <<>>
    /\ tables = <<>>
    /\ page = 0
    /\ paging = "idle"

\* The directory; palloc_get_page with PAL_ASSERT panics without a page.
PagingStart ==
    /\ paging = "idle"
    /\ IF pool = 0
       THEN paging' = "panic" /\ UNCHANGED <<pd, pool>>
       ELSE /\ pd' = [n \in 0..pd_no(init_ram_pages) |-> 0]
            /\ pool' = pool - 1
            /\ paging' = "map"
    /\ UNCHANGED <<init_ram_pages, tables, page>>

\* The entry is written to the table made last.
write_pte(ts) ==
    /\ tables' = [ts EXCEPT ![Len(ts)][pt_no(page)] = pte_create_kernel(page)]
    /\ page' = page + 1

NewTable == [n \in 0..(ENTRIES - 1) |-> NotMapped]

\* Wrong: a table for every page.
MapPageAfresh ==
    /\ paging = "map"
    /\ page < init_ram_pages
    /\ IF pool = 0
       THEN paging' = "panic" /\ UNCHANGED <<pd, pool, tables, page>>
       ELSE /\ pd' = [pd EXCEPT ![pd_no(page)] = Len(tables) + 1]
            /\ pool' = pool - 1
            /\ write_pte(Append(tables, NewTable))
            /\ UNCHANGED paging
    /\ UNCHANGED init_ram_pages

\* One round of the loop.
MapPage ==
    /\ paging = "map"
    /\ page < init_ram_pages
    /\ CASE pd[pd_no(page)] # 0 ->
                write_pte(tables) /\ UNCHANGED <<pd, pool, paging>>
         [] pd[pd_no(page)] = 0 /\ pool > 0 ->
                /\ pd' = [pd EXCEPT ![pd_no(page)] = Len(tables) + 1]
                /\ pool' = pool - 1
                /\ write_pte(Append(tables, NewTable))
                /\ UNCHANGED paging
         [] OTHER -> paging' = "panic" /\ UNCHANGED <<pd, pool, tables, page>>
    /\ UNCHANGED init_ram_pages

\* The directory goes into CR3.
LoadPageDir ==
    /\ paging = "map"
    /\ page = init_ram_pages
    /\ paging' = "done"
    /\ UNCHANGED <<init_ram_pages, pool, pd, tables, page>>

\* With the directory in CR3, the MMU finds for each page of RAM its own
\* frame, read-only where the kernel's text is, and maps nothing else.
RamMapped ==
    paging = "done" =>
        \A i \in DOMAIN pd, j \in DOMAIN NewTable :
            LET n == i * ENTRIES + j
                entry == IF pd[i] = 0 THEN NotMapped ELSE tables[pd[i]][j]
            IN entry = IF n < init_ram_pages THEN pte_create_kernel(n) ELSE NotMapped

\* What the loop keeps: entry i of the directory is for table i + 1, there are
\* tables for the pages mapped so far and no more, and each of these pages is
\* mapped to its own frame.
PagingInv ==
    /\ init_ram_pages \in Nat /\ pool \in Nat
    /\ page \in 0..init_ram_pages
    /\ paging \in {"idle", "map", "done", "panic"}
    /\ paging = "done" => page = init_ram_pages
    /\ paging = "idle" => page = 0 /\ tables = <<>>
    /\ paging \in {"map", "done"} =>
           /\ DOMAIN pd = 0..pd_no(init_ram_pages)
           /\ \A i \in DOMAIN pd : pd[i] = IF i * ENTRIES < page THEN i + 1 ELSE 0
           /\ tables \in Seq([0..(ENTRIES - 1) -> [frame : Int, writable : BOOLEAN]])
           /\ Len(tables) * ENTRIES >= page
           /\ \A k \in 1..Len(tables) :
                  /\ (k - 1) * ENTRIES < page
                  /\ \A j \in 0..(ENTRIES - 1) :
                         LET n == (k - 1) * ENTRIES + j
                         IN tables[k][j] = IF n < page THEN pte_create_kernel(n) ELSE NotMapped

=============================================================================
