------------------------- MODULE GuestVirtualMemory -------------------------
(***************************************************************************)
(* NtAllocateVirtualMemory and NtFreeVirtualMemory of the leaf runtime     *)
(* (src/guest_virtual_memory.cpp) over the pages of one guest heap.  The   *)
(* heap is Xenia's and external: a page is free, reserved or committed,    *)
(* belongs to the region reserved with it, and keeps its bytes when it is  *)
(* decommitted or released.  Addresses and sizes are whole pages; page 0   *)
(* stands for the null address.  Protection is left out: zeroing lifts it  *)
(* and puts it back.  NtQueryVirtualMemory changes nothing.                *)
(***************************************************************************)
EXTENDS Naturals

CONSTANT NumPages

ASSUME NumPagesAssumption == NumPages \in Nat \ {0}

Pages == 1..NumPages

\* An address LookupVirtualHeap finds no guest-virtual heap for.
OutsideHeap == NumPages + 1

VARIABLES
    state,  \* allocation state of each page
    region, \* first page of the region it was reserved with, 0 if free
    dirty,  \* pages whose bytes are not all zero
    status, \* what the last call returned: a status, or a refusal
    commit  \* history: what the last step committed

heapVars == <<state, region, dirty>>
vars == <<heapVars, status, commit>>

Statuses == {"none", "SUCCESS", "INVALID_PARAMETER", "NO_MEMORY", "UNSUCCESSFUL",
             "MEMORY_NOT_ALLOCATED", "refused"}

\* The two guest words passed by address: at most one of them is bad.
Slots == {"null", "unreadable", "readonly", "ok"}
SlotPairs == {<<"ok", s>> : s \in Slots} \cup {<<s, "ok">> : s \in Slots}

AllocTypes ==
    SUBSET {"RESERVE", "COMMIT", "NOZERO"} \cup {{"RESET"}, {"RESET", "COMMIT"}}
FreeTypes == SUBSET {"DECOMMIT", "RELEASE"}

Committed == {p \in Pages : state[p] = "committed"}
Run(base, n) == base..(base + n - 1)

\* fresh: pages newly committed, to be zeroed; live: pages that already were
\* committed and held data; uniform: the range was all committed or not at all.
CommitOf(pages, type) ==
    [fresh   |-> IF "COMMIT" \in type /\ "NOZERO" \notin type THEN pages \ Committed ELSE {},
     live    |-> pages \cap Committed \cap dirty,
     uniform |-> pages \subseteq Committed \/ pages \cap Committed = {}]

NoCommit == [fresh |-> {}, live |-> {}, uniform |-> TRUE]

Returns(s) == status' = s /\ commit' = NoCommit /\ UNCHANGED heapVars

-----------------------------------------------------------------------------
(* Xenia's heap *)

\* AllocFixed accepts pages; only a bare reservation needs them to be free.
AllocFixedAccepts(pages, flags) ==
    /\ pages \subseteq Pages
    /\ flags = {"RESERVE"} => \A p \in pages : state[p] = "free"

\* A commit of pages that are not all reserved reserves them as well.
Reserves(pages, flags) ==
    "RESERVE" \in flags \/ \E p \in pages : state[p] = "free"

MapPages(pages, base, flags) ==
    /\ state' = [p \in Pages |->
          IF p \notin pages THEN state[p]
          ELSE IF "COMMIT" \in flags THEN "committed" ELSE "reserved"]
    /\ region' = [p \in Pages |->
          IF p \in pages /\ Reserves(pages, flags) THEN base ELSE region[p]]

-----------------------------------------------------------------------------
(* NtAllocateVirtualMemory *)

\* Refused before the heap is asked.
AllocateChecks(baseSlot, sizeSlot, size, type) ==
    CASE "null" \in {baseSlot, sizeSlot}         -> "INVALID_PARAMETER"
      [] "unreadable" \in {baseSlot, sizeSlot}   -> "refused"
      [] \/ size = 0
         \/ type \cap {"COMMIT", "RESERVE", "RESET"} = {}
         \/ "RESET" \in type /\ type # {"RESET"} -> "INVALID_PARAMETER"
      [] "RESET" \in type                        -> "refused"
      [] OTHER                                   -> "SUCCESS"

MutantZeroedPages(pages, wasCommitted, type) ==
    IF "COMMIT" \notin type \/ "NOZERO" \in type THEN {} ELSE pages

\* ZeroNewlyCommittedPages is called unless the page at the base was committed.
ZeroedPages(pages, wasCommitted, type) ==
    IF wasCommitted \/ "COMMIT" \notin type \/ "NOZERO" \in type THEN {} ELSE pages

\* The heap has taken the pages: zero them and write the results back.
FinishAllocation(pages, base, wasCommitted, type, slots) ==
    /\ MapPages(pages, base, type \ {"NOZERO"})
    /\ dirty' = dirty \ ZeroedPages(pages, wasCommitted, type)
    /\ status' = IF "readonly" \in slots THEN "refused" ELSE "SUCCESS"
    /\ commit' = CommitOf(pages, type)

MutantAllocateAt(base, size, type, slots) ==
    LET pages == Run(base, size) IN
    IF AllocFixedAccepts(pages, type \ {"NOZERO"})
    THEN FinishAllocation(pages, base, state[base] = "committed", type, slots)
    ELSE /\ status' = "NO_MEMORY"
         /\ dirty' = dirty \ pages
         /\ commit' = NoCommit
         /\ UNCHANGED <<state, region>>

AllocateAt(base, size, type, slots) ==
    LET pages == Run(base, size) IN
    IF AllocFixedAccepts(pages, type \ {"NOZERO"})
    THEN FinishAllocation(pages, base, state[base] = "committed", type, slots)
    ELSE Returns("NO_MEMORY")

\* Alloc returns free pages wherever the heap finds them.
AllocateAnywhere(size, type, slots) ==
    LET fits == {b \in Pages : Run(b, size) \subseteq {p \in Pages : state[p] = "free"}} IN
    \/ \E b \in fits : FinishAllocation(Run(b, size), b, FALSE, type, slots)
    \/ fits = {} /\ Returns("NO_MEMORY")

AllocateVirtualMemory(base, size, type, baseSlot, sizeSlot) ==
    LET check == AllocateChecks(baseSlot, sizeSlot, size, type) IN
    IF check # "SUCCESS" THEN Returns(check)
    ELSE IF base = OutsideHeap THEN Returns("INVALID_PARAMETER")
    ELSE IF base # 0 THEN AllocateAt(base, size, type, {baseSlot, sizeSlot})
    ELSE AllocateAnywhere(size, type, {baseSlot, sizeSlot})

-----------------------------------------------------------------------------
(* NtFreeVirtualMemory *)

\* An absent size word is skipped; one that cannot be written refuses the call,
\* which has taken effect by then.
WriteBack(slots) ==
    /\ status' = IF slots \cap {"readonly", "unreadable"} # {} THEN "refused" ELSE "SUCCESS"
    /\ commit' = NoCommit

\* Decommit keeps the reservation.
Decommit(address, size, slots) ==
    IF size # 0 /\ Run(address, size) \subseteq Pages
    THEN /\ state' = [p \in Pages |-> IF p \in Run(address, size) /\ state[p] = "committed"
                                      THEN "reserved" ELSE state[p]]
         /\ WriteBack(slots)
         /\ UNCHANGED <<region, dirty>>
    ELSE Returns("UNSUCCESSFUL")

\* Release takes the whole region, and only from its first page.
Release(address, slots) ==
    LET pages == {p \in Pages : region[p] = address} IN
    IF region[address] = address
    THEN /\ state' = [p \in Pages |-> IF p \in pages THEN "free" ELSE state[p]]
         /\ region' = [p \in Pages |-> IF p \in pages THEN 0 ELSE region[p]]
         /\ WriteBack(slots)
         /\ UNCHANGED dirty
    ELSE Returns("UNSUCCESSFUL")

DecommitOnly(type) == "DECOMMIT" \in type /\ "RELEASE" \notin type

FreeVirtualMemory(address, size, type, baseSlot, sizeSlot) ==
    IF baseSlot = "null" THEN Returns("INVALID_PARAMETER")
    ELSE IF baseSlot = "unreadable" THEN Returns("refused")
    ELSE IF address = 0 THEN Returns("MEMORY_NOT_ALLOCATED")
    ELSE IF address = OutsideHeap THEN Returns("INVALID_PARAMETER")
    ELSE IF ~DecommitOnly(type) THEN Release(address, {baseSlot, sizeSlot})
    ELSE IF sizeSlot \in {"null", "unreadable"} THEN Returns("INVALID_PARAMETER")
    ELSE Decommit(address, size, {baseSlot, sizeSlot})

\* External: the title writes to a page.
GuestWrite(p) ==
    /\ state[p] = "committed"
    /\ dirty' = dirty \cup {p}
    /\ status' = "none"
    /\ commit' = NoCommit
    /\ UNCHANGED <<state, region>>

-----------------------------------------------------------------------------

\* Pages of a heap Xenia has used before hold arbitrary bytes.
Init ==
    /\ state = [p \in Pages |-> "free"]
    /\ region = [p \in Pages |-> 0]
    /\ dirty \in SUBSET Pages
    /\ status = "none"
    /\ commit = NoCommit

Allocates ==
    \E base \in 0..OutsideHeap, size \in 0..NumPages, type \in AllocTypes, slots \in SlotPairs :
        AllocateVirtualMemory(base, size, type, slots[1], slots[2])

Frees ==
    \E address \in 0..OutsideHeap, size \in 0..NumPages, type \in FreeTypes, slots \in SlotPairs :
        FreeVirtualMemory(address, size, type, slots[1], slots[2])

Next == Allocates \/ Frees \/ \E p \in Pages : GuestWrite(p)

Spec == Init /\ [][Next]_vars

-----------------------------------------------------------------------------
(* Properties *)

\* A call that returns a failure status to the title has changed nothing.
FailedCallChangesNothing ==
    [][status' \in Statuses \ {"none", "SUCCESS", "refused"} => UNCHANGED heapVars]_vars

\* A range that is committed whole, or not at all, is handed over correctly:
\* what becomes committed reads as zero and what already was keeps its bytes,
\* whatever the pages held when they were last released or decommitted.
UniformCommit ==
    commit.uniform => commit.fresh \cap dirty = {} /\ commit.live \subseteq dirty

\* "A commit must observe zeroed pages" (src/guest_virtual_memory.cpp:111): for
\* every range, also one that is committed in part.
CommitObservesZero == commit.fresh \cap dirty = {}
=============================================================================
