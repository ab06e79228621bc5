---------------------- MODULE GuestVirtualMemoryProofs ----------------------
(***************************************************************************)
(* What NtAllocateVirtualMemory and NtFreeVirtualMemory do to the pages of *)
(* a heap of any size, whatever ranges, types and words they are given.    *)
(***************************************************************************)
EXTENDS GuestVirtualMemory, TLAPS

-----------------------------------------------------------------------------
(* The inductive invariant *)

PageStates == {"free", "reserved", "committed"}

\* A page belongs to a region exactly while it is not free.
HeapInv ==
    /\ state \in [Pages -> PageStates]
    /\ region \in [Pages -> 0..NumPages]
    /\ dirty \subseteq Pages
    /\ \A p \in Pages : state[p] = "free" <=> region[p] = 0

VirtualMemoryInv == HeapInv /\ status \in Statuses /\ UniformCommit

-----------------------------------------------------------------------------
(* What a call may do *)

\* A call that returns a status has left the heap alone.
LEMMA ReturnsKeeps ==
    ASSUME HeapInv, NEW s \in Statuses, Returns(s)
    PROVE  HeapInv' /\ status' \in Statuses /\ UniformCommit' /\ UNCHANGED heapVars
BY DEF Returns, HeapInv, heapVars, UniformCommit, NoCommit

\* The first page of a range decides whether the range is zeroed: that is right
\* when all of it was committed, or none.
LEMMA FinishKeeps ==
    ASSUME HeapInv, NEW base \in Pages, NEW pages \in SUBSET Pages, base \in pages,
           NEW wasCommitted, wasCommitted <=> state[base] = "committed",
           NEW type \in AllocTypes, type \cap {"COMMIT", "RESERVE"} # {}, NEW slots,
           FinishAllocation(pages, base, wasCommitted, type, slots)
    PROVE  HeapInv' /\ status' \in {"SUCCESS", "refused"} /\ UniformCommit'
<1> DEFINE flags == type \ {"NOZERO"}
           zeroed == ZeroedPages(pages, wasCommitted, type)
<1>1. /\ MapPages(pages, base, flags) /\ dirty' = dirty \ zeroed
      /\ status' \in {"SUCCESS", "refused"} /\ commit' = CommitOf(pages, type)
  BY DEF FinishAllocation
<1>2. HeapInv'
  <2>1. state' \in [Pages -> PageStates] /\ dirty' \subseteq Pages
    BY <1>1 DEF MapPages, HeapInv, PageStates
  <2>2. region' \in [Pages -> 0..NumPages]
    BY <1>1, NumPagesAssumption DEF MapPages, HeapInv, Pages
  <2>3. ASSUME NEW p \in Pages PROVE state'[p] = "free" <=> region'[p] = 0
    <3>1. base # 0
      BY NumPagesAssumption DEF Pages
    <3>2. CASE p \in pages
      BY <1>1, <3>1, <3>2 DEF MapPages, Reserves, HeapInv
    <3>3. CASE p \notin pages
      BY <1>1, <3>3 DEF MapPages, HeapInv
    <3> QED
      BY <3>2, <3>3
  <2> QED
    BY <2>1, <2>2, <2>3 DEF HeapInv
<1>3. UniformCommit'
  <2>1. CASE pages \subseteq Committed
    <3>1. wasCommitted /\ zeroed = {}
      BY <2>1 DEF Committed, ZeroedPages
    <3> QED
      BY <1>1, <2>1, <3>1 DEF UniformCommit, CommitOf
  <2>2. CASE pages \cap Committed = {}
    <3>1. ~wasCommitted
      BY <2>2 DEF Committed
    <3>2. "COMMIT" \in type /\ "NOZERO" \notin type => zeroed = pages
      BY <3>1 DEF ZeroedPages
    <3> HIDE DEF zeroed
    <3> QED
      BY <1>1, <2>2, <3>2 DEF UniformCommit, CommitOf
  <2>3. CASE ~(pages \subseteq Committed \/ pages \cap Committed = {})
    BY <1>1, <2>3 DEF UniformCommit, CommitOf
  <2> QED
    BY <2>1, <2>2, <2>3
<1> QED
  BY <1>1, <1>2, <1>3

\* What a step owes: the invariant, and an untouched heap if it says it failed.
Owed ==
    /\ HeapInv' /\ status' \in Statuses /\ UniformCommit'
    /\ status' \in Statuses \ {"none", "SUCCESS", "refused"} => UNCHANGED heapVars

\* NtAllocateVirtualMemory, on a range it is given or one the heap finds.
LEMMA AllocateOwes ==
    ASSUME HeapInv, NEW base \in 0..OutsideHeap, NEW size \in 0..NumPages, NEW type \in AllocTypes,
           NEW baseSlot \in Slots, NEW sizeSlot \in Slots,
           AllocateVirtualMemory(base, size, type, baseSlot, sizeSlot)
    PROVE  Owed
<1> DEFINE check == AllocateChecks(baseSlot, sizeSlot, size, type)
           slots == {baseSlot, sizeSlot}
<1>1. check \in Statuses
  BY DEF AllocateChecks, Statuses
<1>2. ASSUME NEW s \in Statuses, Returns(s) PROVE Owed
  BY <1>2, ReturnsKeeps DEF Owed
<1>3. CASE check # "SUCCESS"
  BY <1>1, <1>2, <1>3 DEF AllocateVirtualMemory
<1>4. CASE check = "SUCCESS"
  <2>1. size # 0 /\ type \cap {"COMMIT", "RESERVE"} # {}
    BY <1>4 DEF AllocateChecks, AllocTypes
  <2>2. ASSUME NEW first \in Pages, Run(first, size) \subseteq Pages, NEW wasCommitted,
               wasCommitted <=> state[first] = "committed",
               FinishAllocation(Run(first, size), first, wasCommitted, type, slots)
        PROVE  Owed
    <3>1. first \in Run(first, size)
      BY <2>1, NumPagesAssumption DEF Run, Pages
    <3> QED
      BY <2>1, <2>2, <3>1, FinishKeeps DEF Owed, Statuses
  <2>3. CASE base = OutsideHeap
    BY <1>2, <1>4, <2>3 DEF AllocateVirtualMemory, Statuses
  <2>4. CASE base # OutsideHeap /\ base # 0
    <3>1. AllocateAt(base, size, type, slots) /\ base \in Pages
      BY <1>4, <2>4, NumPagesAssumption DEF AllocateVirtualMemory, Pages, OutsideHeap
    <3> QED
      BY <1>2, <2>2, <3>1 DEF AllocateAt, AllocFixedAccepts, Statuses
  <2>5. CASE base = 0
    <3>1. AllocateAnywhere(size, type, slots)
      BY <1>4, <2>5, NumPagesAssumption DEF AllocateVirtualMemory, OutsideHeap
    <3>2. ASSUME Returns("NO_MEMORY") PROVE Owed
      BY <1>2, <3>2 DEF Statuses
    <3>3. ASSUME NEW b \in Pages, Run(b, size) \subseteq {p \in Pages : state[p] = "free"},
                 FinishAllocation(Run(b, size), b, FALSE, type, slots)
          PROVE  Owed
      <4>1. b \in Run(b, size)
        BY <2>1, NumPagesAssumption DEF Run, Pages
      <4> QED
        BY <2>2, <3>3, <4>1
    <3> QED
      BY <3>1, <3>2, <3>3 DEF AllocateAnywhere
  <2> QED
    BY <2>3, <2>4, <2>5
<1> QED
  BY <1>3, <1>4

\* NtFreeVirtualMemory: a size word that cannot be written is found too late for
\* a status, not too early for the heap.
LEMMA FreeOwes ==
    ASSUME HeapInv, NEW address \in 0..OutsideHeap, NEW size \in 0..NumPages, NEW type \in FreeTypes,
           NEW baseSlot \in Slots, NEW sizeSlot \in Slots,
           FreeVirtualMemory(address, size, type, baseSlot, sizeSlot)
    PROVE  Owed
<1> DEFINE slots == {baseSlot, sizeSlot}
<1>1. ASSUME NEW s \in Statuses, Returns(s) PROVE Owed
  BY <1>1, ReturnsKeeps DEF Owed
<1>2. ASSUME WriteBack(slots), HeapInv' PROVE Owed
  BY <1>2 DEF WriteBack, Owed, Statuses, UniformCommit, NoCommit
<1>3. CASE address \in Pages /\ Release(address, slots)
  <2>1. CASE region[address] = address
    <3>1. WriteBack(slots) /\ dirty' = dirty
      BY <1>3, <2>1 DEF Release
    <3>2. /\ state' = [p \in Pages |-> IF region[p] = address THEN "free" ELSE state[p]]
          /\ region' = [p \in Pages |-> IF region[p] = address THEN 0 ELSE region[p]]
      BY <1>3, <2>1 DEF Release
    <3>3. state' \in [Pages -> PageStates] /\ region' \in [Pages -> 0..NumPages]
      BY <3>2, NumPagesAssumption DEF HeapInv, PageStates
    <3>4. \A p \in Pages : state'[p] = "free" <=> region'[p] = 0
      BY <3>2 DEF HeapInv
    <3>5. HeapInv'
      BY <3>1, <3>3, <3>4 DEF HeapInv
    <3> QED
      BY <1>2, <3>1, <3>5
  <2>2. CASE region[address] # address
    BY <1>1, <1>3, <2>2 DEF Release, Statuses
  <2> QED
    BY <2>1, <2>2
<1>4. CASE Decommit(address, size, slots)
  <2>1. CASE size # 0 /\ Run(address, size) \subseteq Pages
    <3>1. WriteBack(slots)
      BY <1>4, <2>1 DEF Decommit
    <3>2. HeapInv'
      BY <1>4, <2>1 DEF Decommit, HeapInv, PageStates
    <3> QED
      BY <1>2, <3>1, <3>2
  <2>2. CASE ~(size # 0 /\ Run(address, size) \subseteq Pages)
    BY <1>1, <1>4, <2>2 DEF Decommit, Statuses
  <2> QED
    BY <2>1, <2>2
<1>5. CASE \E s \in Statuses : Returns(s)
  BY <1>1, <1>5
<1>6. /\ {"INVALID_PARAMETER", "refused", "MEMORY_NOT_ALLOCATED"} \subseteq Statuses
      /\ address # 0 /\ address # OutsideHeap => address \in Pages
  BY NumPagesAssumption DEF Statuses, Pages, OutsideHeap
<1> QED
  BY <1>3, <1>4, <1>5, <1>6 DEF FreeVirtualMemory

\* Every step of the title or its kernel calls.
LEMMA StepOwes ==
    ASSUME HeapInv, Next
    PROVE  Owed
<1>1. \A slots \in SlotPairs : slots[1] \in Slots /\ slots[2] \in Slots
  BY DEF SlotPairs, Slots
<1>2. ASSUME NEW p \in Pages, GuestWrite(p)
      PROVE  Owed
  BY <1>2 DEF GuestWrite, Owed, HeapInv, Statuses, UniformCommit, NoCommit
<1> QED
  BY <1>1, <1>2, AllocateOwes, FreeOwes DEF Next, Allocates, Frees

-----------------------------------------------------------------------------
(* Theorems *)

\* The invariant holds in every state.
THEOREM VirtualMemoryInvariant == Spec => []VirtualMemoryInv
<1>1. Init => VirtualMemoryInv
  BY NumPagesAssumption DEF Init, VirtualMemoryInv, HeapInv, PageStates, Statuses, UniformCommit, NoCommit
<1>2. VirtualMemoryInv /\ [Next]_vars => VirtualMemoryInv'
  <2> SUFFICES ASSUME VirtualMemoryInv, [Next]_vars PROVE VirtualMemoryInv'
    OBVIOUS
  <2>1. CASE Next
    BY <2>1, StepOwes DEF VirtualMemoryInv, Owed
  <2>2. CASE UNCHANGED vars
    BY <2>2 DEF vars, heapVars, VirtualMemoryInv, HeapInv, UniformCommit
  <2> QED
    BY <2>1, <2>2
<1> QED
  BY <1>1, <1>2, PTL DEF Spec

\* A range committed whole or not at all is zeroed where it becomes committed
\* and kept where it was, in a heap of any size.
THEOREM UniformCommitsAreZeroed == Spec => []UniformCommit
<1>1. VirtualMemoryInv => UniformCommit
  BY DEF VirtualMemoryInv
<1> QED
  BY <1>1, VirtualMemoryInvariant, PTL

\* A call that answers with a failure status has not touched the heap.
THEOREM FailuresChangeNothing == Spec => FailedCallChangesNothing
<1>1. VirtualMemoryInv /\ [Next]_vars =>
          [status' \in Statuses \ {"none", "SUCCESS", "refused"} => UNCHANGED heapVars]_vars
  BY StepOwes DEF VirtualMemoryInv, Owed, vars
<1> QED
  BY <1>1, VirtualMemoryInvariant, PTL DEF Spec, FailedCallChangesNothing
=============================================================================
