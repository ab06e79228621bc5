----------------------------- MODULE TitleMemory -----------------------------
(***************************************************************************)
(* Who may touch which guest word through the runtime's memory interface:  *)
(* the allocations GuestMemory keeps for the title (src/guest_memory.cpp), *)
(* the mapped accesses of overrides, which need no allocation, those of    *)
(* import handlers through their call context (src/runtime_imports.cpp),   *)
(* and the device ranges the title registers (src/device_dispatch.cpp),    *)
(* which may cover part of an allocation and are never taken back.         *)
(*                                                                         *)
(* Addresses are words of a space that ends at the last heap page, as the  *)
(* 32-bit space does; word 0 is null.  Xenia's heaps are external: pages   *)
(* have a heap and a protection, each heap is one run of pages, and the    *)
(* system heap gives out whole pages.                                      *)
(***************************************************************************)
EXTENDS Naturals, FiniteSets

CONSTANTS
    NumPages,       \* pages of the address space
    PageWords,      \* words of a page, the host's and the guest's
    HeapOf,         \* page -> heap LookupHeap finds for it, 0 for none
    MaxSize,        \* bound: size of an access or a device range
    MaxAllocations, \* bound: system-heap blocks alive at once
    MaxDevices      \* bound: device ranges

Pages == 0..(NumPages - 1)

ASSUME TitleMemoryAssumption ==
    /\ NumPages \in Nat
    /\ PageWords \in Nat \ {0}
    /\ HeapOf \in [Pages -> Nat]
    /\ \A p, q \in Pages : HeapOf[p] = HeapOf[q] /\ HeapOf[p] # 0 =>
          \A r \in p..q : HeapOf[r] = HeapOf[p]
    /\ MaxSize \in Nat
    /\ MaxAllocations \in Nat
    /\ MaxDevices \in Nat

Limit == PageWords * NumPages
Addresses == 0..(Limit - 1)
Sizes == 0..MaxSize
Protections == {"none", "read", "write"}

VARIABLES
    bound,       \* memory_ is set
    allocations, \* allocations_: [address, size]
    blocks,      \* Xenia's system heap: [address, pages, owner]
    prot,        \* protection of each page
    devices,     \* registered device ranges: [address, size]
    copied       \* history: what the last memcpy touched

vars == <<bound, allocations, blocks, prot, devices, copied>>

Accesses == {"ownedRead", "ownedWrite", "mappedRead", "mappedWrite", "importRead", "importWrite"}
Nothing == [access |-> "none", words |-> {}]

\* Words, possibly past the end of the space.
Run(address, size) == address..(address + size - 1)
PageOf(word) == word \div PageWords
PagesOf(block) == Run(PageOf(block.address), block.pages)
Overlap(range, words) == Run(range.address, range.size) \cap words # {}

-----------------------------------------------------------------------------
(* External: Xenia's system heap, and what the guest does to its pages *)

FreeRun(address, size) ==
    /\ address % PageWords = 0
    /\ \A w \in Run(address, size) :
          w \in Addresses /\ HeapOf[PageOf(w)] = 1 /\ \A b \in blocks : PageOf(w) \notin PagesOf(b)

PagesFor(size) == (size + PageWords - 1) \div PageWords

SystemHeapAlloc(address, size, owner) ==
    LET block == [address |-> address, pages |-> PagesFor(size), owner |-> owner] IN
    /\ address # 0 /\ size # 0
    /\ FreeRun(address, size)
    /\ blocks' = blocks \cup {block}
    /\ prot' = [p \in Pages |-> IF p \in PagesOf(block) THEN "write" ELSE prot[p]]

SystemHeapFree(addresses) ==
    LET freed == {b \in blocks : b.address \in addresses} IN
    /\ blocks' = blocks \ freed
    /\ prot' = [p \in Pages |-> IF \E b \in freed : p \in PagesOf(b) THEN "none" ELSE prot[p]]

XeniaAllocates(address, size) ==
    /\ bound
    /\ Cardinality(blocks) < MaxAllocations
    /\ SystemHeapAlloc(address, size, "xenia")
    /\ copied' = Nothing
    /\ UNCHANGED <<bound, allocations, devices>>

XeniaFrees ==
    \E b \in blocks :
        /\ b.owner = "xenia"
        /\ SystemHeapFree({b.address})
        /\ copied' = Nothing
        /\ UNCHANGED <<bound, allocations, devices>>

GuestProtects(page, p) ==
    /\ bound
    /\ prot' = [prot EXCEPT ![page] = p]
    /\ copied' = Nothing
    /\ UNCHANGED <<bound, allocations, blocks, devices>>

-----------------------------------------------------------------------------
(* Allocations *)

\* A new runtime has a Xenia memory of its own, with nothing in it.
Initialize ==
    /\ ~bound
    /\ bound' = TRUE
    /\ blocks' = {}
    /\ prot' = [p \in Pages |-> "none"]
    /\ devices' = {}
    /\ copied' = Nothing
    /\ UNCHANGED allocations

MutantReset ==
    /\ bound
    /\ bound' = FALSE
    /\ allocations' = {}
    /\ copied' = Nothing
    /\ UNCHANGED <<blocks, prot, devices>>

\* Reset frees every allocation the title still has.
Reset ==
    /\ bound
    /\ bound' = FALSE
    /\ allocations' = {}
    /\ SystemHeapFree({a.address : a \in allocations})
    /\ copied' = Nothing
    /\ UNCHANGED devices

\* Whether the heap has no room or chooses an address tracked already, nothing
\* is tracked.  The heap gives out a tracked address only once the guest has freed
\* it behind the runtime's back, which this model leaves out.
Allocate(address, size) ==
    /\ bound
    /\ size # 0
    /\ Cardinality(blocks) < MaxAllocations
    /\ SystemHeapAlloc(address, size, "title")
    /\ allocations' =
          IF \E a \in allocations : a.address = address THEN allocations
          ELSE allocations \cup {[address |-> address, size |-> size]}
    /\ copied' = Nothing
    /\ UNCHANGED <<bound, devices>>

\* Release takes the whole allocation back; anything else is refused.
Release(a) ==
    /\ bound
    /\ a \in allocations
    /\ SystemHeapFree({a.address})
    /\ allocations' = allocations \ {a}
    /\ copied' = Nothing
    /\ UNCHANGED <<bound, devices>>

-----------------------------------------------------------------------------
(* Accesses *)

\* upper_bound: the last allocation that starts at the address or before it.
Preceding(address) ==
    {a \in allocations :
        /\ a.address <= address
        /\ \A b \in allocations : b.address <= address => b.address <= a.address}

MutantContains(address, size) ==
    /\ size # 0
    /\ \E a \in Preceding(address) : address < a.address + a.size

\* Ends are computed in 64 bits.
Contains(address, size) ==
    /\ size # 0
    /\ \E a \in Preceding(address) : address + size <= a.address + a.size

\* Neither the protection of the pages nor a device range over them is asked.
OwnedAccess(access, address, size) ==
    /\ access \in {"ownedRead", "ownedWrite"}
    /\ bound
    /\ Contains(address, size)
    /\ copied' = [access |-> access, words |-> Run(address, size)]
    /\ UNCHANGED <<bound, allocations, blocks, prot, devices>>

MutantLastAddress(address, size) == address

\* The last address of an access, computed in 64 bits.
LastAddress(address, size) == address + size - 1

\* QueryRangeAccess on the heap both ends are in: every page permits the access.
HeapPermits(address, last, write) ==
    /\ HeapOf[PageOf(address)] # 0
    /\ HeapOf[PageOf(address)] = HeapOf[PageOf(last)]
    /\ \A p \in PageOf(address)..PageOf(last) :
          prot[p] \in IF write THEN {"write"} ELSE {"read", "write"}

\* Both ends in one heap, every page accessible, and no device mapping.
CanAccess(address, size, write) ==
    LET last == LastAddress(address, size) IN
    /\ bound
    /\ size # 0
    /\ last \in Addresses
    /\ HeapPermits(address, last, write)
    /\ \A d \in devices : ~Overlap(d, address..last)

MappedAccess(access, address, size) ==
    /\ access \in {"mappedRead", "mappedWrite"}
    /\ CanAccess(address, size, access = "mappedWrite")
    /\ copied' = [access |-> access, words |-> Run(address, size)]
    /\ UNCHANGED <<bound, allocations, blocks, prot, devices>>

\* An import context computes in 32 bits, after asking whether the end fits.  It
\* accepts an access of no words, and asks for no device mapping.
IsAccessible(address, size, write) ==
    /\ bound
    /\ size # 0 =>
          /\ address <= (Limit - 1) - (size - 1)
          /\ HeapPermits(address, address + size - 1, write)

ImportAccess(access, address, size) ==
    /\ access \in {"importRead", "importWrite"}
    /\ IsAccessible(address, size, access = "importWrite")
    /\ copied' = IF size = 0 THEN Nothing ELSE [access |-> access, words |-> Run(address, size)]
    /\ UNCHANGED <<bound, allocations, blocks, prot, devices>>

-----------------------------------------------------------------------------
(* Devices *)

\* Whole host pages.  The mask and the callbacks, more reasons for refusal, are
\* left out.
DeviceRangeValid(address, size) ==
    /\ size # 0
    /\ address % PageWords = 0
    /\ size % PageWords = 0

\* AddVirtualMappedRange refuses a second range over the same words.
Register(address, size) ==
    /\ bound
    /\ Cardinality(devices) < MaxDevices
    /\ DeviceRangeValid(address, size)
    /\ \A d \in devices : ~Overlap(d, Run(address, size))
    /\ devices' = devices \cup {[address |-> address, size |-> size]}
    /\ copied' = Nothing
    /\ UNCHANGED <<bound, allocations, blocks, prot>>

-----------------------------------------------------------------------------

Init ==
    /\ bound = FALSE
    /\ allocations = {}
    /\ blocks = {}
    /\ prot = [p \in Pages |-> "none"]
    /\ devices = {}
    /\ copied = Nothing

Next ==
    \/ Initialize
    \/ Reset
    \/ \E address \in Addresses, size \in Sizes :
          \/ XeniaAllocates(address, size)
          \/ Allocate(address, size)
          \/ Register(address, size)
          \/ \E access \in Accesses :
                \/ OwnedAccess(access, address, size)
                \/ MappedAccess(access, address, size)
                \/ ImportAccess(access, address, size)
    \/ XeniaFrees
    \/ \E page \in Pages, p \in Protections : GuestProtects(page, p)
    \/ \E a \in allocations : Release(a)

Spec == Init /\ [][Next]_vars

-----------------------------------------------------------------------------
(* Properties *)

\* GuestMemory keeps the books of Xenia's system heap: the blocks it has for the
\* title are those of the tracked allocations, large enough for them, so that no
\* block is leaked by a refused or repeated call, nor by the runtime's end.
BlocksAreTracked ==
    /\ {b.address : b \in {c \in blocks : c.owner = "title"}} = {a.address : a \in allocations}
    /\ \A a \in allocations : \E b \in blocks :
          b.address = a.address /\ b.pages * PageWords >= a.size

\* "title setup cannot write outside a live allocation": a checked access touches
\* words of the title's blocks only, and of one of them, at every boundary.
OwnedAccessesStayOwned ==
    copied.access \in {"ownedRead", "ownedWrite"} =>
        \E b \in blocks : b.owner = "title" /\ {PageOf(w) : w \in copied.words} \subseteq PagesOf(b)

\* A mapped access, and one of an import handler, stays in the address space and
\* in one heap; the former never copies from or to a device range behind its
\* callbacks.
MappedAccessesAreChecked ==
    /\ copied.access \in Accesses \ {"ownedRead", "ownedWrite"} =>
          /\ copied.words \subseteq Addresses
          /\ Cardinality({HeapOf[PageOf(w)] : w \in copied.words}) = 1
    /\ copied.access \in {"mappedRead", "mappedWrite"} =>
          \A d \in devices : ~Overlap(d, copied.words)
=============================================================================
