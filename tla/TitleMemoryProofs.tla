-------------------------- MODULE TitleMemoryProofs --------------------------
(***************************************************************************)
(* The books of GuestMemory and the checks of every access, for any        *)
(* address space whose heaps are runs of pages, any page size and any      *)
(* number of allocations and device ranges.                                *)
(***************************************************************************)
EXTENDS TitleMemory, FiniteSetTheorems, TLAPS

-----------------------------------------------------------------------------
(* Words and pages *)

\* A word lies in its page.
LEMMA WordInPage ==
    ASSUME NEW w \in Nat
    PROVE  /\ PageOf(w) \in Nat
           /\ PageOf(w) * PageWords <= w
           /\ w < PageOf(w) * PageWords + PageWords
BY TitleMemoryAssumption DEF PageOf

\* The page of a word is the only one it lies in.
LEMMA PageOfWord ==
    ASSUME NEW w \in Nat, NEW p \in Nat, p * PageWords <= w, w < (p + 1) * PageWords
    PROVE  PageOf(w) = p
BY TitleMemoryAssumption DEF PageOf

\* Pages are in the order of their words.
LEMMA PagesAscend ==
    ASSUME NEW v \in Nat, NEW w \in Nat, v <= w
    PROVE  PageOf(v) <= PageOf(w)
BY TitleMemoryAssumption DEF PageOf

\* The address space ends with the last page.
LEMMA AddressesHavePages ==
    ASSUME NEW w \in Addresses
    PROVE  w \in Nat /\ PageOf(w) \in Pages
<1>1. w \in Nat /\ w < NumPages * PageWords
  BY TitleMemoryAssumption DEF Addresses, Limit
<1>2. PageOf(w) \in Nat /\ PageOf(w) * PageWords <= w
  BY <1>1, WordInPage
<1>3. PageOf(w) < NumPages
  <2>1. PageOf(w) \in Nat /\ PageOf(w) * PageWords < NumPages * PageWords
    BY <1>1, <1>2, TitleMemoryAssumption
  <2> QED
    BY <2>1, TitleMemoryAssumption
<1> QED
  BY <1>1, <1>2, <1>3, TitleMemoryAssumption DEF Pages

\* The pages the heap hands out for a size hold it.
LEMMA PagesHold ==
    ASSUME NEW size \in Nat \ {0}
    PROVE  PagesFor(size) \in Nat \ {0} /\ PagesFor(size) * PageWords >= size
BY TitleMemoryAssumption DEF PagesFor

\* Products, in the form the steps below need them.
LEMMA Distributes ==
    ASSUME NEW x \in Nat, NEW y \in Nat
    PROVE  /\ x * PageWords \in Nat
           /\ (x + y) * PageWords = x * PageWords + y * PageWords
           /\ (x + y) * PageWords >= x * PageWords
           /\ (x + y) * PageWords \in Nat
BY TitleMemoryAssumption

-----------------------------------------------------------------------------
(* The inductive invariant *)

Blocks == [address : Addresses, pages : Nat \ {0}, owner : {"title", "xenia"}]
Ranges == [address : Addresses, size : Nat \ {0}]

TitleTypes ==
    /\ bound \in BOOLEAN
    /\ allocations \subseteq Ranges
    /\ blocks \subseteq Blocks
    /\ prot \in [Pages -> Protections]
    /\ devices \subseteq Ranges

\* The heap gives out whole pages, none of them twice.
HeapInv ==
    /\ \A b \in blocks : b.address % PageWords = 0 /\ PagesOf(b) \subseteq Pages
    /\ \A b, c \in blocks : PagesOf(b) \cap PagesOf(c) # {} => b = c

\* Without a runtime nothing of the title is left, and with one each allocation
\* is one block of its own.
BooksInv ==
    /\ ~bound => allocations = {}
    /\ \A a, b \in allocations : a.address = b.address => a = b
    /\ BlocksAreTracked

TitleInv ==
    /\ TitleTypes
    /\ HeapInv
    /\ BooksInv
    /\ OwnedAccessesStayOwned
    /\ MappedAccessesAreChecked

-----------------------------------------------------------------------------
(* Blocks *)

\* An aligned block has the page of each of its words.
LEMMA BlockPages ==
    ASSUME NEW b \in Blocks, b.address % PageWords = 0,
           NEW w \in Nat, b.address <= w, w < b.address + b.pages * PageWords
    PROVE  PageOf(w) \in PagesOf(b)
<1> DEFINE first == PageOf(b.address)
           q == PageOf(w)
<1>1. b.address \in Nat /\ b.pages \in Nat
  BY TitleMemoryAssumption DEF Blocks, Addresses, Limit
<1>2. first \in Nat /\ q \in Nat /\ first <= q
  BY <1>1, WordInPage, PagesAscend
<1>3. b.address = first * PageWords
  BY <1>1, TitleMemoryAssumption DEF PageOf
<1>4. q * PageWords <= w
  BY WordInPage
<1>5. q * PageWords < (first + b.pages) * PageWords
  BY <1>1, <1>2, <1>3, <1>4, TitleMemoryAssumption
<1>6. q < first + b.pages
  <2>1. SUFFICES ASSUME q >= first + b.pages PROVE FALSE
    BY <1>1, <1>2
  <2> DEFINE k == q - (first + b.pages)
  <2>2. k \in Nat /\ q = first + b.pages + k
    BY <1>1, <1>2, <2>1
  <2> HIDE DEF k
  <2>3. first + b.pages \in Nat
    BY <1>1, <1>2
  <2>4. (first + b.pages + k) * PageWords >= (first + b.pages) * PageWords
    BY <2>2, <2>3, Distributes
  <2>5. q * PageWords \in Nat /\ (first + b.pages) * PageWords \in Nat
    BY <1>2, <2>3, Distributes
  <2> QED
    BY <1>5, <2>2, <2>4, <2>5
<1> QED
  BY <1>1, <1>2, <1>6 DEF PagesOf, Run

\* A block has its first page.
LEMMA FirstPage ==
    ASSUME NEW b \in Blocks
    PROVE  PageOf(b.address) \in PagesOf(b)
<1>1. b.address \in Nat /\ b.pages \in Nat \ {0}
  BY TitleMemoryAssumption DEF Blocks, Addresses, Limit
<1> QED
  BY <1>1, WordInPage DEF PagesOf, Run

\* Hence blocks that share no page have addresses of their own.
LEMMA OneBlockAtAnAddress ==
    ASSUME blocks \subseteq Blocks, HeapInv,
           NEW b \in blocks, NEW c \in blocks, b.address = c.address
    PROVE  b = c
BY FirstPage DEF HeapInv

\* Each page of a new block is the page of a word that the heap found free.
LEMMA PageOfARun ==
    ASSUME NEW address \in Nat, NEW size \in Nat \ {0}, address % PageWords = 0,
           NEW p \in Run(PageOf(address), PagesFor(size))
    PROVE  \E w \in Run(address, size) : PageOf(w) = p
<1> DEFINE first == PageOf(address)
           w == p * PageWords
<1>1. first \in Nat /\ PagesFor(size) \in Nat \ {0}
  BY WordInPage, PagesHold
<1>2. address = first * PageWords
  BY TitleMemoryAssumption DEF PageOf
<1>3. p \in Nat /\ first <= p /\ p <= first + PagesFor(size) - 1
  BY <1>1 DEF Run
<1> DEFINE i == p - first
           j == PagesFor(size) - 1 - i
<1>4. i \in Nat /\ p = first + i /\ i <= PagesFor(size) - 1
  BY <1>1, <1>3
<1>5. (PagesFor(size) - 1) * PageWords < size
  BY TitleMemoryAssumption DEF PagesFor
<1>6. j \in Nat /\ PagesFor(size) - 1 = i + j
  BY <1>1, <1>4
<1> HIDE DEF i, j
<1>7. (i + j) * PageWords >= i * PageWords /\ i * PageWords \in Nat /\ (i + j) * PageWords \in Nat
  BY <1>4, <1>6, Distributes
<1>8. i * PageWords < size
  BY <1>5, <1>6, <1>7
<1>9. w = address + i * PageWords
  BY <1>1, <1>2, <1>4, Distributes
<1> HIDE DEF w
<1>10. w \in Run(address, size)
  BY <1>7, <1>8, <1>9 DEF Run
<1>11. PageOf(w) = p
  <2>1. w \in Nat /\ p * PageWords <= w /\ w < (p + 1) * PageWords
    BY <1>3, TitleMemoryAssumption DEF w
  <2> QED
    BY <1>3, <2>1, PageOfWord
<1> QED
  BY <1>10, <1>11

-----------------------------------------------------------------------------
(* The heap's steps *)

\* What an allocation adds is a block, of pages no other block has, that holds
\* the size it was asked for.
LEMMA AllocKeepsHeap ==
    ASSUME TitleTypes, HeapInv, NEW address \in Addresses, NEW size \in Nat, NEW owner \in {"title", "xenia"},
           SystemHeapAlloc(address, size, owner)
    PROVE  LET block == [address |-> address, pages |-> PagesFor(size), owner |-> owner]
           IN  /\ blocks' = blocks \cup {block} /\ block \in Blocks
               /\ block.pages * PageWords >= size
               /\ \A b \in blocks : b.address # address
               /\ prot' \in [Pages -> Protections]
               /\ HeapInv'
<1> DEFINE block == [address |-> address, pages |-> PagesFor(size), owner |-> owner]
<1>1. /\ size \in Nat \ {0} /\ FreeRun(address, size) /\ blocks' = blocks \cup {block}
      /\ prot' = [p \in Pages |-> IF p \in PagesOf(block) THEN "write" ELSE prot[p]]
  BY DEF SystemHeapAlloc
<1>2. address \in Nat /\ address % PageWords = 0
  BY <1>1, TitleMemoryAssumption DEF FreeRun, Addresses, Limit
<1>3. block \in Blocks /\ block.pages * PageWords >= size
  BY <1>1, PagesHold DEF Blocks
<1>4. prot' \in [Pages -> Protections]
  BY <1>1 DEF TitleTypes, Protections
<1>5. PagesOf(block) = Run(PageOf(address), PagesFor(size))
  BY DEF PagesOf
<1>6. ASSUME NEW p \in PagesOf(block) PROVE p \in Pages /\ \A b \in blocks : p \notin PagesOf(b)
  <2>1. PICK w \in Run(address, size) : PageOf(w) = p
    BY <1>1, <1>2, <1>5, <1>6, PageOfARun
  <2>2. w \in Addresses /\ \A b \in blocks : p \notin PagesOf(b)
    BY <1>1, <2>1 DEF FreeRun
  <2>3. p \in Pages
    BY <2>1, <2>2, AddressesHavePages
  <2> QED
    BY <2>2, <2>3
<1>7. \A b \in blocks : b.address # address
  <2>1. ASSUME NEW b \in blocks, b.address = address PROVE FALSE
    <3>1. b \in Blocks /\ PageOf(b.address) \in PagesOf(b)
      BY FirstPage DEF TitleTypes
    <3>2. PageOf(address) \in PagesOf(block)
      BY <1>3, FirstPage
    <3> QED
      BY <1>6, <2>1, <3>1, <3>2
  <2> QED
    BY <2>1
<1>8. HeapInv'
  <2>1. ASSUME NEW b \in blocks' PROVE b.address % PageWords = 0 /\ PagesOf(b) \subseteq Pages
    BY <1>1, <1>2, <1>6, <2>1 DEF HeapInv
  <2>2. ASSUME NEW b \in blocks', NEW c \in blocks', PagesOf(b) \cap PagesOf(c) # {} PROVE b = c
    BY <1>1, <1>6, <2>2 DEF HeapInv
  <2> QED
    BY <2>1, <2>2 DEF HeapInv, PagesOf, Run, PageOf
<1> QED
  BY <1>1, <1>3, <1>4, <1>7, <1>8

\* Giving blocks back leaves the others as they are.
LEMMA FreeKeepsHeap ==
    ASSUME TitleTypes, HeapInv, NEW addresses, SystemHeapFree(addresses)
    PROVE  /\ blocks' = {b \in blocks : b.address \notin addresses}
           /\ prot' \in [Pages -> Protections]
           /\ HeapInv'
<1>1. blocks' = {b \in blocks : b.address \notin addresses}
  BY DEF SystemHeapFree
<1>2. prot' \in [Pages -> Protections]
  BY DEF SystemHeapFree, TitleTypes, Protections
<1>3. HeapInv'
  BY <1>1 DEF HeapInv, PagesOf, Run, PageOf
<1> QED
  BY <1>1, <1>2, <1>3

-----------------------------------------------------------------------------
(* The books *)

\* A tracked allocation lies in one block of the title.
LEMMA TitleBlock ==
    ASSUME TitleTypes, HeapInv, BooksInv, NEW a \in allocations
    PROVE  \E b \in blocks : b.owner = "title" /\ b.address = a.address /\ b.pages * PageWords >= a.size
<1>1. PICK b \in blocks : b.address = a.address /\ b.pages * PageWords >= a.size
  BY DEF BooksInv, BlocksAreTracked
<1>2. PICK c \in blocks : c.owner = "title" /\ c.address = a.address
  BY DEF BooksInv, BlocksAreTracked
<1>3. b = c
  BY <1>1, <1>2, OneBlockAtAnAddress DEF TitleTypes
<1> QED
  BY <1>1, <1>2, <1>3

\* The books hold after a step that leaves the blocks of the title alone.
LEMMA SameBooks ==
    ASSUME TitleTypes, HeapInv, BooksInv, HeapInv', blocks' \subseteq Blocks,
           allocations' = allocations, bound => bound',
           \A b \in blocks : b.owner = "title" => b \in blocks',
           \A b \in blocks' : b.owner = "title" => b \in blocks
    PROVE  BooksInv'
<1>1. {b.address : b \in {c \in blocks' : c.owner = "title"}} = {b.address : b \in {c \in blocks : c.owner = "title"}}
  OBVIOUS
<1>2. ASSUME NEW a \in allocations
      PROVE  \E b \in blocks' : b.address = a.address /\ b.pages * PageWords >= a.size
  BY TitleBlock
<1>3. (~bound => allocations = {})'
  BY DEF BooksInv
<1> QED
  BY <1>1, <1>2, <1>3 DEF BooksInv, BlocksAreTracked

\* Allocate tracks what the heap has handed out.
LEMMA AllocateKeepsBooks ==
    ASSUME TitleInv, NEW address \in Addresses, NEW size \in Nat, Allocate(address, size)
    PROVE  TitleTypes' /\ HeapInv' /\ BooksInv'
<1> DEFINE block == [address |-> address, pages |-> PagesFor(size), owner |-> "title"]
           new == [address |-> address, size |-> size]
<1> USE DEF TitleInv
<1>1. /\ bound /\ bound' /\ size \in Nat \ {0} /\ SystemHeapAlloc(address, size, "title") /\ devices' = devices
  BY DEF Allocate, TitleTypes
<1>2. /\ blocks' = blocks \cup {block} /\ block \in Blocks
      /\ block.pages * PageWords >= size
      /\ \A b \in blocks : b.address # address
      /\ prot' \in [Pages -> Protections]
      /\ HeapInv'
  BY <1>1, AllocKeepsHeap
<1>3. \A a \in allocations : a.address # address
  BY <1>2 DEF BooksInv, BlocksAreTracked
<1>4. allocations' = allocations \cup {new}
  BY <1>3 DEF Allocate
<1>5. TitleTypes'
  BY <1>1, <1>2, <1>4 DEF TitleTypes, Ranges, Protections
<1>6. BooksInv'
  <2>1. {b.address : b \in {c \in blocks' : c.owner = "title"}} = {a.address : a \in allocations'}
    <3>1. {b.address : b \in {c \in blocks' : c.owner = "title"}}
          = {b.address : b \in {c \in blocks : c.owner = "title"}} \cup {address}
      BY <1>2
    <3>2. {a.address : a \in allocations'} = {a.address : a \in allocations} \cup {address}
      <4>1. new.address = address
        OBVIOUS
      <4> HIDE DEF new
      <4> QED
        BY <1>4, <4>1
    <3> QED
      BY <3>1, <3>2 DEF BooksInv, BlocksAreTracked
  <2>2. \A a \in allocations' : \E b \in blocks' : b.address = a.address /\ b.pages * PageWords >= a.size
    BY <1>2, <1>4 DEF BooksInv, BlocksAreTracked
  <2>3. \A a, b \in allocations' : a.address = b.address => a = b
    BY <1>3, <1>4 DEF BooksInv
  <2> QED
    BY <1>1, <2>1, <2>2, <2>3 DEF BooksInv, BlocksAreTracked
<1> QED
  BY <1>2, <1>5, <1>6

\* Release and the end of the runtime untrack exactly what they give back.
LEMMA FreeKeepsBooks ==
    ASSUME TitleInv, NEW S, S \subseteq allocations, bound' \in BOOLEAN,
           bound' \/ S = allocations,
           allocations' = allocations \ S, SystemHeapFree({a.address : a \in S}), devices' = devices
    PROVE  TitleTypes' /\ HeapInv' /\ BooksInv'
<1> USE DEF TitleInv
<1> DEFINE freed == {a.address : a \in S}
<1>1. /\ blocks' = {b \in blocks : b.address \notin freed}
      /\ prot' \in [Pages -> Protections]
      /\ HeapInv'
  BY FreeKeepsHeap
<1>2. TitleTypes'
  BY <1>1 DEF TitleTypes, Protections
<1>3. \A a \in allocations : a.address \in freed <=> a \in S
  BY DEF BooksInv
<1>4. {a.address : a \in allocations'} = {a.address : a \in allocations} \ freed
  BY <1>3
<1>5. {b.address : b \in {c \in blocks' : c.owner = "title"}}
      = {b.address : b \in {c \in blocks : c.owner = "title"}} \ freed
  BY <1>1
<1>6. ASSUME NEW a \in allocations'
      PROVE  \E b \in blocks' : b.address = a.address /\ b.pages * PageWords >= a.size
  <2>1. PICK b \in blocks : b.address = a.address /\ b.pages * PageWords >= a.size
    BY DEF BooksInv, BlocksAreTracked
  <2>2. b \in blocks'
    BY <1>1, <1>3, <2>1
  <2> QED
    BY <2>1, <2>2
<1>7. BooksInv'
  BY <1>4, <1>5, <1>6 DEF BooksInv, BlocksAreTracked
<1> QED
  BY <1>1, <1>2, <1>7

-----------------------------------------------------------------------------
(* The accesses *)

\* An access that Contains has let through stays in the block of the allocation
\* it found.
LEMMA OwnedAccessIsOwned ==
    ASSUME TitleInv, NEW access, NEW address \in Addresses, NEW size \in Nat,
           OwnedAccess(access, address, size)
    PROVE  OwnedAccessesStayOwned'
<1> USE DEF TitleInv
<1>1. /\ copied' = [access |-> access, words |-> Run(address, size)]
      /\ blocks' = blocks /\ Contains(address, size)
  BY DEF OwnedAccess
<1>2. PICK a \in allocations : a.address <= address /\ address + size <= a.address + a.size
  BY <1>1 DEF Contains, Preceding
<1>3. PICK b \in blocks : b.owner = "title" /\ b.address = a.address /\ b.pages * PageWords >= a.size
  BY TitleBlock
<1>4. b \in Blocks /\ b.address % PageWords = 0 /\ b.address \in Nat /\ b.pages * PageWords \in Nat /\ a.size \in Nat
  BY TitleMemoryAssumption DEF TitleTypes, HeapInv, Blocks, Ranges, Addresses, Limit
<1>5. ASSUME NEW w \in Run(address, size)
      PROVE  PageOf(w) \in PagesOf(b)
  <2>1. w \in Nat /\ b.address <= w /\ w < b.address + b.pages * PageWords
    BY <1>2, <1>3, <1>4, AddressesHavePages DEF Run
  <2> QED
    BY <1>4, <2>1, BlockPages
<1>6. {PageOf(w) : w \in copied'.words} \subseteq PagesOf(b)
  BY <1>1, <1>5
<1> QED
  BY <1>1, <1>3, <1>6 DEF OwnedAccessesStayOwned, PagesOf, Run, PageOf

\* Words of which the first and the last are in one heap are all in it.
LEMMA OneHeap ==
    ASSUME NEW address \in Addresses, NEW last \in Addresses, address <= last,
           HeapOf[PageOf(address)] # 0, HeapOf[PageOf(address)] = HeapOf[PageOf(last)]
    PROVE  /\ address..last \subseteq Addresses
           /\ Cardinality({HeapOf[PageOf(w)] : w \in address..last}) = 1
<1>1. address \in Nat /\ last \in Nat /\ PageOf(address) \in Pages /\ PageOf(last) \in Pages
  BY AddressesHavePages
<1>2. address..last \subseteq Addresses
  BY <1>1, TitleMemoryAssumption DEF Addresses, Limit
<1>3. ASSUME NEW w \in address..last PROVE HeapOf[PageOf(w)] = HeapOf[PageOf(address)]
  <2>1. w \in Nat /\ address <= w /\ w <= last /\ PageOf(w) \in Nat
    BY <1>1, WordInPage
  <2>2. PageOf(w) \in PageOf(address)..PageOf(last)
    BY <1>1, <2>1, PagesAscend, WordInPage
  <2> QED
    BY <1>1, <2>2, TitleMemoryAssumption
<1>4. {HeapOf[PageOf(w)] : w \in address..last} = {HeapOf[PageOf(address)]}
  BY <1>1, <1>3
<1> QED
  BY <1>2, <1>4, FS_Singleton

\* What CanAccess lets through is in one heap and off the devices.
LEMMA MappedAccessIsChecked ==
    ASSUME NEW access, NEW address \in Addresses, NEW size \in Nat,
           MappedAccess(access, address, size)
    PROVE  MappedAccessesAreChecked'
<1> DEFINE last == LastAddress(address, size)
<1>1. /\ copied' = [access |-> access, words |-> Run(address, size)] /\ devices' = devices
      /\ size # 0 /\ last \in Addresses /\ HeapPermits(address, last, access = "mappedWrite")
      /\ \A d \in devices : ~Overlap(d, address..last)
  BY DEF MappedAccess, CanAccess
<1>2. address \in Nat /\ Run(address, size) = address..last /\ address <= last
  BY <1>1, AddressesHavePages DEF Run, LastAddress
<1>3. address..last \subseteq Addresses /\ Cardinality({HeapOf[PageOf(w)] : w \in address..last}) = 1
  BY <1>1, <1>2, OneHeap DEF HeapPermits
<1> HIDE DEF last
<1> QED
  BY <1>1, <1>2, <1>3 DEF MappedAccessesAreChecked, PageOf, Overlap, Run

\* The 32-bit test of an import context lets no end wrap.
LEMMA ImportAccessIsChecked ==
    ASSUME NEW access, NEW address \in Addresses, NEW size \in Nat,
           ImportAccess(access, address, size)
    PROVE  MappedAccessesAreChecked'
<1> DEFINE last == address + size - 1
<1>1. CASE size = 0
  BY <1>1 DEF ImportAccess, MappedAccessesAreChecked, Nothing, Accesses
<1>2. CASE size # 0
  <2>1. /\ copied' = [access |-> access, words |-> Run(address, size)]
        /\ access \in {"importRead", "importWrite"}
        /\ address <= (Limit - 1) - (size - 1) /\ HeapPermits(address, last, access = "importWrite")
    BY <1>2 DEF ImportAccess, IsAccessible
  <2>2. address \in Nat /\ Run(address, size) = address..last /\ address <= last /\ last \in Addresses
    BY <1>2, <2>1, AddressesHavePages, TitleMemoryAssumption DEF Run, Addresses, Limit
  <2>3. address..last \subseteq Addresses /\ Cardinality({HeapOf[PageOf(w)] : w \in address..last}) = 1
    BY <2>1, <2>2, OneHeap DEF HeapPermits
  <2> HIDE DEF last
  <2> QED
    BY <2>1, <2>2, <2>3 DEF MappedAccessesAreChecked, PageOf
<1> QED
  BY <1>1, <1>2

-----------------------------------------------------------------------------
(* The invariant *)

\* A step that touches no word keeps what is said of accesses.
LEMMA NothingCopied ==
    ASSUME copied' = Nothing
    PROVE  OwnedAccessesStayOwned' /\ MappedAccessesAreChecked'
BY DEF Nothing, OwnedAccessesStayOwned, MappedAccessesAreChecked, Accesses

\* A step of the heap or the devices that leaves the books alone.
LEMMA OtherStep ==
    ASSUME TitleInv, [Next]_vars,
           ~Reset, ~\E address \in Addresses, size \in Sizes : Allocate(address, size),
           ~\E a \in allocations : Release(a)
    PROVE  TitleTypes' /\ HeapInv' /\ BooksInv'
<1> USE DEF TitleInv
<1>1. CASE Initialize
  <2>1. allocations = {} /\ allocations' = {} /\ blocks' = {} /\ devices' = {} /\ bound' = TRUE
    BY <1>1 DEF Initialize, BooksInv
  <2>2. prot' \in [Pages -> Protections]
    BY <1>1 DEF Initialize, Protections
  <2> QED
    BY <2>1, <2>2 DEF TitleTypes, HeapInv, BooksInv, BlocksAreTracked
<1>2. ASSUME NEW address \in Addresses, NEW size \in Sizes, XeniaAllocates(address, size)
      PROVE  TitleTypes' /\ HeapInv' /\ BooksInv'
  <2> DEFINE block == [address |-> address, pages |-> PagesFor(size), owner |-> "xenia"]
  <2>1. size \in Nat /\ SystemHeapAlloc(address, size, "xenia") /\ UNCHANGED <<bound, allocations, devices>>
    BY <1>2, TitleMemoryAssumption DEF XeniaAllocates, Sizes
  <2>2. blocks' = blocks \cup {block} /\ block \in Blocks /\ prot' \in [Pages -> Protections] /\ HeapInv'
    BY <2>1, AllocKeepsHeap
  <2>3. TitleTypes'
    BY <2>1, <2>2 DEF TitleTypes, Protections
  <2>4. block.owner # "title"
    OBVIOUS
  <2> HIDE DEF block
  <2>5. BooksInv'
    BY <2>1, <2>2, <2>3, <2>4, SameBooks DEF TitleTypes
  <2> QED
    BY <2>2, <2>3, <2>5
<1>3. CASE XeniaFrees
  <2>1. PICK b \in blocks : b.owner = "xenia" /\ SystemHeapFree({b.address}) /\ UNCHANGED <<bound, allocations, devices>>
    BY <1>3 DEF XeniaFrees
  <2>2. blocks' = {c \in blocks : c.address \notin {b.address}} /\ prot' \in [Pages -> Protections] /\ HeapInv'
    BY <2>1, FreeKeepsHeap
  <2>3. TitleTypes'
    BY <2>1, <2>2 DEF TitleTypes, Protections
  <2>4. \A c \in blocks : c.owner = "title" => c \in blocks'
    BY <2>1, <2>2, OneBlockAtAnAddress DEF TitleTypes
  <2>5. BooksInv'
    BY <2>1, <2>2, <2>3, <2>4, SameBooks DEF TitleTypes
  <2> QED
    BY <2>2, <2>3, <2>5
<1>4. ASSUME NEW page \in Pages, NEW p \in Protections, GuestProtects(page, p)
      PROVE  TitleTypes' /\ HeapInv' /\ BooksInv'
  BY <1>4 DEF GuestProtects, TitleTypes, HeapInv, BooksInv, BlocksAreTracked, PagesOf, Run, PageOf, Protections
<1>5. ASSUME NEW address \in Addresses, NEW size \in Sizes, Register(address, size)
      PROVE  TitleTypes' /\ HeapInv' /\ BooksInv'
  <2>1. size \in Nat \ {0} /\ devices' = devices \cup {[address |-> address, size |-> size]}
    BY <1>5, TitleMemoryAssumption DEF Register, DeviceRangeValid, Sizes
  <2>2. TitleTypes'
    BY <1>5, <2>1 DEF Register, TitleTypes, Ranges, Protections
  <2> QED
    BY <1>5, <2>2 DEF Register, HeapInv, BooksInv, BlocksAreTracked, PagesOf, Run, PageOf
<1>6. CASE UNCHANGED <<bound, allocations, blocks, prot, devices>>
  BY <1>6 DEF TitleTypes, HeapInv, BooksInv, BlocksAreTracked, PagesOf, Run, PageOf, Protections
<1>7. ASSUME NEW address \in Addresses, NEW size \in Sizes, NEW access \in Accesses,
             \/ OwnedAccess(access, address, size)
             \/ MappedAccess(access, address, size)
             \/ ImportAccess(access, address, size)
      PROVE  UNCHANGED <<bound, allocations, blocks, prot, devices>>
  BY <1>7 DEF OwnedAccess, MappedAccess, ImportAccess
<1> QED
  BY <1>1, <1>2, <1>3, <1>4, <1>5, <1>6, <1>7 DEF Next, vars

\* The steps that change the books.
LEMMA BooksStep ==
    ASSUME TitleInv, [Next]_vars
    PROVE  TitleTypes' /\ HeapInv' /\ BooksInv'
<1>1. CASE Reset
  <2>1. /\ bound' = FALSE /\ allocations' = allocations \ allocations /\ devices' = devices
        /\ SystemHeapFree({a.address : a \in allocations})
    BY <1>1 DEF Reset
  <2> QED
    BY <2>1, FreeKeepsBooks
<1>2. ASSUME NEW address \in Addresses, NEW size \in Sizes, Allocate(address, size)
      PROVE  TitleTypes' /\ HeapInv' /\ BooksInv'
  <2>1. size \in Nat
    BY TitleMemoryAssumption DEF Sizes
  <2> QED
    BY <1>2, <2>1, AllocateKeepsBooks
<1>3. ASSUME NEW a \in allocations, Release(a)
      PROVE  TitleTypes' /\ HeapInv' /\ BooksInv'
  <2>1. /\ bound' = TRUE /\ allocations' = allocations \ {a} /\ devices' = devices
        /\ SystemHeapFree({a.address})
    BY <1>3 DEF Release, TitleInv, TitleTypes
  <2> DEFINE S == {a}
  <2>2. {a.address} = {b.address : b \in S} /\ S \subseteq allocations
    OBVIOUS
  <2>3. /\ bound' = TRUE /\ allocations' = allocations \ S /\ devices' = devices
        /\ SystemHeapFree({b.address : b \in S})
    BY <2>1, <2>2
  <2> HIDE DEF S
  <2> QED
    BY <2>2, <2>3, FreeKeepsBooks
<1> QED
  BY <1>1, <1>2, <1>3, OtherStep

\* Every step keeps what is said of the access it makes, or makes none.
LEMMA AccessStep ==
    ASSUME TitleInv, [Next]_vars
    PROVE  OwnedAccessesStayOwned' /\ MappedAccessesAreChecked'
<1> USE DEF TitleInv
<1>1. ASSUME NEW address \in Addresses, NEW size \in Sizes, NEW access \in Accesses
      PROVE  /\ OwnedAccess(access, address, size) => OwnedAccessesStayOwned' /\ MappedAccessesAreChecked'
             /\ MappedAccess(access, address, size) => OwnedAccessesStayOwned' /\ MappedAccessesAreChecked'
             /\ ImportAccess(access, address, size) => OwnedAccessesStayOwned' /\ MappedAccessesAreChecked'
  <2>1. size \in Nat
    BY TitleMemoryAssumption DEF Sizes
  <2>2. OwnedAccess(access, address, size) => MappedAccessesAreChecked'
    BY DEF OwnedAccess, MappedAccessesAreChecked
  <2>3. MappedAccess(access, address, size) => OwnedAccessesStayOwned'
    BY DEF MappedAccess, OwnedAccessesStayOwned
  <2>4. ImportAccess(access, address, size) => OwnedAccessesStayOwned'
    BY DEF ImportAccess, OwnedAccessesStayOwned, Nothing
  <2> QED
    BY <2>1, <2>2, <2>3, <2>4, OwnedAccessIsOwned, MappedAccessIsChecked, ImportAccessIsChecked
<1>2. CASE UNCHANGED vars
  BY <1>2 DEF vars, OwnedAccessesStayOwned, MappedAccessesAreChecked, PagesOf, Run, PageOf, Overlap
<1>3. ASSUME Next, copied' # Nothing
      PROVE  \E address \in Addresses, size \in Sizes, access \in Accesses :
                \/ OwnedAccess(access, address, size)
                \/ MappedAccess(access, address, size)
                \/ ImportAccess(access, address, size)
  BY <1>3 DEF Next, Initialize, Reset, XeniaAllocates, Allocate, Register, XeniaFrees, GuestProtects, Release
<1> QED
  BY <1>1, <1>2, <1>3, NothingCopied

\* The invariant holds in every state.
THEOREM TitleInvariant == Spec => []TitleInv
<1>1. Init => TitleInv
  <2> SUFFICES ASSUME Init PROVE TitleInv
    OBVIOUS
  <2>1. TitleTypes /\ HeapInv
    BY DEF Init, TitleTypes, HeapInv, Protections
  <2>2. BooksInv
    BY DEF Init, BooksInv, BlocksAreTracked
  <2> QED
    BY <2>1, <2>2 DEF Init, TitleInv, Nothing, OwnedAccessesStayOwned, MappedAccessesAreChecked, Accesses
<1>2. TitleInv /\ [Next]_vars => TitleInv'
  BY BooksStep, AccessStep DEF TitleInv
<1> QED
  BY <1>1, <1>2, PTL DEF Spec

\* GuestMemory's books are Xenia's: no call, refused or not, and no end of a
\* runtime leaves a block of the title untracked or an allocation without one.
THEOREM BooksAgreeWithHeap == Spec => []BlocksAreTracked
<1>1. TitleInv => BlocksAreTracked
  BY DEF TitleInv, BooksInv
<1> QED
  BY <1>1, TitleInvariant, PTL

\* ReadOwned and WriteOwned never leave a block of the title, whatever address
\* and size they are given.
THEOREM OwnedStayOwned == Spec => []OwnedAccessesStayOwned
<1>1. TitleInv => OwnedAccessesStayOwned
  BY DEF TitleInv
<1> QED
  BY <1>1, TitleInvariant, PTL

\* Mapped accesses and those of import handlers never leave their heap, and the
\* former never touch a device range.
THEOREM MappedAreChecked == Spec => []MappedAccessesAreChecked
<1>1. TitleInv => MappedAccessesAreChecked
  BY DEF TitleInv
<1> QED
  BY <1>1, TitleInvariant, PTL
=============================================================================
