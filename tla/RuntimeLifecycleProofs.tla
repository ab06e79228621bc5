----------------------- MODULE RuntimeLifecycleProofs -----------------------
(***************************************************************************)
(* The instance lease keeps Xenia's guest address space to one context,    *)
(* however many contexts are created, fail and are destroyed concurrently; *)
(* and no context's objects, tables or guest code refer to what is gone.   *)
(***************************************************************************)
EXTENDS RuntimeLifecycle, TLAPS

\* The position of xe::Memory and of the lease in ~Impl.
LEMMA OrderOfRelease ==
    /\ Len(TeardownOrder) = 13
    /\ \A k \in 1..13 : /\ "memory" \in TeardownOrder[k] <=> k = 9
                        /\ "lease" \in TeardownOrder[k] <=> k = 13
<1>1. Len(TeardownOrder) = 13
  BY DEF TeardownOrder
<1>2. /\ "memory" \in TeardownOrder[9] /\ "lease" \in TeardownOrder[13]
      /\ "memory" \notin TeardownOrder[13] /\ "lease" \notin TeardownOrder[9]
  BY DEF TeardownOrder
<1>3. \A k \in (1..13) \ {9, 13} : "memory" \notin TeardownOrder[k] /\ "lease" \notin TeardownOrder[k]
  <2>1. /\ TeardownOrder[1] = {"thread"} /\ TeardownOrder[2] = {"guard"}
        /\ TeardownOrder[3] = {"processor"} /\ TeardownOrder[4] = {"image"}
        /\ TeardownOrder[5] = {"resolver"} /\ TeardownOrder[6] = {"imports"}
        /\ TeardownOrder[7] = {"allocations"} /\ TeardownOrder[8] = {"watch", "invalidation"}
        /\ TeardownOrder[10] = {"devices"} /\ TeardownOrder[11] = {"overrides"}
        /\ TeardownOrder[12] = {"virtualMemory"}
    BY DEF TeardownOrder
  <2> QED BY <2>1
<1> QED BY <1>1, <1>2, <1>3

-----------------------------------------------------------------------------
(* The inductive invariant *)

LifeTypes ==
    /\ leased \in BOOLEAN
    /\ stage \in [Contexts -> Stages]
    /\ step \in [Contexts -> 1..13]
    /\ alive \in [Contexts -> SUBSET Objects]

\* A context maps guest memory only while it holds the lease: it takes the
\* lease first, and ~Impl drops it after the memory.
MemoryUnderLease(c) ==
    /\ Owns(c, "memory") => Owns(c, "lease")
    /\ stage[c] \in {"none", "created"} => ~Owns(c, "lease")
    /\ stage[c] \in {"leased", "memory", "processor", "ready"} => Owns(c, "lease")
    /\ stage[c] # "teardown" /\ stage[c] # "none" => step[c] = 1
    /\ stage[c] = "teardown" /\ step[c] > 9 => ~Owns(c, "memory")

OneLease == \A c, d \in Contexts : Owns(c, "lease") /\ Owns(d, "lease") => c = d

IInv ==
    /\ LifeTypes
    /\ \A c \in Contexts : MemoryUnderLease(c)
    /\ OneLease
    /\ LeaseHasOwner

\* A step of c that leaves every lease where it is.
LEMMA SameLeases ==
    ASSUME IInv, NEW c \in Contexts, LifeTypes', leased' = leased,
           \A d \in Contexts \ {c} : stage'[d] = stage[d] /\ step'[d] = step[d]
                                     /\ alive'[d] = alive[d],
           Owns(c, "lease")' <=> Owns(c, "lease"), MemoryUnderLease(c)'
    PROVE  IInv'
<1>1. \A d \in Contexts : Owns(d, "lease")' <=> Owns(d, "lease")
  BY DEF Owns
<1>2. \A d \in Contexts \ {c} : MemoryUnderLease(d)'
  BY DEF IInv, MemoryUnderLease, Owns
<1>3. OneLease' /\ LeaseHasOwner'
  BY <1>1 DEF IInv, OneLease, LeaseHasOwner
<1> QED BY <1>2, <1>3 DEF IInv

-----------------------------------------------------------------------------
(* Every step keeps it *)

\* The parts of Initialize after the lease, and their early returns.
LEMMA ConstructsKeeps ==
    ASSUME IInv, NEW c \in Contexts, NEW from \in {"leased", "memory", "processor"},
           NEW objs \in SUBSET (Objects \ {"lease"}),
           NEW to \in {"memory", "processor", "ready"}, Constructs(c, from, objs, to)
    PROVE  IInv'
<1> USE DEF IInv, LifeTypes, Stages, Owns
<1>1. Owns(c, "lease") /\ step[c] = 1 /\ stage[c] = from
  BY DEF MemoryUnderLease, Constructs
<1>2. PICK next \in {to, "failed"} : stage' = [stage EXCEPT ![c] = next]
  BY DEF Constructs
<1>3. alive' = [alive EXCEPT ![c] = @ \cup objs] /\ leased' = leased /\ step' = step
  BY DEF Constructs
<1>4. LifeTypes'
  BY <1>2, <1>3
<1>5. /\ stage'[c] = next /\ alive'[c] = alive[c] \cup objs /\ step'[c] = 1
      /\ \A d \in Contexts \ {c} : stage'[d] = stage[d] /\ step'[d] = step[d]
                                   /\ alive'[d] = alive[d]
  BY <1>1, <1>2, <1>3
<1>6. MemoryUnderLease(c)'
  BY <1>1, <1>5 DEF MemoryUnderLease
<1>7. Owns(c, "lease")' <=> Owns(c, "lease")
  BY <1>1, <1>5
<1> QED BY <1>3, <1>4, <1>5, <1>6, <1>7, SameLeases

\* make_unique<Impl> creates no lease.
LEMMA CreateKeeps ==
    ASSUME IInv, NEW c \in Contexts, Create(c)
    PROVE  IInv'
<1> USE DEF IInv, LifeTypes, Stages, Owns, Objects
<1>1. LifeTypes' /\ leased' = leased
  BY DEF Create
<1>2. /\ stage'[c] = "created" /\ alive'[c] = {"devices", "overrides"} /\ step'[c] = 1
      /\ \A d \in Contexts \ {c} : stage'[d] = stage[d] /\ step'[d] = step[d]
                                   /\ alive'[d] = alive[d]
  BY DEF Create
<1>3. ~Owns(c, "lease")
  BY DEF Create, MemoryUnderLease
<1>4. MemoryUnderLease(c)' /\ (Owns(c, "lease")' <=> Owns(c, "lease"))
  BY <1>2, <1>3 DEF MemoryUnderLease
<1> QED BY <1>1, <1>2, <1>4, SameLeases

\* One compare-and-exchange: the context takes the lease nobody has, or fails.
LEMMA AcquireKeeps ==
    ASSUME IInv, NEW c \in Contexts, Acquire(c)
    PROVE  IInv'
<1> USE DEF IInv, LifeTypes, Stages, Owns, Objects
<1>1. ~Owns(c, "lease") /\ step[c] = 1 /\ stage[c] = "created" /\ ~Owns(c, "memory")
  BY DEF Acquire, MemoryUnderLease
<1>2. CASE leased
  <2>1. leased' = leased /\ stage' = [stage EXCEPT ![c] = "failed"] /\ alive' = alive
        /\ step' = step
    BY <1>2, Zenon DEF Acquire
  <2>2. LifeTypes'
    BY <2>1
  <2>3. stage'[c] = "failed" /\ \A d \in Contexts \ {c} : stage'[d] = stage[d]
    BY <2>1
  <2>4. MemoryUnderLease(c)'
    BY <1>1, <2>1, <2>3 DEF MemoryUnderLease
  <2> QED BY <2>1, <2>2, <2>3, <2>4, SameLeases
<1>3. CASE ~leased
  <2>1. leased' = TRUE /\ stage' = [stage EXCEPT ![c] = "leased"]
        /\ alive' = [alive EXCEPT ![c] = @ \cup {"lease"}] /\ step' = step
    BY <1>3 DEF Acquire
  <2>2. \A d \in Contexts : ~Owns(d, "lease")
    BY <1>3 DEF LeaseHasOwner
  <2>3. /\ stage'[c] = "leased" /\ alive'[c] = alive[c] \cup {"lease"}
        /\ \A d \in Contexts \ {c} : stage'[d] = stage[d] /\ alive'[d] = alive[d]
    BY <2>1
  <2>4. LifeTypes'
    BY <2>1
  <2>5. \A d \in Contexts : MemoryUnderLease(d)'
    BY <1>1, <2>1, <2>3 DEF MemoryUnderLease
  <2>6. Owns(c, "lease")' /\ \A d \in Contexts : Owns(d, "lease")' => d = c
    BY <2>2, <2>3
  <2>7. OneLease' /\ LeaseHasOwner'
    BY <2>1, <2>6 DEF OneLease, LeaseHasOwner
  <2> QED BY <2>4, <2>5, <2>7
<1> QED BY <1>2, <1>3

\* The operations of a created context keep its lease and its memory.
LEMMA UseKeeps ==
    ASSUME IInv, NEW c \in Contexts, NEW objs \in SUBSET (Objects \ {"lease", "memory"}),
           alive' = [alive EXCEPT ![c] = @ \cup objs], UNCHANGED <<leased, stage, step>>
    PROVE  IInv'
<1> USE DEF IInv, LifeTypes, Stages, Owns
<1>1. LifeTypes' /\ leased' = leased
  OBVIOUS
<1>2. /\ alive'[c] = alive[c] \cup objs /\ stage'[c] = stage[c] /\ step'[c] = step[c]
      /\ \A d \in Contexts \ {c} : stage'[d] = stage[d] /\ step'[d] = step[d]
                                   /\ alive'[d] = alive[d]
  OBVIOUS
<1>3. MemoryUnderLease(c)' /\ (Owns(c, "lease")' <=> Owns(c, "lease"))
  BY <1>2 DEF MemoryUnderLease
<1> QED BY <1>1, <1>2, <1>3, SameLeases

\* Destruction starts with everything the context owns still there.
LEMMA DestroyKeeps ==
    ASSUME IInv, NEW c \in Contexts, Destroy(c)
    PROVE  IInv'
<1> USE DEF IInv, LifeTypes, Stages, Owns
<1>1. LifeTypes' /\ leased' = leased /\ alive' = alive /\ step' = step
  BY DEF Destroy
<1>2. stage'[c] = "teardown" /\ \A d \in Contexts \ {c} : stage'[d] = stage[d]
  BY DEF Destroy
<1>3. step[c] = 1
  BY DEF Destroy, MemoryUnderLease
<1>4. MemoryUnderLease(c)' /\ (Owns(c, "lease")' <=> Owns(c, "lease"))
  BY <1>1, <1>2, <1>3 DEF MemoryUnderLease
<1> QED BY <1>1, <1>2, <1>4, SameLeases

\* Each step of ~Impl: the memory goes four steps before the lease.
LEMMA TeardownKeeps ==
    ASSUME IInv, NEW c \in Contexts, Teardown(c)
    PROVE  IInv'
<1> USE DEF IInv, LifeTypes, Stages, Owns
<1> DEFINE k == step[c]
<1>1. /\ k \in 1..13 /\ stage[c] = "teardown"
      /\ "memory" \in TeardownOrder[k] <=> k = 9
      /\ "lease" \in TeardownOrder[k] <=> k = 13
  BY OrderOfRelease DEF Teardown
<1>2. /\ alive' = [alive EXCEPT ![c] = @ \ TeardownOrder[k]]
      /\ leased' = (leased /\ ~("lease" \in TeardownOrder[k] /\ Owns(c, "lease")))
  BY DEF Teardown, Releases
<1>3. /\ alive'[c] = alive[c] \ TeardownOrder[k]
      /\ \A d \in Contexts \ {c} : alive'[d] = alive[d]
      /\ alive' \in [Contexts -> SUBSET Objects]
  BY <1>2
<1>4. CASE k # 13
  <2>1. stage' = stage /\ step' = [step EXCEPT ![c] = @ + 1]
    BY <1>4, OrderOfRelease DEF Teardown
  <2>2. step'[c] = k + 1 /\ step'[c] \in 1..13 /\ \A d \in Contexts \ {c} : step'[d] = step[d]
    BY <1>1, <1>4, <2>1
  <2>3. leased' = leased
    BY <1>1, <1>2, <1>4, Zenon
  <2>4. LifeTypes'
    BY <1>3, <2>1, <2>2, <2>3
  <2>5. MemoryUnderLease(c)' /\ (Owns(c, "lease")' <=> Owns(c, "lease"))
    BY <1>1, <1>3, <1>4, <2>1, <2>2 DEF MemoryUnderLease
  <2> QED BY <1>3, <2>1, <2>2, <2>3, <2>4, <2>5, SameLeases
<1>5. CASE k = 13
  <2>1. stage' = [stage EXCEPT ![c] = "none"] /\ step' = step
    BY <1>5, OrderOfRelease DEF Teardown
  <2>2. ~Owns(c, "lease")' /\ ~Owns(c, "memory")'
    BY <1>1, <1>3, <1>5 DEF MemoryUnderLease
  <2>3. MemoryUnderLease(c)'
    BY <2>1, <2>2 DEF MemoryUnderLease
  <2>4. CASE ~Owns(c, "lease")
    <3>1. leased' = leased
      BY <1>2, <2>4, Zenon
    <3>2. LifeTypes' /\ \A d \in Contexts \ {c} : stage'[d] = stage[d]
      BY <1>3, <2>1, <3>1
    <3> QED BY <1>3, <2>1, <2>2, <2>3, <2>4, <3>1, <3>2, SameLeases
  <2>5. CASE Owns(c, "lease")
    <3>1. leased' = FALSE
      BY <1>1, <1>2, <1>5, <2>5, Zenon
    <3>2. \A d \in Contexts \ {c} : ~Owns(d, "lease")
      BY <2>5 DEF OneLease
    <3>3. \A d \in Contexts : ~Owns(d, "lease")'
      BY <1>3, <2>2, <3>2
    <3>4. \A d \in Contexts \ {c} : MemoryUnderLease(d)'
      BY <1>3, <2>1 DEF MemoryUnderLease
    <3>5. LifeTypes'
      BY <1>3, <2>1, <3>1
    <3> QED BY <2>3, <3>1, <3>3, <3>4, <3>5 DEF OneLease, LeaseHasOwner
  <2> QED BY <2>4, <2>5
<1> QED BY <1>4, <1>5

\* Every step keeps the invariant.
LEMMA NextKeeps ==
    ASSUME IInv, [Next]_vars
    PROVE  IInv'
<1>1. ASSUME UNCHANGED <<leased, stage, step, alive>>
      PROVE  IInv'
  BY <1>1 DEF IInv, LifeTypes, MemoryUnderLease, OneLease, LeaseHasOwner, Owns
<1>2. ASSUME NEW c \in Contexts, Initialize(c)
      PROVE  IInv'
  BY <1>2, AcquireKeeps, ConstructsKeeps
     DEF Initialize, InitializeMemory, SetupProcessor, InitializeThread, Objects
<1>3. ASSUME NEW c \in Contexts, LoadModule(c)
      PROVE  IInv'
  <2>1. PICK objs \in SUBSET {"imports", "invalidation", "watch", "image"} :
            alive' = [alive EXCEPT ![c] = @ \cup objs]
    <3>1. \E objs \in {{"imports"}, {"imports", "invalidation"},
                       {"imports", "invalidation", "watch", "image"}} :
             alive' = [alive EXCEPT ![c] = @ \cup objs]
      <4>1. alive[c] \cup {"imports"} \cup {"invalidation"} = alive[c] \cup {"imports", "invalidation"}
        OBVIOUS
      <4>2. alive[c] \cup {"imports"} \cup {"invalidation", "watch", "image"}
              = alive[c] \cup {"imports", "invalidation", "watch", "image"}
        OBVIOUS
      <4> QED BY <1>3, <4>1, <4>2 DEF LoadModule
    <3> QED BY <3>1
  <2> QED BY <1>3, <2>1, UseKeeps DEF LoadModule, Objects
<1>4. ASSUME NEW c \in Contexts, AllocateGuestMemory(c) \/ RegisterDeviceMemoryRange(c)
      PROVE  IInv'
  <2>1. PICK o \in {"allocations", "mapping"} : alive' = [alive EXCEPT ![c] = @ \cup {o}]
    BY <1>4 DEF AllocateGuestMemory, RegisterDeviceMemoryRange
  <2> QED BY <1>4, <2>1, UseKeeps DEF AllocateGuestMemory, RegisterDeviceMemoryRange, Objects
<1>5. ASSUME NEW c \in Contexts, EnterGuest(c) \/ LeaveGuest(c)
      PROVE  IInv'
  BY <1>1, <1>5 DEF EnterGuest, LeaveGuest
<1>6. ASSUME NEW x \in Inspectors, BeginInspect(x) \/ EndInspect(x)
      PROVE  IInv'
  BY <1>1, <1>6 DEF BeginInspect, EndInspect
<1>7. CASE UNCHANGED vars
  BY <1>1, <1>7 DEF vars
<1> QED
  BY <1>2, <1>3, <1>4, <1>5, <1>6, <1>7, CreateKeeps, DestroyKeeps, TeardownKeeps DEF Next

\* It holds initially.
LEMMA InitKeeps == Init => IInv
<1> SUFFICES ASSUME Init PROVE IInv
  OBVIOUS
<1>1. leased = FALSE /\ leased \in BOOLEAN
  BY Zenon DEF Init
<1>2. \A c \in Contexts : stage[c] = "none" /\ alive[c] = {}
  BY DEF Init
<1>3. LifeTypes
  BY <1>1 DEF Init, LifeTypes, Stages
<1>4. \A c \in Contexts : MemoryUnderLease(c) /\ ~Owns(c, "lease")
  BY <1>2 DEF MemoryUnderLease, Owns
<1>5. LeaseHasOwner
  BY <1>1, <1>4, Zenon DEF LeaseHasOwner
<1> QED BY <1>3, <1>4, <1>5 DEF IInv, OneLease

\* The invariant holds in every reachable state.
LEMMA Invariance == Spec => []IInv
<1>1. IInv /\ [Next]_vars => IInv'
  BY NextKeeps
<1> QED BY <1>1, InitKeeps, PTL DEF Spec

-----------------------------------------------------------------------------
(* Teardown order, tables and guest code *)

\* When ~Impl destroys an object.
Order(o) ==
    CASE o = "thread" -> 1
      [] o = "guard" -> 2
      [] o = "processor" -> 3
      [] o = "image" -> 4
      [] o = "resolver" -> 5
      [] o = "imports" -> 6
      [] o = "allocations" -> 7
      [] o \in {"watch", "invalidation"} -> 8
      [] o \in {"memory", "mapping"} -> 9
      [] o = "devices" -> 10
      [] o = "overrides" -> 11
      [] o = "virtualMemory" -> 12
      [] o = "lease" -> 13

\* What Initialize has constructed when it comes to a stage.
Built(s) ==
    CASE s = "created" -> {"devices", "overrides"}
      [] s = "leased" -> {"devices", "overrides", "lease"}
      [] s = "memory" -> {"devices", "overrides", "lease", "memory"}
      [] s \in {"processor", "ready"} ->
            {"devices", "overrides", "lease", "memory", "resolver", "processor"}
      [] OTHER -> {}

LoadTypes ==
    /\ module \in [Contexts -> BOOLEAN]
    /\ loadFailed \in [Contexts -> BOOLEAN]
    /\ tables \in [Contexts -> Nat]
    /\ registered \in [Contexts -> SUBSET Nat]
    /\ guest \in [Contexts -> BOOLEAN]
    /\ inspecting \subseteq Inspectors

\* Nothing alive refers to what is gone, and what is alive in ~Impl is still to come.
ObjectsInOrder(c) ==
    /\ stage[c] = "none" => alive[c] = {}
    /\ Built(stage[c]) \subseteq alive[c]
    /\ \A o \in alive[c] : Needs(o) \subseteq alive[c]
    /\ stage[c] = "teardown" => \A o \in alive[c] : Order(o) >= step[c]

\* Tables are registered once, and stay as long as the resolver.
TablesInOrder(c) ==
    /\ stage[c] \in {"created", "leased", "memory", "processor", "ready"}
       /\ ~module[c] /\ ~loadFailed[c] => registered[c] = {} /\ tables[c] = 0
    /\ stage[c] \in {"created", "leased", "memory", "processor"} => ~module[c] /\ ~loadFailed[c]
    /\ Owns(c, "resolver") => /\ registered[c] \subseteq {tables[c]}
                              /\ registered[c] # {} => Owns(c, "imports")

\* A module is watched or its loading has failed, and only a watched one is entered.
GuestInOrder(c) ==
    /\ guest[c] => stage[c] = "ready" /\ Owns(c, "image") /\ Owns(c, "watch")
    /\ stage[c] \in {"created", "leased", "memory", "processor"} => ~Owns(c, "watch")
    /\ stage[c] = "ready" /\ module[c] => Owns(c, "invalidation")
    /\ stage[c] = "ready" /\ Owns(c, "watch") => Owns(c, "image")

ContextInv(c) == ObjectsInOrder(c) /\ TablesInOrder(c) /\ GuestInOrder(c)

UseInv == IInv /\ LoadTypes /\ \A c \in Contexts : ContextInv(c)

\* Order is where TeardownOrder has an object.
LEMMA OrderOfTeardown ==
    \A o \in Objects : \A k \in 1..13 : o \in TeardownOrder[k] <=> k = Order(o)
<1>1. /\ TeardownOrder[1] = {"thread"} /\ TeardownOrder[2] = {"guard"}
      /\ TeardownOrder[3] = {"processor"} /\ TeardownOrder[4] = {"image"}
      /\ TeardownOrder[5] = {"resolver"} /\ TeardownOrder[6] = {"imports"}
      /\ TeardownOrder[7] = {"allocations"} /\ TeardownOrder[8] = {"watch", "invalidation"}
      /\ TeardownOrder[9] = {"memory", "mapping"}
      /\ TeardownOrder[10] = {"devices"} /\ TeardownOrder[11] = {"overrides"}
      /\ TeardownOrder[12] = {"virtualMemory"} /\ TeardownOrder[13] = {"lease"}
  BY DEF TeardownOrder
<1>2. TAKE o \in Objects, k \in 1..13
<1>3. k \in {1, 2, 3, 4, 5, 6, 7, 8, 9, 10, 11, 12, 13}
  OBVIOUS
<1> QED BY <1>1, <1>3 DEF Order, Objects

\* Everything an object refers to outlives it.
LEMMA NeedsOutlive ==
    \A o \in Objects : /\ Needs(o) \subseteq Objects
                       /\ Order(o) \in 1..13
                       /\ \A n \in Needs(o) : Order(n) >= Order(o)
BY DEF Needs, Order, Objects

\* A step of one context leaves the others as they are.
LEMMA OneContext ==
    ASSUME UseInv, IInv', LoadTypes', NEW c \in Contexts, ContextInv(c)',
           \A d \in Contexts \ {c} :
               /\ stage'[d] = stage[d] /\ step'[d] = step[d] /\ alive'[d] = alive[d]
               /\ module'[d] = module[d] /\ loadFailed'[d] = loadFailed[d]
               /\ tables'[d] = tables[d] /\ registered'[d] = registered[d]
               /\ guest'[d] = guest[d]
    PROVE  UseInv'
<1>1. ASSUME NEW d \in Contexts \ {c}
      PROVE  ContextInv(d)'
  <2>1. /\ stage'[d] = stage[d] /\ step'[d] = step[d] /\ alive'[d] = alive[d]
        /\ module'[d] = module[d] /\ loadFailed'[d] = loadFailed[d]
        /\ tables'[d] = tables[d] /\ registered'[d] = registered[d] /\ guest'[d] = guest[d]
    BY <1>1
  <2>2. ContextInv(d)
    BY <1>1 DEF UseInv
  <2>3. ObjectsInOrder(d)'
    BY <2>1, <2>2 DEF ContextInv, ObjectsInOrder
  <2>4. TablesInOrder(d)'
    BY <2>1, <2>2 DEF ContextInv, TablesInOrder, Owns
  <2>5. GuestInOrder(d)'
    BY <2>1, <2>2 DEF ContextInv, GuestInOrder, Owns
  <2> QED BY <2>3, <2>4, <2>5 DEF ContextInv
<1> QED BY <1>1 DEF UseInv

\* A part of Initialize adds objects whose needs have been constructed.
LEMMA ConstructsOrdered ==
    ASSUME UseInv, NEW c \in Contexts,
           NEW from \in {"leased", "memory", "processor"},
           NEW objs \in SUBSET (Objects \ {"lease"}),
           NEW to \in {"memory", "processor", "ready"},
           Constructs(c, from, objs, to), UseInv => IInv',
           Built(to) \subseteq Built(from) \cup objs,
           \A o \in objs : Needs(o) \subseteq Built(from) \cup objs,
           "watch" \notin objs
    PROVE  UseInv'
<1> USE DEF UseInv, IInv, LifeTypes, LoadTypes, Stages
<1>1. /\ stage[c] = from /\ alive' = [alive EXCEPT ![c] = @ \cup objs]
      /\ UNCHANGED <<step, module, loadFailed, tables, registered, guest, inspecting>>
  BY DEF Constructs, loadVars
<1>2. PICK next \in {to, "failed"} : stage' = [stage EXCEPT ![c] = next]
  BY DEF Constructs
<1>3. /\ stage'[c] = next /\ alive'[c] = alive[c] \cup objs
      /\ \A d \in Contexts \ {c} : stage'[d] = stage[d] /\ alive'[d] = alive[d]
  BY <1>1, <1>2
<1>4. ContextInv(c) /\ Built(from) \subseteq alive[c]
  BY <1>1 DEF ContextInv, ObjectsInOrder
<1>5. ObjectsInOrder(c)'
  <2>1. next # "none" /\ next # "teardown" /\ (next = "failed" => Built(next) = {})
    BY DEF Built
  <2>2. Built(next) \subseteq alive'[c]
    BY <1>3, <1>4, <2>1
  <2>3. \A o \in alive'[c] : Needs(o) \subseteq alive'[c]
    BY <1>3, <1>4 DEF ContextInv, ObjectsInOrder
  <2> QED BY <1>3, <2>1, <2>2, <2>3 DEF ObjectsInOrder
<1>6. registered[c] = {} /\ tables[c] = 0 /\ ~module[c] /\ ~loadFailed[c] /\ ~guest[c]
  BY <1>1, <1>4 DEF ContextInv, TablesInOrder, GuestInOrder
<1>7. TablesInOrder(c)'
  BY <1>1, <1>3, <1>6 DEF TablesInOrder
<1>8. "watch" \notin alive[c]
  BY <1>1, <1>4 DEF ContextInv, GuestInOrder, Owns
<1>9. GuestInOrder(c)'
  BY <1>1, <1>3, <1>6, <1>8 DEF GuestInOrder, Owns
<1> QED BY <1>1, <1>3, <1>5, <1>7, <1>9, OneContext DEF ContextInv

\* make_unique<Impl> starts afresh.
LEMMA CreateOrdered ==
    ASSUME UseInv, NEW c \in Contexts, Create(c)
    PROVE  UseInv'
<1> USE DEF UseInv, IInv, LifeTypes, LoadTypes, Stages, Objects
<1>1. IInv'
  BY CreateKeeps DEF UseInv
<1>2. LoadTypes'
  BY DEF Create
<1>3. /\ stage'[c] = "created" /\ step'[c] = 1 /\ alive'[c] = {"devices", "overrides"}
      /\ module'[c] = FALSE /\ loadFailed'[c] = FALSE /\ tables'[c] = 0
      /\ registered'[c] = {} /\ guest'[c] = guest[c]
      /\ \A d \in Contexts \ {c} :
            /\ stage'[d] = stage[d] /\ step'[d] = step[d] /\ alive'[d] = alive[d]
            /\ module'[d] = module[d] /\ loadFailed'[d] = loadFailed[d]
            /\ tables'[d] = tables[d] /\ registered'[d] = registered[d] /\ guest'[d] = guest[d]
  BY DEF Create
<1>4. ~guest[c]
  BY DEF Create, ContextInv, GuestInOrder
<1>5. Needs("devices") = {} /\ Needs("overrides") = {}
  BY DEF Needs
<1>6. ObjectsInOrder(c)'
  BY <1>3, <1>5 DEF ObjectsInOrder, Built
<1>7. TablesInOrder(c)' /\ GuestInOrder(c)'
  BY <1>3, <1>4 DEF TablesInOrder, GuestInOrder, Owns
<1> QED BY <1>1, <1>2, <1>3, <1>6, <1>7, OneContext DEF ContextInv

\* The lease refers to nothing.
LEMMA AcquireOrdered ==
    ASSUME UseInv, NEW c \in Contexts, Acquire(c)
    PROVE  UseInv'
<1> USE DEF UseInv, IInv, LifeTypes, LoadTypes, Stages, Objects
<1>1. IInv' /\ LoadTypes'
  BY AcquireKeeps DEF UseInv, Acquire, loadVars
<1>2. /\ stage[c] = "created"
      /\ UNCHANGED <<step, module, loadFailed, tables, registered, guest, inspecting>>
  BY DEF Acquire, loadVars
<1>3. \/ stage' = [stage EXCEPT ![c] = "failed"] /\ alive' = alive
      \/ stage' = [stage EXCEPT ![c] = "leased"] /\ alive' = [alive EXCEPT ![c] = @ \cup {"lease"}]
  BY Zenon DEF Acquire
<1>4. /\ \/ stage'[c] = "failed" /\ alive'[c] = alive[c]
         \/ stage'[c] = "leased" /\ alive'[c] = alive[c] \cup {"lease"}
      /\ \A d \in Contexts \ {c} : stage'[d] = stage[d] /\ alive'[d] = alive[d]
  BY <1>3
<1>5. ContextInv(c)
  OBVIOUS
<1>6. ObjectsInOrder(c)'
  <2>1. Needs("lease") = {}
    BY DEF Needs
  <2> QED BY <1>2, <1>4, <1>5, <2>1 DEF ContextInv, ObjectsInOrder, Built
<1>7. TablesInOrder(c)' /\ GuestInOrder(c)'
  BY <1>2, <1>4, <1>5 DEF ContextInv, TablesInOrder, GuestInOrder, Owns
<1> QED BY <1>1, <1>2, <1>4, <1>6, <1>7, OneContext DEF ContextInv

\* A load registers the only tables of its context, and watches what it commits.
LEMMA LoadOrdered ==
    ASSUME UseInv, NEW c \in Contexts, LoadModule(c), IInv'
    PROVE  UseInv'
<1> USE DEF UseInv, IInv, LifeTypes, LoadTypes, Stages, Objects
<1>1. /\ stage[c] = "ready" /\ ~module[c] /\ ~loadFailed[c]
      /\ UNCHANGED <<leased, stage, step, guest, inspecting>>
      /\ tables' = [tables EXCEPT ![c] = tables[c] + 1]
      /\ registered' = [registered EXCEPT ![c] = @ \cup {tables[c] + 1}]
  BY DEF LoadModule, LoadStateAllows
<1>2. ContextInv(c) /\ registered[c] = {} /\ tables[c] = 0
  BY <1>1 DEF ContextInv, TablesInOrder
<1>3. tables'[c] = 1 /\ registered'[c] = {1}
  BY <1>1, <1>2
<1>4. \/ /\ loadFailed' = [loadFailed EXCEPT ![c] = TRUE] /\ module' = module
         /\ alive' = [alive EXCEPT ![c] = alive[c] \cup {"imports"}]
      \/ /\ loadFailed' = [loadFailed EXCEPT ![c] = TRUE] /\ module' = [module EXCEPT ![c] = TRUE]
         /\ alive' = [alive EXCEPT ![c] = alive[c] \cup {"imports"} \cup {"invalidation"}]
      \/ /\ loadFailed' = loadFailed /\ module' = [module EXCEPT ![c] = TRUE]
         /\ alive' = [alive EXCEPT ![c] = alive[c] \cup {"imports"}
                                             \cup {"invalidation", "watch", "image"}]
  BY DEF LoadModule
<1>5. LoadTypes'
  <2>1. tables[c] + 1 \in Nat
    OBVIOUS
  <2>2. tables' \in [Contexts -> Nat] /\ registered' \in [Contexts -> SUBSET Nat]
    BY <1>1, <2>1
  <2>3. module' \in [Contexts -> BOOLEAN] /\ loadFailed' \in [Contexts -> BOOLEAN]
    BY <1>4
  <2> QED BY <1>1, <2>2, <2>3
<1>6. /\ \/ /\ loadFailed'[c] /\ module'[c] = module[c]
            /\ alive'[c] = alive[c] \cup {"imports"}
         \/ /\ loadFailed'[c] /\ module'[c]
            /\ alive'[c] = alive[c] \cup {"imports"} \cup {"invalidation"}
         \/ /\ loadFailed'[c] = loadFailed[c] /\ module'[c]
            /\ alive'[c] = alive[c] \cup {"imports"} \cup {"invalidation", "watch", "image"}
      /\ \A d \in Contexts \ {c} :
            /\ alive'[d] = alive[d] /\ module'[d] = module[d] /\ loadFailed'[d] = loadFailed[d]
            /\ tables'[d] = tables[d] /\ registered'[d] = registered[d]
  BY <1>1, <1>4
<1>7. ObjectsInOrder(c)'
  <2>1. /\ Needs("imports") = {} /\ Needs("invalidation") = {}
        /\ Needs("watch") = {"memory", "invalidation"} /\ Needs("image") = {"memory"}
    BY DEF Needs
  <2>2. "memory" \in alive[c] /\ Built(stage[c]) \subseteq alive[c]
    BY <1>1, <1>2 DEF ContextInv, ObjectsInOrder, Built
  <2>3. \A o \in alive'[c] : Needs(o) \subseteq alive'[c]
    BY <1>2, <1>6, <2>1, <2>2 DEF ContextInv, ObjectsInOrder
  <2> QED BY <1>1, <1>6, <2>2, <2>3 DEF ObjectsInOrder
<1>8. TablesInOrder(c)'
  BY <1>1, <1>3, <1>6 DEF TablesInOrder, Owns
<1>9. GuestInOrder(c)'
  BY <1>1, <1>2, <1>6 DEF ContextInv, GuestInOrder, Owns
<1> QED BY <1>1, <1>5, <1>6, <1>7, <1>8, <1>9, OneContext DEF ContextInv

\* Allocations need the memory, a mapping the devices as well.
LEMMA UseOrdered ==
    ASSUME UseInv, NEW c \in Contexts, NEW o \in {"allocations", "mapping"}, stage[c] = "ready",
           alive' = [alive EXCEPT ![c] = @ \cup {o}],
           UNCHANGED <<leased, stage, step, loadVars, guest, inspecting>>, IInv'
    PROVE  UseInv'
<1> USE DEF UseInv, IInv, LifeTypes, LoadTypes, Stages, loadVars
<1>1. /\ alive'[c] = alive[c] \cup {o} /\ \A d \in Contexts \ {c} : alive'[d] = alive[d]
      /\ ContextInv(c)
  OBVIOUS
<1>2. ObjectsInOrder(c)'
  <2>1. Needs(o) \subseteq {"memory", "devices"}
    BY DEF Needs
  <2>2. {"memory", "devices"} \subseteq alive[c]
    BY <1>1 DEF ContextInv, ObjectsInOrder, Built
  <2> QED BY <1>1, <2>1, <2>2 DEF ContextInv, ObjectsInOrder
<1>3. TablesInOrder(c)' /\ GuestInOrder(c)'
  BY <1>1 DEF ContextInv, TablesInOrder, GuestInOrder, Owns
<1>4. LoadTypes'
  OBVIOUS
<1> QED BY <1>1, <1>2, <1>3, <1>4, OneContext DEF ContextInv

\* A call is let in only when the module is watched, and an image with it.
LEMMA CallsOrdered ==
    ASSUME UseInv, NEW c \in Contexts, EnterGuest(c) \/ LeaveGuest(c), IInv'
    PROVE  UseInv'
<1> USE DEF UseInv, IInv, LifeTypes, LoadTypes, loadVars
<1>1. UNCHANGED <<leased, stage, step, alive, loadVars, inspecting>>
  BY DEF EnterGuest, LeaveGuest
<1>2. LoadTypes' /\ ContextInv(c) /\ \A d \in Contexts \ {c} : guest'[d] = guest[d]
  BY <1>1 DEF EnterGuest, LeaveGuest
<1>3. guest'[c] => stage[c] = "ready" /\ Owns(c, "image") /\ Owns(c, "watch")
  BY <1>2 DEF EnterGuest, LeaveGuest, ContextInv, GuestInOrder
<1>4. ContextInv(c)'
  BY <1>1, <1>2, <1>3 DEF ContextInv, ObjectsInOrder, TablesInOrder, GuestInOrder, Owns
<1> QED BY <1>1, <1>2, <1>4, OneContext

\* Destruction starts when no guest code runs.
LEMMA DestroyOrdered ==
    ASSUME UseInv, NEW c \in Contexts, Destroy(c)
    PROVE  UseInv'
<1> USE DEF UseInv, IInv, LifeTypes, LoadTypes, Stages, loadVars
<1>1. IInv' /\ LoadTypes' /\ ContextInv(c)
  BY DestroyKeeps DEF UseInv, Destroy
<1>2. /\ stage'[c] = "teardown" /\ \A d \in Contexts \ {c} : stage'[d] = stage[d]
      /\ UNCHANGED <<step, alive, module, loadFailed, tables, registered, guest>>
      /\ ~guest[c]
  BY DEF Destroy
<1>3. step[c] = 1
  BY DEF Destroy, MemoryUnderLease
<1>4. ObjectsInOrder(c)'
  <2>1. \A o \in alive[c] : Order(o) >= 1
    BY NeedsOutlive
  <2> QED BY <1>1, <1>2, <1>3, <2>1 DEF ContextInv, ObjectsInOrder, Built
<1>5. TablesInOrder(c)' /\ GuestInOrder(c)'
  BY <1>1, <1>2 DEF ContextInv, TablesInOrder, GuestInOrder, Owns
<1> QED BY <1>1, <1>2, <1>4, <1>5, OneContext DEF ContextInv

\* What goes next is needed by nothing that is left.
LEMMA TeardownOrdered ==
    ASSUME UseInv, NEW c \in Contexts, Teardown(c)
    PROVE  UseInv'
<1> USE DEF UseInv, IInv, LifeTypes, LoadTypes, Stages, loadVars
<1> DEFINE k == step[c]
<1>1. IInv' /\ LoadTypes' /\ ContextInv(c)
  BY TeardownKeeps DEF UseInv, Teardown
<1>2. /\ k \in 1..13 /\ stage[c] = "teardown"
      /\ alive' = [alive EXCEPT ![c] = @ \ TeardownOrder[k]]
      /\ UNCHANGED <<module, loadFailed, tables, registered, guest>>
  BY DEF Teardown, Releases
<1>3. alive'[c] = alive[c] \ TeardownOrder[k] /\ \A d \in Contexts \ {c} : alive'[d] = alive[d]
  BY <1>2
<1>4. \A o \in alive'[c] : Order(o) \in 1..13 /\ Order(o) > k
  BY <1>1, <1>2, <1>3, OrderOfTeardown, NeedsOutlive DEF ContextInv, ObjectsInOrder
<1>5. \A o \in alive'[c] : Needs(o) \subseteq alive'[c]
  <2> SUFFICES ASSUME NEW o \in alive'[c], NEW n \in Needs(o)
               PROVE  n \in alive'[c]
    OBVIOUS
  <2>1. o \in alive[c] /\ o \in Objects /\ n \in Objects /\ n \in alive[c]
    BY <1>1, <1>3, NeedsOutlive DEF ContextInv, ObjectsInOrder
  <2>2. Order(n) >= Order(o) /\ Order(n) \in 1..13 /\ Order(o) \in 1..13 /\ Order(o) > k
    BY <1>4, <2>1, NeedsOutlive
  <2>3. k # Order(n)
    BY <1>2, <2>2
  <2>4. n \notin TeardownOrder[k]
    BY <1>2, <2>1, <2>3, OrderOfTeardown, Zenon
  <2> QED BY <1>3, <2>1, <2>4
<1>6. /\ \/ k # 13 /\ stage'[c] = "teardown" /\ step'[c] = k + 1
         \/ k = 13 /\ stage'[c] = "none" /\ step'[c] = k
      /\ \A d \in Contexts \ {c} : stage'[d] = stage[d] /\ step'[d] = step[d]
  <2>1. CASE k = 13
    BY <1>2, <2>1, OrderOfRelease DEF Teardown
  <2>2. CASE k # 13
    BY <1>2, <2>2, OrderOfRelease DEF Teardown
  <2> QED BY <2>1, <2>2
<1>7. ObjectsInOrder(c)'
  <2>1. k = 13 => alive'[c] = {}
    BY <1>4
  <2> QED BY <1>4, <1>5, <1>6, <2>1 DEF ObjectsInOrder, Built
<1>8. Owns(c, "resolver")' => Owns(c, "resolver") /\ (Owns(c, "imports") => Owns(c, "imports")')
  <2>1. ASSUME Owns(c, "resolver")' PROVE k < 5
    BY <1>4, <2>1 DEF Owns, Order
  <2>2. k < 5 => "imports" \notin TeardownOrder[k]
    BY <1>2, OrderOfTeardown DEF Order, Objects
  <2> QED BY <1>3, <2>1, <2>2 DEF Owns
<1>9. TablesInOrder(c)'
  BY <1>1, <1>2, <1>6, <1>8 DEF ContextInv, TablesInOrder
<1>10. GuestInOrder(c)'
  BY <1>1, <1>2, <1>6 DEF ContextInv, GuestInOrder
<1> QED BY <1>1, <1>2, <1>3, <1>6, <1>7, <1>9, <1>10, OneContext DEF ContextInv

\* Every step keeps the order.
LEMMA UseInvariance == Spec => []UseInv
<1>1. Init => UseInv
  <2> SUFFICES ASSUME Init PROVE UseInv
    OBVIOUS
  <2>1. IInv
    BY InitKeeps
  <2>2. LoadTypes
    BY DEF Init, LoadTypes
  <2>3. ASSUME NEW c \in Contexts
        PROVE  ContextInv(c)
    <3>1. stage[c] = "none" /\ alive[c] = {} /\ ~guest[c]
      BY DEF Init
    <3> QED BY <3>1 DEF ContextInv, ObjectsInOrder, TablesInOrder, GuestInOrder, Built, Owns
  <2> QED BY <2>1, <2>2, <2>3 DEF UseInv
<1>2. UseInv /\ [Next]_vars => UseInv'
  <2> SUFFICES ASSUME UseInv, [Next]_vars PROVE UseInv'
    OBVIOUS
  <2>1. IInv'
    BY NextKeeps DEF UseInv
  <2>2. ASSUME UNCHANGED <<leased, stage, step, alive, loadVars, guest>>, inspecting' \subseteq Inspectors
        PROVE  UseInv'
    <3>1. LoadTypes'
      BY <2>2 DEF UseInv, LoadTypes, loadVars
    <3>2. \A c \in Contexts : ContextInv(c)'
      BY <2>2 DEF UseInv, ContextInv, ObjectsInOrder, TablesInOrder, GuestInOrder, Owns, loadVars
    <3> QED BY <2>1, <3>1, <3>2 DEF UseInv
  <2>3. ASSUME NEW c \in Contexts, InitializeMemory(c) PROVE UseInv'
    BY <2>1, <2>3, ConstructsOrdered DEF InitializeMemory, Objects, Built, Needs
  <2>4. ASSUME NEW c \in Contexts, SetupProcessor(c) PROVE UseInv'
    BY <2>1, <2>4, ConstructsOrdered DEF SetupProcessor, Objects, Built, Needs
  <2>5. ASSUME NEW c \in Contexts, InitializeThread(c) PROVE UseInv'
    BY <2>1, <2>5, ConstructsOrdered DEF InitializeThread, Objects, Built, Needs
  <2>6. ASSUME NEW c \in Contexts, LoadModule(c) PROVE UseInv'
    BY <2>1, <2>6, LoadOrdered
  <2>7. ASSUME NEW c \in Contexts, AllocateGuestMemory(c) \/ RegisterDeviceMemoryRange(c)
        PROVE  UseInv'
    BY <2>1, <2>7, UseOrdered DEF AllocateGuestMemory, RegisterDeviceMemoryRange
  <2>8. ASSUME NEW c \in Contexts, EnterGuest(c) \/ LeaveGuest(c) PROVE UseInv'
    BY <2>1, <2>8, CallsOrdered
  <2>9. ASSUME NEW x \in Inspectors, BeginInspect(x) \/ EndInspect(x) PROVE UseInv'
    BY <2>2, <2>9 DEF BeginInspect, EndInspect, UseInv, LoadTypes
  <2>10. CASE UNCHANGED vars
    BY <2>2, <2>10 DEF vars, UseInv, LoadTypes
  <2> QED BY <2>3, <2>4, <2>5, <2>6, <2>7, <2>8, <2>9, <2>10, CreateOrdered, AcquireOrdered,
             DestroyOrdered, TeardownOrdered DEF Next, Initialize
<1> QED BY <1>1, <1>2, PTL DEF Spec

-----------------------------------------------------------------------------
(* Theorems *)

\* Two contexts never have an xe::Memory at the same time, for any set of
\* contexts and any interleaving of their creation, failure and destruction.
THEOREM MemoryExclusive == Spec => []OneLeasedMemory
<1>1. IInv => OneLeasedMemory
  BY DEF IInv, MemoryUnderLease, OneLease, OneLeasedMemory
<1> QED BY <1>1, Invariance, PTL

\* The process-wide flag is set exactly while some context will clear it.
THEOREM LeaseNeverLost == Spec => []LeaseHasOwner
<1>1. IInv => LeaseHasOwner
  BY DEF IInv
<1> QED BY <1>1, Invariance, PTL

\* The lifecycle's state stays well typed, for any contexts and inspectors.
THEOREM LifecycleTyped == Spec => []TypeOK
<1>1. UseInv => TypeOK
  BY OrderOfRelease DEF UseInv, IInv, LifeTypes, LoadTypes, TypeOK
<1> QED BY <1>1, UseInvariance, PTL

\* However far a context came and however many there are, ~Impl destroys nothing
\* that what is left refers to.
THEOREM TeardownOrdersObjects == Spec => []NoDangling
<1>1. UseInv => NoDangling
  BY DEF UseInv, ContextInv, ObjectsInOrder, NoDangling
<1> QED BY <1>1, UseInvariance, PTL

\* The resolver never has a table of RuntimeImports that has been replaced or
\* destroyed.
THEOREM TablesOutliveResolver == Spec => []ResolverTablesLive
<1>1. UseInv => ResolverTablesLive
  BY DEF UseInv, ContextInv, TablesInOrder, ResolverTablesLive
<1> QED BY <1>1, UseInvariance, PTL

\* No guest code runs without its image and its watch, however loading failed.
THEOREM GuestOnMappedImage == Spec => []GuestRunsOnMappedImage
<1>1. UseInv => GuestRunsOnMappedImage
  BY DEF UseInv, ContextInv, GuestInOrder, GuestRunsOnMappedImage
<1> QED BY <1>1, UseInvariance, PTL
=============================================================================
