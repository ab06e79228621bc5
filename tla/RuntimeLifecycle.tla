-------------------------- MODULE RuntimeLifecycle --------------------------
(***************************************************************************)
(* The life of RuntimeContext::Impl (src/runtime.cpp): the process-wide    *)
(* instance lease, Initialize with its early returns, LoadModule with its  *)
(* partial failures, the check every guest call makes, and ~Impl.  Several *)
(* contexts may be created and destroyed by different threads; `alive` is  *)
(* the set of objects each one owns, and every construction and            *)
(* destruction that another object could observe is a step.                *)
(* Inspectors are concurrent calls of InspectXex (src/xex_inspect.cpp),    *)
(* which map a guest address space of their own.                           *)
(***************************************************************************)
EXTENDS Naturals, Sequences

CONSTANTS Contexts, Inspectors

VARIABLES
    leased,     \* g_instance_active
    stage,      \* how far Initialize or ~Impl has come
    step,       \* position in TeardownOrder
    alive,      \* the objects a context owns
    module,     \* module_ is not null
    loadFailed, \* load_failed_
    tables,     \* RuntimeImports objects imports_ has held so far
    registered, \* those the export resolver has table pointers to
    guest,      \* translated guest code is running
    inspecting  \* InspectXex calls that have mapped guest memory

loadVars == <<module, loadFailed, tables, registered>>
vars == <<leased, stage, step, alive, loadVars, guest, inspecting>>

Objects == {"lease", "memory", "resolver", "processor", "guard", "thread",
            "virtualMemory", "imports", "invalidation", "watch", "image",
            "allocations", "devices", "mapping", "overrides"}

MutantTeardownOrder ==
    <<{"thread"}, {"guard"}, {"processor"}, {"image"}, {"imports"}, {"memory", "mapping"},
      {"resolver"}, {"allocations"}, {"watch", "invalidation"},
      {"devices"}, {"overrides"}, {"virtualMemory"}, {"lease"}>>

\* ~Impl's body, then the members in reverse order of declaration.
TeardownOrder ==
    <<{"thread"}, {"guard"}, {"processor"}, {"image"}, {"resolver"}, {"imports"},
      {"allocations"}, {"watch", "invalidation"}, {"memory", "mapping"},
      {"devices"}, {"overrides"}, {"virtualMemory"}, {"lease"}>>

\* What an object's destructor, or a callback it has registered, dereferences.
Needs(o) ==
    CASE o = "thread"       -> {"memory", "processor"}
      [] o = "guard"        -> {"memory", "processor"}
      [] o = "processor"    -> {"memory", "resolver", "overrides"}
      [] o = "image"        -> {"memory"}
      [] o = "allocations"  -> {"memory"}
      [] o = "watch"        -> {"memory", "invalidation"}
      [] o = "mapping"      -> {"memory", "devices"}
      [] o = "memory"       -> {"lease"}
      [] OTHER              -> {}

Stages == {"none", "created", "leased", "memory", "processor", "ready", "failed",
           "teardown"}

TypeOK ==
    /\ leased \in BOOLEAN
    /\ stage \in [Contexts -> Stages]
    /\ step \in [Contexts -> 1..Len(TeardownOrder)]
    /\ alive \in [Contexts -> SUBSET Objects]
    /\ module \in [Contexts -> BOOLEAN]
    /\ loadFailed \in [Contexts -> BOOLEAN]
    /\ tables \in [Contexts -> Nat]
    /\ registered \in [Contexts -> SUBSET Nat]
    /\ guest \in [Contexts -> BOOLEAN]
    /\ inspecting \subseteq Inspectors

Owns(c, o) == o \in alive[c]

\* One part of Initialize: it constructs objs and goes on, or returns a failure.
Constructs(c, from, objs, to) ==
    /\ stage[c] = from
    /\ alive' = [alive EXCEPT ![c] = @ \cup objs]
    /\ \E next \in {to, "failed"} : stage' = [stage EXCEPT ![c] = next]
    /\ UNCHANGED <<leased, step, loadVars, guest, inspecting>>

-----------------------------------------------------------------------------
(* Create and Initialize *)

\* make_unique<Impl>.
Create(c) ==
    /\ stage[c] = "none"
    /\ stage' = [stage EXCEPT ![c] = "created"]
    /\ step' = [step EXCEPT ![c] = 1]
    /\ alive' = [alive EXCEPT ![c] = {"devices", "overrides"}]
    /\ module' = [module EXCEPT ![c] = FALSE]
    /\ loadFailed' = [loadFailed EXCEPT ![c] = FALSE]
    /\ tables' = [tables EXCEPT ![c] = 0]
    /\ registered' = [registered EXCEPT ![c] = {}]
    /\ UNCHANGED <<leased, guest, inspecting>>

MutantAcquire(c) ==
    /\ stage[c] = "created"
    /\ leased' = TRUE
    /\ stage' = [stage EXCEPT ![c] = "leased"]
    /\ alive' = [alive EXCEPT ![c] = @ \cup {"lease"}]
    /\ UNCHANGED <<step, loadVars, guest, inspecting>>

\* XeniaInstanceLease::Acquire, one compare-and-exchange.
Acquire(c) ==
    /\ stage[c] = "created"
    /\ leased' = TRUE
    /\ IF leased
       THEN stage' = [stage EXCEPT ![c] = "failed"] /\ UNCHANGED alive
       ELSE /\ stage' = [stage EXCEPT ![c] = "leased"]
            /\ alive' = [alive EXCEPT ![c] = @ \cup {"lease"}]
    /\ UNCHANGED <<step, loadVars, guest, inspecting>>

InitializeMemory(c) == Constructs(c, "leased", {"memory"}, "memory")

SetupProcessor(c) == Constructs(c, "memory", {"resolver", "processor"}, "processor")

\* The fault guard, the guest thread, then the virtual-memory service.
InitializeThread(c) ==
    Constructs(c, "processor", {"guard", "thread", "virtualMemory"}, "ready")

-----------------------------------------------------------------------------
(* A created context *)

MutantLoadStateAllows(c) == ~module[c]

\* LoadModule's first two checks.
LoadStateAllows(c) == ~loadFailed[c] /\ ~module[c]

\* LoadModule.  Refusals before `imports_` is assigned change nothing and are
\* left out.  Afterwards Attach or AddModule may fail, with the image released
\* and the tables registered; or arming the watch, with module_ set as well; or
\* the image is committed.  After a refused Arm image_address_ stays set and
\* ~Impl asks the heap once more to release what is free by then, which it
\* refuses: that call is left out.
LoadModule(c) ==
    LET generation == tables[c] + 1
        attached == alive[c] \cup {"imports"}
    IN
    /\ stage[c] = "ready"
    /\ LoadStateAllows(c)
    /\ tables' = [tables EXCEPT ![c] = generation]
    /\ registered' = [registered EXCEPT ![c] = @ \cup {generation}]
    /\ \/ /\ loadFailed' = [loadFailed EXCEPT ![c] = TRUE]
          /\ alive' = [alive EXCEPT ![c] = attached]
          /\ UNCHANGED module
       \/ /\ loadFailed' = [loadFailed EXCEPT ![c] = TRUE]
          /\ module' = [module EXCEPT ![c] = TRUE]
          /\ alive' = [alive EXCEPT ![c] = attached \cup {"invalidation"}]
       \/ /\ module' = [module EXCEPT ![c] = TRUE]
          /\ alive' = [alive EXCEPT ![c] = attached \cup {"invalidation", "watch", "image"}]
          /\ UNCHANGED loadFailed
    /\ UNCHANGED <<leased, stage, step, guest, inspecting>>

\* GuestMemory::Allocate: `allocations` is a nonempty allocations_, which Reset
\* frees.  Refusals change nothing, and releasing one leaves others.
AllocateGuestMemory(c) ==
    /\ stage[c] = "ready"
    /\ alive' = [alive EXCEPT ![c] = @ \cup {"allocations"}]
    /\ UNCHANGED <<leased, stage, step, loadVars, guest, inspecting>>

\* DeviceDispatch::Register: Xenia keeps a pointer into ranges_.
RegisterDeviceMemoryRange(c) ==
    /\ stage[c] = "ready"
    /\ alive' = [alive EXCEPT ![c] = @ \cup {"mapping"}]
    /\ UNCHANGED <<leased, stage, step, loadVars, guest, inspecting>>

MutantEnterGuest(c) ==
    /\ stage[c] = "ready"
    /\ module[c]
    /\ guest' = [guest EXCEPT ![c] = TRUE]
    /\ UNCHANGED <<leased, stage, step, alive, loadVars, inspecting>>

\* ExecuteOriginal lets a call into guest code when the drain could rearm the
\* watch, if there is one to rearm, and module_ is set.
EnterGuest(c) ==
    /\ stage[c] = "ready"
    /\ Owns(c, "invalidation") => Owns(c, "watch")
    /\ module[c]
    /\ guest' = [guest EXCEPT ![c] = TRUE]
    /\ UNCHANGED <<leased, stage, step, alive, loadVars, inspecting>>

LeaveGuest(c) ==
    /\ guest[c]
    /\ guest' = [guest EXCEPT ![c] = FALSE]
    /\ UNCHANGED <<leased, stage, step, alive, loadVars, inspecting>>

-----------------------------------------------------------------------------
(* Destruction *)

\* A failed Create destroys the Impl; the embedder destroys a context only
\* between its calls.
Destroy(c) ==
    /\ stage[c] \in {"failed", "ready"}
    /\ ~guest[c]
    /\ stage' = [stage EXCEPT ![c] = "teardown"]
    /\ UNCHANGED <<leased, step, alive, loadVars, guest, inspecting>>

MutantReleases(c) ==
    /\ alive' = [alive EXCEPT ![c] = @ \ TeardownOrder[step[c]]]
    /\ leased' = (leased /\ step[c] # Len(TeardownOrder))

\* ~XeniaInstanceLease clears the flag only if this lease holds it.
Releases(c) ==
    /\ alive' = [alive EXCEPT ![c] = @ \ TeardownOrder[step[c]]]
    /\ leased' = (leased /\ ~("lease" \in TeardownOrder[step[c]] /\ Owns(c, "lease")))

Teardown(c) ==
    /\ stage[c] = "teardown"
    /\ Releases(c)
    /\ IF step[c] = Len(TeardownOrder)
       THEN stage' = [stage EXCEPT ![c] = "none"] /\ UNCHANGED step
       ELSE step' = [step EXCEPT ![c] = @ + 1] /\ UNCHANGED stage
    /\ UNCHANGED <<loadVars, guest, inspecting>>

-----------------------------------------------------------------------------
(* InspectXex *)

BeginInspect(x) ==
    /\ x \notin inspecting
    /\ inspecting' = inspecting \cup {x}
    /\ UNCHANGED <<leased, stage, step, alive, loadVars, guest>>

EndInspect(x) ==
    /\ x \in inspecting
    /\ inspecting' = inspecting \ {x}
    /\ UNCHANGED <<leased, stage, step, alive, loadVars, guest>>

-----------------------------------------------------------------------------

Init ==
    /\ leased = FALSE
    /\ stage = [c \in Contexts |-> "none"]
    /\ step = [c \in Contexts |-> 1]
    /\ alive = [c \in Contexts |-> {}]
    /\ module = [c \in Contexts |-> FALSE]
    /\ loadFailed = [c \in Contexts |-> FALSE]
    /\ tables = [c \in Contexts |-> 0]
    /\ registered = [c \in Contexts |-> {}]
    /\ guest = [c \in Contexts |-> FALSE]
    /\ inspecting = {}

Initialize(c) ==
    Acquire(c) \/ InitializeMemory(c) \/ SetupProcessor(c) \/ InitializeThread(c)

Next ==
    \/ \E c \in Contexts :
          \/ Create(c) \/ Initialize(c) \/ LoadModule(c)
          \/ AllocateGuestMemory(c) \/ RegisterDeviceMemoryRange(c)
          \/ EnterGuest(c) \/ LeaveGuest(c) \/ Destroy(c) \/ Teardown(c)
    \/ \E x \in Inspectors : BeginInspect(x) \/ EndInspect(x)

Spec == Init /\ [][Next]_vars

-----------------------------------------------------------------------------
(* Properties *)

\* Xenia maps the guest address space at one fixed host address: whatever
\* contexts are created, fail and are destroyed concurrently, two of them never
\* have an xe::Memory at the same time, teardown included.
OneLeasedMemory ==
    \A c, d \in Contexts : Owns(c, "memory") /\ Owns(d, "memory") => c = d

\* The lease is never lost: when the flag is set some context will clear it.
\* A context that failed to acquire does not clear another's flag.
LeaseHasOwner == leased <=> \E c \in Contexts : Owns(c, "lease")

\* Construction, every early return and destruction keep the order ~Impl is
\* written for: no live object refers to one already destroyed.
NoDangling == \A c \in Contexts : \A o \in alive[c] : Needs(o) \subseteq alive[c]

\* The export resolver's raw table pointers stay valid: after a partial load
\* the RuntimeImports they point into is never replaced or destroyed first.
ResolverTablesLive ==
    \A c \in Contexts :
        Owns(c, "resolver") => /\ registered[c] \subseteq {tables[c]}
                               /\ registered[c] # {} => Owns(c, "imports")

\* Guest code runs only while its image is mapped and its code is watched, also
\* on a context whose LoadModule failed after setting module_.
GuestRunsOnMappedImage ==
    \A c \in Contexts : guest[c] => Owns(c, "image") /\ Owns(c, "watch")
=============================================================================
