# A TLA+ development of x360port

x360port embeds the Xenia emulator as a library.  It has two embeddings.  The *leaf runtime*
(`RuntimeContext`) executes guest functions of one authenticated image on the embedder's thread and is
used to qualify native overrides.  The *full system* (`SystemSession`, `RunWindowedSystem`) boots a whole
title with kernel, GPU, audio and input.  This directory models both: what each part keeps, which calls
and callbacks change it, in which order, and what must hold whatever the guest, the embedder, the
player and Xenia do.  Paths below are relative to the repository root (`src/src/runtime.cpp` in `PROJECT.json` is
`src/runtime.cpp` here).

## 1. Inventory

| Component | State | Operations | What makes it correct |
|---|---|---|---|
| Guest calls (`src/runtime.cpp`, `guest_execution*`, `guest_call_frame.hpp`, `override_dispatch.cpp`, `interpreter_fallback.cpp`, `guest_fault_guard.cpp`) | the host stack of nested calls, the thread-local budget scope, guest stack pointer, override entries and Xenia's redirect table | `Execute`, `CallOriginal`, `CallOriginalBody`, override and import dispatch, fault claims, `InstallOverride`, `RemoveOverride` | a scope belongs to its call; a failure comes out of the host call; a call ends unless overrides call originals for ever |
| Executable invalidation (`src/executable_invalidation.cpp`) | one coalesced pending range, Xenia's watch, the translations | write callback, drain, rearm, `NotifyExecutableWrite` | outdated machine code is never entered or continued |
| Runtime lifecycle (`src/runtime.cpp`, `xenia_instance_lease.cpp`, `guest_thread_context.cpp`) | the members alive, the process-wide lease, module and failure flags | `Create`, `LoadModule`, use, destruction | one Xenia memory at a time; no member outlives what it refers to; no guest on an unmapped image |
| Imports (`src/import_claims.cpp`, `module_validation.cpp`, `runtime_imports.cpp`) | resolved claims, bindings, export tables, thunks | `Resolve`, `Apply`, `Clear`, validation, `Create`, `Attach` | every import reaches its own service |
| Title memory and devices (`src/guest_memory.cpp`, `device_dispatch.cpp`) | tracked allocations, device ranges | allocate, release, owned and mapped access, register | no access outside a live allocation, or behind a device's callbacks |
| Kernel virtual memory (`src/guest_virtual_memory.cpp`) | none of its own: Xenia's heap | `NtAllocate-`, `NtFree-`, `NtQueryVirtualMemory` | committed pages are zero, live data survives, failed calls change nothing |
| Full-system session (`src/system/system_session.cpp`) | lease, emulator, activation, launched flag | `Initialize`, `Launch`, `OnLaunch`, `HoldMainThread`, destruction | a refused title never runs, overrides come first, no teardown under a guest |
| Windowed host (`src/system/system_window_gtk.cpp`) | two host threads, posted functions, the launched flag | `RunWindowedSystem`, `OnClosing` | the run ends, and the session outlives its users |
| Desktop input (`src/desktop_input.cpp`, `src/system/desktop_capture_gtk.cpp`) | key words, buttons, travel, capture flags, all relaxed atomics | window events, `TakeSnapshot` | travel counted once, no stuck keys |
| Controller input (`src/system/system_input_driver.cpp`, `pad_merge.cpp`) | last published pad, packet number | `GetState`, `Merge` | packet and state move together; an answer is what the devices reported, no more and no less |
| Full-system guest calls (`src/system/system_call_context.cpp`, `src/override_dispatch.cpp`) | on each guest thread, its own stack: the registers a `GuestCallFrame` saved | `DispatchGuest`, `CallOriginalBody`, the unscoped failure handler | a handler gets its caller's registers back; a failure ends the title once |
| Frame intervals (`src/system/frame_intervals.cpp`) | wrapping counts per bucket | `Record`, `Since`, `Quantile` | windows partition the intervals; a quantile covers its share |
| XEX inspection (`src/xex_inspect.cpp`, `xex_imports.cpp`, `xex_helpers.cpp`, `pe_image.cpp`) | the file, a guest memory of the call's own, a copy of the image | `InspectXex` and its stages | the report says what the loader's image said, though the copy is rewritten as it is read |
| XAM controller services, digests, typed errors, tools | none | | see *Not modelled* |

How they interact: `Execute` drains the invalidation's pending range, then looks up the override table or
enters Xenia; translated code calls back into overrides, imports and the write watch, which mark the *innermost*
budget scope; overrides call back into the runtime.  `LoadModule` runs validation, then import tables and
attachment, then the watch; the manifest it validates is usually what an inspection has reported.  The kernel services are claims like any
other.  Session and runtime share one lease.  The windowed host runs the session on a second thread, and Xenia's own launch thread calls the
session back; the title's guest threads enter overrides, end the title when one fails, and poll the input driver, which reads the desktop
state the UI thread writes; a reader takes frame snapshots of the session that `on_launched` gave it.

Hard to test, and hence what the properties are for: nesting of scopes with failures
at every level; stores that outdate code on the stack; the drain's timing; failures between any two steps of
creation, loading and launching; the races of the window's closing, the launch and the title's exit; torn
snapshots and out-of-order merges; sums at the ends of ranges.  `PROJECT.json` lists each hazard at its line.

## 2. Modules

Proof modules extend the module they are about; MC modules give constants values.

| Module | Models | Runs | Proofs |
|---|---|---|---|
| `GuestCalls` | guest calls and executable invalidation, together | `guest_calls`, `guest_calls_any_handler`, `guest_calls_swallow` | `GuestCallsProofs` |
| `TitleRun` | the abstract specification of a windowed run | refined in `full_system` | `FullSystemProofs` |
| `SystemSession` | the session; no `Next` of its own | through `WindowedSystem` | `FullSystemProofs` |
| `WindowedSystem` | extends `SystemSession` with the two host threads | `closing_ends_run`, and through `FullSystem` | `FullSystemProofs` |
| `SystemCalls` | overrides and original calls on the guest threads | through `FullSystem` | `FullSystemProofs` |
| `FrameIntervals` | counts, snapshots, windows, quantiles | through `FullSystem` | `FullSystemProofs` |
| `FullSystem` | composes the three above | `full_system` | `FullSystemProofs` |
| `RuntimeLifecycle` | several contexts, the lease, the inspector | `runtime_lifecycle` | `RuntimeLifecycleProofs` |
| `XexInspection` | one inspection, stage by stage | through `InspectedImports` | `InspectedImportsProofs` |
| `ImportBinding` | claims, validation, tables, attachment | through `InspectedImports` | `InspectedImportsProofs` |
| `InspectedImports` | composes inspection and binding | `inspected_imports` | `InspectedImportsProofs` |
| `TitleMemory` | allocations, accesses of embedder and imports, device ranges | `title_memory` | `TitleMemoryProofs` |
| `GuestVirtualMemory` | kernel allocation and free over a heap | `guest_virtual_memory`, `commit_observes_zero` | `GuestVirtualMemoryProofs` |
| `DesktopInput` | events, atomics, torn snapshots | `desktop_input` | `DesktopInputProofs` |
| `PadMerge` | concurrent polls and the merger | `pad_merge` | `PadMergeProofs` |

Three specifications of the leaf runtime lean on each other without being composed: `GuestCalls` starts where `RuntimeLifecycle`'s `LoadModule`
has succeeded (the watch armed, the module registered), and `RuntimeLifecycle` takes from it only that a guest call begins and ends;
`ImportBinding` is the inside of one stage of `LoadModule`.

### GuestCalls

`stack` is the host call stack, one record per activation: a *call* being resolved, an *exec* scope
(`ExecuteGuestFunction` with its budget scope), a *guest* function in translated code, a native *handler*, an *import*
or the *interpreter*.  `active` is `active_guest_execution_budget`.  A guest activation remembers whether its machine
code has been outdated since it was entered.  Stores fault at most once per armed page; the callback merges the whole range between
the lowest and highest write, as the packed `pending_write_` does.  Blocks, not instructions, are the grain of
guest execution: the budget is charged there and an exit reason is seen there.  `HandlersPropagate` and `RearmMayFail`
select the embedder and the Xenia of a run: a handler may answer a failed original call with success, which
the interface allows, and Xenia may refuse to rearm the watch.

### SystemSession and WindowedSystem

`phase` is how far `Initialize` and `Launch` have come on the emulator thread, `guest` and `suspends` the title's main thread.
Title activation runs inside `LaunchPath`, before Xenia resumes the thread.  `main` and `emu` are the program counters
of `RunWindowedSystem`'s threads, `posted` the UI functions waiting, `launchedFlag` the atomic.  The player may close the window at any
time.  `OtherOwner` is another holder of the lease in the process.

### TitleRun

What `include/x360port/system_session.hpp` promises the caller of `RunWindowedSystem`, in four variables: the title (loaded, cleared or refused,
running, exited), whether the launch is through, whether the session was offered, and the outcome.  `WindowedSystem` defines `Title` and
`Outcome` from its threads and the session's phases and instantiates `TitleRun` with them; `KeepsRunPromise` is the abstract
specification of those values.  A thread that exists but is held is *loaded* until the activation is through with every override
installed, and only then *cleared*: the hold on the main thread, the order of installation and the checks of `Launch` are what makes every
step map.

### SystemCalls, FrameIntervals, FullSystem

A guest thread's state is its nested overrides and originals with the registers each `GuestCallFrame` saved, its stack pointer (counted in frames)
and its link register.  Translated code may move both as the calling convention lets it.  `FailOverride` has no scope to tell, so
`FullSystem` joins it with `EndTitleAfterOverrideFailure` of the session.  `Quantile` and `Since` are the code's computations on counts that
wrap at `Width` bits.  In `FullSystem` guest threads run from the resume of the main thread until the process ends, and the reader from the
call of `on_launched`.

### RuntimeLifecycle

`alive[c]` is the set of members of a context that exist; `Needs` is which refers to which, `TeardownOrder` the order of
`~Impl`; every stage of `Create` and `LoadModule` may fail, and a failed `Create` destroys what exists.  Teardown is one
step per member, so that two contexts and an inspector interleave with it.

### XexInspection, ImportBinding, InspectedImports

`XexInspection` takes a file as what Xenia's loader and the header's tables say of it: the image, sizes, names, record lists, sections.  `ParseLibrary` reads a
library's records from the copy and then rewrites them in it, so later libraries read what earlier ones have written; any refusal unloads the module.
Words are four bytes, so that the byte order of a rewritten record is visible.  `imports` keeps each import at its place in the file, library
and record.  `InspectedImports` hands a finished report to `ImportBinding` as the manifest, in an order that validation accepts: the
sorting is the embedder's.  Or it starts the binding from any other manifest.

A manifest is a sequence of imports with library, ordinal, kind and addresses in a small image.  Nothing is
assumed of it: `Validate` refuses what `ValidateModule` refuses, and the properties are about what is left.  The embedder's
walk may make mistakes, which `ValidateImports` is there for.  `Attach` goes import by import; `mapping` is what `SetFunctionMapping`
and `SetVariableMapping` have set on the export the resolver *finds*, which need not be the one meant.

### TitleMemory, GuestVirtualMemory

Words, pages and heaps of a small address space.  `copied` records the words of the last `memcpy`, so that what an access
touches is compared with who owns it and not with the check that let it through; an import handler's access goes
through the checks of its context, which are written apart from `GuestMemory`'s and ask no device range.  In `GuestVirtualMemory` `commit` records what
the last call newly committed and what was live, and `dirty` the pages whose bytes are not all zero.

### DesktopInput, PadMerge

Each relaxed atomic access is a step of its own; a snapshot's reads may come in any order, a release's stores
are made in program order by the single UI thread.  In `PadMerge` the two readings of a poll and the merge are three
steps of each polling thread, and only the last is under the mutex.  `shown` remembers what the devices have reported since a thread's poll began, and `numbered` and
`answer` what was given out.

## 3. What the runs show, and their bounds

| Run | States | Question |
|---|---|---|
| `guest_calls` | 2.4 million | With handlers that pass failures on, even when the watch cannot be rearmed: machine code that a write has outdated is never executed further (`NoStaleExecution`), the scopes match the calls (`ScopesMatchStack`), and no failure is lost (`FailuresReachHost`). |
| `guest_calls_any_handler` | 0.72 million | With handlers that may swallow failures: whatever is outdated is pending (`StaleIsPending`), an `Execute` never enters it (`NoStaleEntry`), and every host call in which overrides make finitely many original calls returns (`HostCallsReturn`). |
| `guest_calls_swallow` | violation | After a swallowed failure the guest calls a function that is still under the pending range. |
| `full_system` | 0.32 million | With guest threads, failing overrides and a frame reader: the run keeps its abstract promise (`KeepsRunPromise`), nothing is torn down under a guest, the callback's session stays valid, handlers get their registers back, windows partition the intervals and quantiles cover, failed and launched runs end. |
| `closing_ends_run` | violation | Closing the window during the launch hangs the process. |
| `runtime_lifecycle` | 15 thousand | One leased memory, the lease never lost, no dangling reference in any teardown, no guest without image and watch. |
| `inspected_imports` | 1.0 million | All XEX files of one library with up to three records or of two with up to two each, and variants with bad sizes, names, entries and sections: reports match the loader's image, each word is rewritten once, no helper is found in the words of a stub.  All manifests of up to two of nine imports and all sorted ones of three, inspected or not, all lists of up to two claims, resolved, refused, cleared and applied in any order, all modelled mistakes: in a loaded module each function import calls its own service, each record holds its own value and no stub of the inspection is left to be called. |
| `title_memory` | 0.24 million | The books agree with the heap; owned accesses stay in the title's blocks, mapped and import accesses in one heap, mapped ones off the devices. |
| `guest_virtual_memory` | 8 thousand | Uniform commits are zeroed and lose nothing; failed calls leave the heap alone. |
| `commit_observes_zero` | violation | A commit over a mixed range leaves stale bytes. |
| `desktop_input` | 0.87 million | Travel is delivered once, no key sticks, capture flags agree. |
| `pad_merge` | 0.37 million | Under concurrent polls and devices that come and go a packet number belongs to one pad and moves exactly with the state of one user (`SamePacketSamePad`, `PacketTracksState`); what each poll returns is driven by two readings the devices gave during it (`EitherDeviceDrives`). |

Why the bounds are enough.  Two functions on two pages are the least with a caller and a callee, a range that
covers a function nobody wrote, and a page re-armed while the other is not; stack depth 6 holds a host call, an override, its
original call and another override inside it.  Two contexts and one inspector are all the pairs the lease can meet.  Two overrides
show a partial installation.  Three pages show a mixed range with an end on either side.  Three imports are two libraries of which one has a neighbour, and only a sorted manifest gets past validation.  `Rounding` is
51 in place of 2^53, so that of two intervals 51 and 52 hundredths may round either way.  An image of twelve words holds two thunks, their records,
a record inside a thunk, a thunk too near the end and a helper between them; two libraries are what one rewriting under another needs.  Two guest threads
with three nested calls hold an override, its original and an override of that, next to another thread's; two intervals in three buckets give windows of none, one and
two, in the open bucket and out of it.  One reader suffices in `desktop_input`
since readers share nothing but the counters they exchange; the theorem `TravelAccounted` covers any number.  Every bound
(`MaxDepth`, `MaxCalls`, `MaxIntervals`, `MaxMoves`, `MaxChanges`, `MaxClaims`, `MaxSize`, `MaxAllocations`, `MaxDevices`) is named in its module as one.

Deadlock is checked except in `inspected_imports`, where a loaded or refused module is the end, in `full_system`, where the process is, and in
`guest_calls_swallow`, which stops at the depth bound.

Each property has a mutant: a plausible bug in one mapped definition (a dropped guard, a missing reset, an order swapped), next to the definition
it mutates, under which TLC finds that property violated.

### Fairness

`GuestCalls`: the host thread keeps running, and overrides, imports and the interpreter's bounded loop return; nothing is assumed of the
guest, which may loop and call for ever.  That the block budgets end such a guest is what `HostCallsReturn` says of every
host call in which overrides make finitely many original calls.  The condition is needed: each scoped original gets an `ExecutionLimits` of its own
(`src/runtime.cpp:471`), so a guest that recurses through an override and its original, or an override that calls originals in a loop, is ended by no budget.  Nothing in
the model but the depth of the stack bounds those calls.
`WindowedSystem` and `FullSystem`: the UI thread and the emulator thread are scheduled.  The player need not close the window, the title need not
exit, no guest thread, reader or present is obliged to happen, and Xenia's environment steps have no fairness.

### Disagreements found

Shown by runs:

* `closing_ends_run`: the comment at `src/system/system_window_gtk.cpp:147` says the UI loop ends before the launch only when the
  emulator thread has ended it; `QuitOnClose` ends it as well, and the join then waits for a title nothing stops.
* `guest_calls_swallow`: `docs/codemap.md:16` promises a drain before the next guest-call boundary; the drain is only in host calls.
* `commit_observes_zero`: `src/guest_virtual_memory.cpp:111` says a commit observes zeroed pages; the first page decides for all.

Reachable in the models and not run as properties of their own: a scoped original call gets a whole default budget, so that overrides that call originals for ever strand the host call, although
`include/x360port/runtime.hpp:68` counts blocks across nested calls and has the default limit keep a guest from stranding the embedding thread; a launch refused after guest threads exist ends the process in `~Impl`, although
`include/x360port/system_session.hpp:219` has the call return; `InspectXex` makes an `xe::Memory` without the lease that
`src/xenia_instance_lease.hpp:7` asks of every owner; a snapshot torn by a release can hold travel of a pointer it calls uncaptured,
against `include/x360port/desktop_input.hpp:95`; and one merger serves all user indices, so polling two users moves the packet number of
`src/system/pad_merge.hpp:16` without a change (`pad_merge` has one user for that reason); the image of an inspection is the
canonicalized copy, although `include/x360port/xex_inspect.hpp:55` and the repository's `README.md:56` have it exactly as the loader leaves it; a record address
listed by two libraries is read byte-swapped the second time (`ReportsMatchLoader` leaves such files out); an import handler's access reaches memory behind
a device range, which `GuestMemory` refuses; and the comment at `src/system/system_session.cpp:348` has a refused title torn down,
while destruction after `Launch` ends the process.  A variable's record may lie inside another import's stub.  Its turned bytes can
then read as one of the words of a helper pattern, so `HelpersOutsideStubs` leaves such words out; `NoStubLeftBehind` does as well, since
nothing writes the record of a function import again.  Also seen in the code: validation refuses two imports at one address but not two thunks
four bytes apart, one of which `Attach` then overwrites in part (`src/module_validation.cpp:128`); no manifest that the run gets past validation has such a pair.

## 4. Proofs

All by TLAPS, for every value of the constants that satisfies the named assumptions of the modules (`GuestCallsAssumption`, `NumOverridesAssumption`,
`FullAssumption`, `DesktopInputAssumption`, `PadMergeAssumption`, `TitleMemoryAssumption`, `NumPagesAssumption`, `ImportBindingAssumption`, `InspectedAssumption`;
`RuntimeLifecycle` needs none).  They state the domains of the constants.  Beyond that: `FullAssumption` has counts that do not wrap twice and are less than `Rounding` (2^53 in the code), so that a count is
a double and a product of one is right to one part in `Rounding`;
`GuestCallsAssumption` a function and a default budget, as the code refuses an empty code range and has a constant for the budget;
`TitleMemoryAssumption` heaps that are runs of pages, as Xenia's are; `ImportBindingAssumption` export names that are not the four this model has for the embedder's
own handlers and for claims without a handler or a declared name; and `InspectedAssumption` a name for each library of a file and helper patterns without a `nop` or `blr`, which is so of all of
`src/xex_helpers.cpp`.  Every safety invariant and action property of the runs is stated by a theorem.

* `GuestCallsProofs`.  `StackInv` says which activation may lie under which, that `active` is the last exec of the stack and how the guest
  stack pointers descend; `CodeTypes` the domains of the code state.  `TypeCorrect` and `ScopesCorrect` follow.  Its first lemmas
  say what pushing, popping and updating the top of such a stack preserve, so that each action's step is short.
  `TablesAgree`: `entries_` and Xenia's redirects (`OneOverrideTable`).  `WritesNeverLost`: `StaleIsPending` assuming `~RearmMayFail`; its invariant
  adds that a page whose watch is spent has its translated functions pending, which is why a second, unseen store to the page loses nothing.

  Then the two properties that a test reaches least.  Every action is first classified (`StepKinds`): it leaves the code alone, runs the
  top of the stack, drains, or stores.  `Good` says how activations may follow each other, and that an exec marked with an override's failure has its result set.  `FailureInv` then
  says that an unreported failure is carried by some frame down to the first (`FailInv`), that outdated code lies only in guest calls bound to fail
  (`StaleInv`), that between a write and the next drain the innermost guest call is failing (`CleanInv`), that a call is resolved only after a drain that rearmed
  (`CallInv`), and what the cache holds of unwatched pages is pending (`CacheInv`).  The parts need each other: a store into an unwatched page is
  harmless only because the first store to that page has made the call fail.  With `HandlersPropagate`: `FailuresReachTheHost` and `OutdatedCodeStops`, whatever
  Xenia refuses.  With `~RearmMayFail` and any handlers: `EntriesAreCurrent`.
* `FullSystemProofs`, the windowed host.  One invariant for the session (which phases have the lease, an emulator, a guest and how many suspends), one for the
  threads (which program counters go with which phase), one for the posts (`PostedInv`: each thread waits for what it posted).  From it: `TypeCorrect`, `RefusalHolds`,
  `OverridesFirst`, `LeaseHeld` (`EmulatorHoldsLease`), `TeardownSafe`, `SessionStaysValid`, and `RunImplemented`: `WindowedSystem` implements
  `TitleRun`.  Each action maps to one abstract step or a stutter.  The hard ones are the resume, which may only happen to a cleared title, the
  launch's return, and `ReturnFailure`, which must find no title.
* `FullSystemProofs`, the composition.  A step of it is a step of the hosts, of one guest thread, of an override that fails, of a present or of the reader.  The
  first keeps the windowed host's invariant by its own proof; a failing override is `EndTitleAfterOverrideFailure`, which it also covers.  `CallsInv` says that each
  activation on a thread's stack was entered with the registers of the one below (`Nested`), which is what makes a destroyed frame restore the handler's.
  Hence `FullTypeCorrect`, `RegistersKept`, `FullRunImplemented`, `FullTeardownSafe`, `FullSessionValid`.
* `FullSystemProofs`, the frame counts.  `Seen` and `Count` are folds.  `SumTakes` (any element may be taken out first), `SumAgrees`, `SumAdds` and `SumOver` are proved by
  induction over the subsets of the buckets (`SubsetInduction`).  `FramesInv`: each snapshot is bucket by bucket at most the next, and the sum of the running counts
  is within the bound, so that no modular difference wraps.  Hence `WindowsAddUp`, and with `RanksAreShares`, which says how far a rank may be from the share it
stands for, and the least bucket `QuantilesAreTight`.
* `RuntimeLifecycleProofs`.  `MemoryExclusive` and `LeaseNeverLost` for any number of contexts: the lease flag is set exactly if one context owns it, and a context
  that owns a memory owns the lease.  `UseInv` adds, for each context, that what exists is closed under `Needs` and that the teardown has removed exactly what `TeardownOrder`
  places before its step; since everything an object needs has a later place (`NeedsOutlive`), nothing dangles wherever creation stopped.
  Hence `LifecycleTyped`, `TeardownOrdersObjects`, `TablesOutliveResolver`, `GuestOnMappedImage`.
* `InspectedImportsProofs`, the inspection.  `XexInv` follows the copy of the image through the stages: whatever is rewritten is a listed record or in a stub (`OthersKept`), and one
  of an import already reported (`ImportsKept`); a stub's words that are no record are `nop` or `blr` (`StubsMade`); an import is what the loader's image says, while records are listed once
  (`ImportsMatch`); and each word has been rewritten once where stubs lie apart (`RewrittenOnce`).  The loop over a library's records is a fold: `FoldIsSteps` and `StepsExist` make a recursive function of it,
  `LibraryRewrites` says what it leaves of the image, by `PlacesInduction`.  Hence `InspectionInvariant`, `ReportsAreTrue`, `ImportsRewrittenOnce`, and, since no helper pattern contains a `nop` or `blr`, `NoHelperInStubs`.
* `InspectedImportsProofs`, the binding.  A valid manifest is sorted, so the imports of a library are consecutive (`LibrariesTogether`) and one table starts for each (`OneStart`); hence the resolver, asked for an
  import of a registered table, finds that import and no other (`LookupFinds`).  `BindInv` says that the claim table is that of the last accepted
  resolution and each binding's handler the one that is due (`BindingsMade`), and what `Attach` has done up to `next`: each import is mapped to itself (`Attached`), and what was
  written for one import no later one has taken away (`MemoryWritten`), for which validation must have kept the addresses apart (`Validated`).  Hence `BindingInvariant`, `InspectedTypes`, `TablesAreDistinct`,
  `ImportsCallTheirService`, `VariablesHoldTheirValue`, and with `ReportStated`, which ties the report to the manifest, `StubsAreReplaced`.
* `TitleMemoryProofs`.  `TitleInv`: blocks of the heap are whole pages that do not overlap (`HeapInv`), each allocation is one of them and nothing of the title is left without a runtime (`BooksInv`).
  An access that its checks let through lies in one block, or in one run of pages of one heap, so its words are those of that block or heap and of no device.  Hence `TitleInvariant`, `BooksAgreeWithHeap`,
  `OwnedStayOwned`, `MappedAreChecked`.
* `GuestVirtualMemoryProofs`.  A page has a region exactly while it is not free.  `VirtualMemoryInvariant`, `UniformCommitsAreZeroed` and `FailuresChangeNothing` for a heap of any size: every path
  of the two services either returns a status and leaves the heap alone, or ends in `FinishAllocation`, where the first page speaks for the range when the range is uniform.
* `DesktopInputProofs`.  `TravelAccounted` for any readers and key words: the count is kept by every step, an exchange moving the whole value.
  `ReleaseInv`: without the focus, whatever is still set is about to be cleared by a store the handler has yet to make.  Hence `KeysNeverStick`, `CaptureKept`; with
  the count, `InputTypeCorrect`.
* `PadMergeProofs`.  `NumberInv`: a number is handed out together with `last_`, and the greatest one belongs to it; `ReadInv`: what a poll carries its device
  reported since the poll began; `ReadingsDrive`: what two readings make is driven by them, also when one is disconnected.  Hence `PadTypeCorrect`, `PacketsIdentifyPads`, `NoDeviceIsLost`.  `AnswerInv`: the last answer to the user is what the merger holds, which is so while only one user is polled.
  Hence `PacketsTrackTheState` under that hypothesis; for two users the property is false (see *Disagreements found*).

Induction over data: the library's induction theorems take an operator and cannot be used, but the strict-subset order of a finite set is well founded, and `WFMin` takes sets only.  `SubsetInduction`
and `PlacesInduction` are proved from it, and so is the existence of the recursive functions that the folds stand for.

Only model-checked: liveness under fairness (`HostCallsReturn`, `FailureEndsRun`, `LaunchedRunEnds`), which is outside the prover, and what the violating runs show.

## 5. What is assumed of code outside the repository

Xenia's write watch reports once per armed page and the range it reports covers the store; removing a function takes its translation from the cache,
and machine code already running is not replaced.  An epilogue exit returns to the caller's block boundary.  Functions posted to the UI after it quit are
refused.  The launch thread resumes the main thread after `on_launch`.  A heap keeps the bytes of pages it decommits or releases, and releases a
region whole.  The resolver searches tables in registration order by library.  A system-heap block is whole pages, and each heap is one run of addresses.  Translated code of a full system
leaves r1 and lr as the calling convention lets it.  Xenia's loader leaves the PE header outside the words that imports rewrite, and the header's
base is the loader's, which the code does not compare.

In the C++ of `GetState` the order of the two readings is unspecified: the model takes the title first, and the property does not depend on it.  The leaf
runtime's guest calls are on one host thread.  The rank of a quantile is whichever whole number a double may make of the share of the count: the share
rounded up, or the number just below it within one part in `Rounding`.  The fraction is the double itself: what is read as 7 hundredths is a little more.  A snapshot of the
counts is one step where the code copies bucket by bucket, and counts stay within `MaxIntervals`, so that none wraps.  The code range of an image is the hull of its code sections, as the code has it
(`DescribeLoadedPeImage` of `src/pe_image.cpp`), although `include/x360port/pe_image.hpp:23` speaks of what executes.

## 6. Not modelled

* `XamInputService`, digests, typed errors and the names of exports: stateless computations on data.
* The JIT's statistics, counters, captures and log lines, which are only read.
* Byte-level rounding, large pages and protection of the virtual-memory services; `NtQueryVirtualMemory`, which changes nothing.
* The dispatch of device callbacks and its counters; a guest that frees, through the kernel services, a block the title was given; hence `Allocate` never
  meets its branch for an address tracked already.
* The fields of XEX headers and of PE headers beyond sizes, names, records and sections: each check passes or refuses.
* Pointer positions and the recentring warp; `~DesktopInputCapture`; a compare-exchange that loses a race in the write callback.
* Rumble and capabilities of a controller, which are forwarded to the host driver; the wrap of the 32-bit packet number.
* `applied_`, the count of an `ImportClaimTable`, which nothing but its accessor reads; calls of `Resolve` and `Clear` after `LoadModule` has begun, when nothing reads the table.
* `~Impl`'s second release of an image that a refused `Arm` has released already, which the heap refuses.
* GTK, SDL, Vulkan and Xenia themselves; build tools.

## 7. Plan

Done: guest calls, windowed system, lifecycle, input, kernel memory, imports, title memory; then guest threads and frame intervals composed with the
windowed system, its abstract specification, inspection composed with binding, and the proofs of section 4, which state every safety property of the runs.

Next, modelling: (1) `TitleMemory` and `GuestVirtualMemory` over one heap, with a guest that frees what the title was given; (2) an abstract specification of a
guest call (call, then one answer, with no outdated code between) which `GuestCalls` implements; (3) the XAM input handlers inside
`ImportBinding`'s services; (4) pointer positions and the warp in `DesktopInput`; (5) request rounding as a function against a reference definition.

Next, proving: what the additions above will need; that `GuestCalls` implements its abstract specification, from `FailureInv`; and the enabling conditions that `FailureEndsRun` and `LaunchedRunEnds`
rest on, as state predicates (some thread can always go on), with the liveness itself left to TLC.
