----------------------------- MODULE GuestCalls -----------------------------
(***************************************************************************)
(* The leaf runtime's guest-call machinery: RuntimeContext's Execute,      *)
(* CallOriginal and CallOriginalBody (src/runtime.cpp), the bounded guest  *)
(* call of src/guest_execution.cpp with its RAII scopes, native override   *)
(* dispatch (src/override_dispatch.cpp), typed import dispatch             *)
(* (src/runtime_imports.cpp), the interpreter fallback, the fault guard    *)
(* and the executable-write watch that keeps Xenia's translation cache     *)
(* coherent (src/executable_invalidation.cpp).                             *)
(*                                                                         *)
(* Everything runs on one thread; what makes it hard is re-entrance.  A    *)
(* host call enters translated guest code, which enters a native override, *)
(* which calls the original body, which enters guest code again.  `stack`  *)
(* is that host call stack, innermost activation last:                     *)
(*   call     ExecuteOriginal after its drain, about to resolve the body   *)
(*   exec     an activation of ExecuteGuestFunction (one budget scope)     *)
(*   guest    a translated guest function running under the exec below it  *)
(*   handler  a native override, entered from the host or from guest code  *)
(*   import   a host import handler entered from guest code                *)
(*   interp   the bounded interpreter, for a body Xenia cannot translate   *)
(* Guest code is a set of functions laid out in address order on pages.    *)
(***************************************************************************)
EXTENDS Naturals, Sequences

CONSTANTS
    NumFunctions,      \* guest functions 1..NumFunctions, in address order
    Pages,             \* watch pages the authenticated code range spans
    PageOf,            \* the page of each function
    HostBudgets,       \* max_guest_blocks values the embedder passes
    DefaultBudget,     \* ExecutionLimits{}.max_guest_blocks
    HandlersPropagate, \* handlers return the failure of an original call they made
    RearmMayFail,      \* Xenia may refuse EnableVirtualMemoryAccessCallbacks
    MaxDepth           \* bound: activations on the host call stack

Functions == 1..NumFunctions

\* An entry address outside the authenticated code range.
OutsideCode == 0

ASSUME GuestCallsAssumption ==
    /\ NumFunctions \in Nat \ {0}
    /\ PageOf \in [Functions -> Pages]
    /\ HostBudgets \subseteq Nat
    /\ DefaultBudget \in Nat \ {0}
    /\ HandlersPropagate \in BOOLEAN
    /\ RearmMayFail \in BOOLEAN
    /\ MaxDepth \in Nat

VARIABLES
    cached,     \* functions that have machine code in Xenia's cache
    stale,      \* of those, the ones whose guest bytes changed since translation
    watched,    \* pages whose next write reaches OnVirtualWrite (one shot)
    pending,    \* functions under the coalesced range in pending_write_
    overrides,  \* OverrideDispatch::entries_
    redirects,  \* functions whose slot in Xenia's call indirection is redirected
    stack,      \* the host call stack
    active,     \* active_guest_execution_budget: index of an exec, 0 is null
    sp,         \* context.r[1], in call frames below the thread's stack base
    hostResult, \* what the embedder's last call returned, "ok" during a call
    failed      \* history: something below the current host call failed

codeVars == <<cached, stale, watched, pending>>
tableVars == <<overrides, redirects>>
scopeVars == <<active, sp>>
vars == <<codeVars, tableVars, stack, scopeVars, hostResult, failed>>

-----------------------------------------------------------------------------
(* Types *)

Errors == {"ExecutableWatchRearmFailed", "EntryOutsideCode", "InterpreterFallback",
           "ExecutionBudgetInvalid", "ExecutionFailed", "ExecutionInvalidated",
           "ImportServiceRefused", "GuestAccessViolation",
           "ExecutionBudgetExceeded", "TitleFailure"}

Results == {"ok"} \cup Errors

\* GuestExecutionExitReason.
Reasons == {"None", "ExecutableWriteObserved", "HostServiceRefused",
            "NativeOverrideFailed", "GuestAccessViolation",
            "BlockBudgetExceeded"}

Frames == [kind   : {"call", "exec", "guest", "handler", "import", "interp"},
           fn     : Functions,
           stale  : BOOLEAN,                      \* guest: runs outdated machine code
           block  : {"before", "inside", "acted"}, \* guest: where it is
           blocks : Nat,     \* exec: blocks left; call: limit
           reason : Reasons, \* exec: exit_reason
           result : Results, \* exec: override_failure; handler: first nested failure
           prev   : Nat,     \* exec: previous_active_
           psp    : Nat]     \* exec: previous_stack_pointer_

Frame(kind, f) ==
    [kind |-> kind, fn |-> f, stale |-> FALSE, block |-> "before", blocks |-> 0,
     reason |-> "None", result |-> "ok", prev |-> 0, psp |-> 0]

TypeOK ==
    /\ cached \subseteq Functions
    /\ stale \subseteq cached
    /\ watched \subseteq Pages
    /\ pending \subseteq Functions
    /\ overrides \subseteq Functions
    /\ redirects \subseteq Functions
    /\ stack \in Seq(Frames)
    /\ active \in Nat
    /\ sp \in Nat
    /\ hostResult \in Results
    /\ failed \in BOOLEAN

-----------------------------------------------------------------------------
(* The call stack *)

Depth == Len(stack)
Top == stack[Depth]
Below == SubSeq(stack, 1, Depth - 1)

TopIs(kind) == stack # <<>> /\ Top.kind = kind

\* Title code runs: the embedder itself, or a native override it installed.
NativeCodeRuns == stack = <<>> \/ TopIs("handler")

\* Generated code runs: nothing has asked the innermost guest call to exit.
GuestCodeRuns == TopIs("guest") /\ stack[active].reason = "None"

\* A call returns r to the activation on top of stk, or to the embedder.
\* `before` says whether something had failed earlier in the same host call.
ReturnTo(stk, r, before) ==
    /\ stack' = IF stk = <<>> THEN stk
                ELSE [stk EXCEPT ![Len(stk)].result = IF @ = "ok" THEN r ELSE @]
    /\ hostResult' = IF stk = <<>> THEN r ELSE hostResult
    /\ failed' = (before \/ r # "ok")

MutantMark(stk, reason, failure) ==
    IF active = 1 /\ stk[active].reason = "None"
    THEN [stk EXCEPT ![active].reason = reason, ![active].result = failure]
    ELSE stk

\* The MarkGuest... functions: the first reason wins, and only the ACTIVE
\* budget, the one of the innermost guest call, is marked.
Mark(stk, reason, failure) ==
    IF active # 0 /\ stk[active].reason = "None"
    THEN [stk EXCEPT ![active].reason = reason, ![active].result = failure]
    ELSE stk

-----------------------------------------------------------------------------
(* Executable writes *)

OnPage(p) == {f \in Functions : PageOf[f] = p}

\* The min/max merge of RecordVirtualWrite also covers what lies in between.
Hull(S) == {f \in Functions : \E lo, hi \in S : lo <= f /\ f <= hi}

\* Activations running f's old machine code keep running it.
Outdated(stk, f) ==
    <<>> \o [i \in 1..Len(stk) |->
        IF stk[i].kind = "guest" /\ stk[i].fn = f
        THEN [stk[i] EXCEPT !.stale = TRUE] ELSE stk[i]]

MutantRecordVirtualWrite(p) ==
    /\ watched' = watched \ {p}
    /\ pending' = OnPage(p)

\* Xenia calls back for the page a write faulted on, and has stopped watching
\* that page when it does.
RecordVirtualWrite(p) ==
    /\ watched' = watched \ {p}
    /\ pending' = Hull(pending \cup OnPage(p))

\* A store on this thread that changes the bytes of f.
StoreTo(f, stk) ==
    /\ stale' = stale \cup ({f} \cap cached)
    /\ IF PageOf[f] \in watched
       THEN /\ RecordVirtualWrite(PageOf[f])
            /\ stack' = Mark(Outdated(stk, f), "ExecutableWriteObserved", "ok")
            /\ failed' = (failed \/ active # 0)
       ELSE /\ stack' = Outdated(stk, f)
            /\ UNCHANGED <<watched, pending, failed>>
    /\ UNCHANGED <<cached, tableVars, scopeVars, hostResult>>

\* ExecutableInvalidation::Notify removes the cached functions in S.
Notify(S) ==
    /\ cached' = cached \ S
    /\ stale' = stale \ S

MutantDrainObservedWrites(rearmed) ==
    /\ pending' = {}
    /\ watched' = IF rearmed THEN Pages ELSE watched
    /\ UNCHANGED <<cached, stale>>

\* Takes pending_write_, removes the functions under it, and rearms the watch,
\* which Xenia may refuse: then the range has been taken all the same.
DrainObservedWrites(rearmed) ==
    /\ pending' = {}
    /\ Notify(pending)
    /\ watched' = IF rearmed THEN Pages ELSE watched

-----------------------------------------------------------------------------
(* Calls into guest code *)

\* ExecuteOriginal up to the code-range check, called by the activation on top
\* of stk.
ExecuteOriginal(f, blocks, stk, before) ==
    /\ \/ /\ RearmMayFail
          /\ DrainObservedWrites(FALSE)
          /\ ReturnTo(stk, "ExecutableWatchRearmFailed", before)
       \/ /\ f = OutsideCode
          /\ DrainObservedWrites(TRUE)
          /\ ReturnTo(stk, "EntryOutsideCode", before)
       \/ /\ f \in Functions
          /\ Len(stk) + 2 <= MaxDepth
          /\ DrainObservedWrites(TRUE)
          /\ stack' = Append(stk, [Frame("call", f) EXCEPT !.blocks = blocks])
          /\ failed' = before
          /\ hostResult' = "ok"
    /\ UNCHANGED <<tableVars, scopeVars>>

\* RuntimeContext::Execute: an overridden entry runs its handler at once, with
\* no budget and no drain.
Execute(f, limit) ==
    /\ stack = <<>>
    /\ \/ /\ f \in overrides
          /\ stack' = <<Frame("handler", f)>>
          /\ failed' = FALSE
          /\ hostResult' = "ok"
          /\ UNCHANGED <<codeVars, tableVars, scopeVars>>
       \/ /\ f \notin overrides
          /\ ExecuteOriginal(f, limit, <<>>, FALSE)

\* RuntimeContext::CallOriginal from the embedder.
CallOriginal(f, limit) ==
    /\ stack = <<>>
    /\ ExecuteOriginal(f, limit, <<>>, FALSE)

\* RuntimeContext::CallOriginalBody from an override, which may make any number
\* of them: each has a default budget of its own, whatever is left of the
\* caller's.
CallOriginalBody(f) ==
    /\ TopIs("handler")
    /\ ExecuteOriginal(f, DefaultBudget, stack, failed)

\* The rest of ExecuteOriginal with a translation.  ExecuteGuestFunction returns
\* at once for a zero budget, for more than eight arguments, or when Xenia
\* refuses the call; otherwise it opens its budget scope and call frame and
\* calls the body.
EnterTranslated ==
    /\ TopIs("call")
    /\ cached' = cached \cup {Top.fn}
    /\ \/ /\ ReturnTo(Below, IF Top.blocks = 0 THEN "ExecutionBudgetInvalid"
                             ELSE "ExecutionFailed", failed)
          /\ UNCHANGED scopeVars
       \/ /\ Top.blocks # 0
          /\ stack' = Below \o
                 <<[Frame("exec", Top.fn) EXCEPT !.blocks = Top.blocks,
                                                 !.prev = active, !.psp = sp],
                   [Frame("guest", Top.fn) EXCEPT !.stale = Top.fn \in stale]>>
          /\ active' = Depth
          /\ sp' = sp + 1
          /\ UNCHANGED <<hostResult, failed>>
    /\ UNCHANGED <<stale, watched, pending, tableVars>>

\* The rest of ExecuteOriginal when Xenia produced no machine code: the
\* interpreter reads guest memory itself and opens no budget scope.
EnterInterpreter ==
    /\ TopIs("call")
    /\ Top.fn \notin cached
    /\ stack' = Append(Below, Frame("interp", Top.fn))
    /\ UNCHANGED <<codeVars, tableVars, scopeVars, hostResult, failed>>

LeaveInterpreter(r) ==
    /\ TopIs("interp")
    /\ ReturnTo(Below, r, failed)
    /\ UNCHANGED <<codeVars, tableVars, scopeVars>>

MutantLeaveExec(r) ==
    /\ ReturnTo(SubSeq(stack, 1, active - 1), r, failed)
    /\ active' = 0
    /\ sp' = stack[active].psp

\* ExecuteGuestFunction returns: both scopes restore what they replaced.
LeaveExec(r) ==
    /\ ReturnTo(SubSeq(stack, 1, active - 1), r, failed)
    /\ active' = stack[active].prev
    /\ sp' = stack[active].psp

-----------------------------------------------------------------------------
(* Generated code *)

MutantEnterBlock ==
    /\ GuestCodeRuns
    /\ IF stack[active].blocks = 0
       THEN /\ stack' = Mark(stack, "BlockBudgetExceeded", "ok")
            /\ failed' = TRUE
       ELSE /\ stack' = [stack EXCEPT ![Depth].block = "inside"]
            /\ UNCHANGED failed
    /\ UNCHANGED <<codeVars, tableVars, scopeVars, hostResult>>

\* The prologue Xenia emits for a basic block charges the active budget.
EnterBlock ==
    /\ GuestCodeRuns
    /\ IF stack[active].blocks = 0
       THEN /\ stack' = Mark(stack, "BlockBudgetExceeded", "ok")
            /\ failed' = TRUE
       ELSE /\ stack' = [stack EXCEPT ![active].blocks = @ - 1, ![Depth].block = "inside"]
            /\ UNCHANGED failed
    /\ UNCHANGED <<codeVars, tableVars, scopeVars, hostResult>>

\* A block performs at most one of the operations below: a longer block is
\* several of the model's.
InsideBlock == GuestCodeRuns /\ Top.block = "inside"
Acted == [stack EXCEPT ![Depth].block = "acted"]

GuestStore(f) ==
    /\ InsideBlock
    /\ StoreTo(f, Acted)

\* A compiled call goes through the indirection slot: to the override when the
\* slot is redirected, to the cached body, or to the resolve thunk.
GuestCall(f) ==
    /\ InsideBlock
    /\ Depth < MaxDepth
    /\ IF f \in redirects
       THEN /\ stack' = Append(Acted, Frame("handler", f))
            /\ UNCHANGED cached
       ELSE /\ stack' = Append(Acted, [Frame("guest", f) EXCEPT !.stale = f \in stale])
            /\ cached' = cached \cup {f}
    /\ UNCHANGED <<stale, watched, pending, tableVars, scopeVars, hostResult, failed>>

GuestCallsImport ==
    /\ InsideBlock
    /\ Depth < MaxDepth
    /\ stack' = Append(Acted, Frame("import", Top.fn))
    /\ UNCHANGED <<codeVars, tableVars, scopeVars, hostResult, failed>>

\* GuestFaultGuard::Claim: a fault in generated code becomes an exit reason.
GuestFault ==
    /\ InsideBlock
    /\ stack' = Mark(stack, "GuestAccessViolation", "ok")
    /\ failed' = TRUE
    /\ UNCHANGED <<codeVars, tableVars, scopeVars, hostResult>>

GuestReturn ==
    /\ GuestCodeRuns
    /\ Top.block # "before"
    /\ IF active = Depth - 1
       THEN LeaveExec("ok")
       ELSE stack' = Below /\ UNCHANGED <<scopeVars, hostResult, failed>>
    /\ UNCHANGED <<codeVars, tableVars>>

\* The typed failure ExecuteGuestFunction maps an exit reason to.
FailureOf(exec) ==
    CASE exec.reason = "ExecutableWriteObserved" -> "ExecutionInvalidated"
      [] exec.reason = "HostServiceRefused"      -> "ImportServiceRefused"
      [] exec.reason = "NativeOverrideFailed"    -> exec.result
      [] exec.reason = "GuestAccessViolation"    -> "GuestAccessViolation"
      [] OTHER                                   -> "ExecutionBudgetExceeded"

\* Once a reason is set, the guards Xenia emits after a store, a call and a
\* block entry leave every guest function of the innermost call.
ExitGuestCall ==
    /\ TopIs("guest")
    /\ stack[active].reason # "None"
    /\ LeaveExec(FailureOf(stack[active]))
    /\ UNCHANGED <<codeVars, tableVars>>

-----------------------------------------------------------------------------
(* Native code *)

\* What a handler may answer.  One that propagates returns the first failure of
\* the original calls it made.
HandlerAnswers ==
    IF HandlersPropagate /\ Top.result # "ok" THEN {Top.result}
    ELSE {"ok", "TitleFailure", Top.result}

MutantDispatchGuest(r) ==
    /\ TopIs("handler")
    /\ stack' = Below
    /\ failed' = (failed \/ r # "ok")
    /\ UNCHANGED <<codeVars, tableVars, scopeVars, hostResult>>

\* A handler entered from guest code returns: success sets r3, a failure marks
\* the caller's budget.
DispatchGuest(r) ==
    /\ TopIs("handler")
    /\ stack' = IF r = "ok" THEN Below ELSE Mark(Below, "NativeOverrideFailed", r)
    /\ failed' = (failed \/ r # "ok")
    /\ UNCHANGED <<codeVars, tableVars, scopeVars, hostResult>>

HandlerReturn ==
    /\ TopIs("handler")
    /\ \E r \in HandlerAnswers :
          IF Depth = 1
          THEN /\ ReturnTo(<<>>, r, failed)
               /\ UNCHANGED <<codeVars, tableVars, scopeVars>>
          ELSE DispatchGuest(r)

\* DispatchFunction: an import handler returns, or refuses its service.
ImportReturn ==
    /\ TopIs("import")
    /\ \/ stack' = Below /\ UNCHANGED failed
       \/ stack' = Mark(Below, "HostServiceRefused", "ok") /\ failed' = TRUE
    /\ UNCHANGED <<codeVars, tableVars, scopeVars, hostResult>>

\* The embedder, a handler, an import or the interpreter stores to guest code.
NativeStore(f) ==
    /\ NativeCodeRuns \/ TopIs("import") \/ TopIs("interp")
    /\ StoreTo(f, stack)

NotifyExecutableWrite(lo, hi) ==
    /\ NativeCodeRuns
    /\ lo <= hi
    /\ Notify(lo..hi)
    /\ UNCHANGED <<watched, pending, tableVars, stack, scopeVars, hostResult, failed>>

\* The entry stays only if Xenia installs the redirect.
InstallOverride(f) ==
    /\ NativeCodeRuns
    /\ f \notin overrides
    /\ \/ overrides' = overrides \cup {f} /\ redirects' = redirects \cup {f}
       \/ UNCHANGED tableVars
    /\ UNCHANGED <<codeVars, stack, scopeVars, hostResult, failed>>

RemoveOverride(f) ==
    /\ NativeCodeRuns
    /\ f \in overrides
    /\ \/ overrides' = overrides \ {f} /\ redirects' = redirects \ {f}
       \/ UNCHANGED tableVars
    /\ UNCHANGED <<codeVars, stack, scopeVars, hostResult, failed>>

-----------------------------------------------------------------------------

\* A context whose LoadModule has succeeded: the watch is armed.
Init ==
    /\ cached = {}
    /\ stale = {}
    /\ watched = Pages
    /\ pending = {}
    /\ overrides = {}
    /\ redirects = {}
    /\ stack = <<>>
    /\ active = 0
    /\ sp = 0
    /\ hostResult = "ok"
    /\ failed = FALSE

HostCall(f, limit) == Execute(f, limit) \/ CallOriginal(f, limit)

\* Everything but the start of a host call and the entry of a block.
OtherStep ==
    \/ \E f \in Functions \cup {OutsideCode} : CallOriginalBody(f)
    \/ EnterTranslated
    \/ EnterInterpreter
    \/ \E r \in {"ok", "InterpreterFallback"} : LeaveInterpreter(r)
    \/ GuestReturn
    \/ ExitGuestCall
    \/ GuestCallsImport
    \/ GuestFault
    \/ HandlerReturn
    \/ ImportReturn
    \/ \E f \in Functions :
          \/ GuestStore(f)
          \/ GuestCall(f)
          \/ NativeStore(f)
          \/ InstallOverride(f)
          \/ RemoveOverride(f)
    \/ \E lo, hi \in Functions : NotifyExecutableWrite(lo, hi)

Next ==
    \/ \E f \in Functions \cup {OutsideCode}, limit \in HostBudgets : HostCall(f, limit)
    \/ EnterBlock
    \/ OtherStep

Spec == Init /\ [][Next]_vars

\* The host thread keeps running; overrides, imports and the interpreter return.
Fairness ==
    /\ WF_vars(EnterTranslated \/ EnterInterpreter)
    /\ WF_vars(LeaveInterpreter("ok"))
    /\ WF_vars(EnterBlock \/ GuestReturn \/ ExitGuestCall)
    /\ WF_vars(HandlerReturn)
    /\ WF_vars(ImportReturn)

FairSpec == Spec /\ Fairness

-----------------------------------------------------------------------------
(* Properties *)

\* Every translation whose guest bytes have changed lies under the pending
\* coalesced range, so the next drain removes it: the one-shot page watch, the
\* min/max merge and the drain never lose a write to translated code.
StaleIsPending == stale \subseteq pending

\* A guest call is resolved only after its drain: ExecuteOriginal never hands
\* the embedder's or an override's call to an outdated translation.
NoStaleEntry == TopIs("call") => Top.fn \notin stale

\* Generated code that is still allowed to run is current: an executable write
\* made anywhere in a nest of calls stops every activation it outdates.
NoStaleExecution == GuestCodeRuns => ~Top.stale

\* The recorded writes are drained before the next guest-call boundary, as
\* docs/codemap.md:16 states: no guest call enters a function that lies under
\* the pending range.
DrainedBeforeGuestCall ==
    TopIs("guest") /\ Top.block = "before" => Top.fn \notin pending

\* active_guest_execution_budget always designates the innermost live guest
\* call and never a destroyed budget, and the guest stack pointer is down by one
\* frame for each live guest call.
ScopesMatchStack ==
    LET execs == {i \in DOMAIN stack : stack[i].kind = "exec"} IN
    /\ active = 0 => execs = {}
    /\ active # 0 => active \in execs /\ \A i \in execs : i <= active
    /\ \A i \in execs : stack[i].psp < sp
    /\ stack = <<>> => sp = 0

\* With overrides that pass failures on, nothing that fails below a host call
\* is lost: the embedder's call does not report success after a refused import,
\* a failed override, an exhausted budget, a fault or an observed write.
FailuresReachHost == stack = <<>> /\ failed => hostResult # "ok"

\* Host entry (entries_) and cached guest callers (the redirected slots) go
\* through one override table, also after Xenia refuses a redirect.
OneOverrideTable == overrides = redirects

OriginalCall == \E f \in Functions \cup {OutsideCode} : CallOriginalBody(f)

\* A host call in which overrides make finitely many original calls returns: the
\* block budgets of ExecuteGuestFunction bound all guest execution in and
\* between them.  Overrides that call originals for ever, in a loop or by a
\* recursion through guest code, are ended by no budget (src/runtime.cpp:471).
HostCallsReturn == <>[][~OriginalCall]_vars => []<>(stack = <<>>)
=============================================================================
