----------------------------- MODULE SystemCalls -----------------------------
(***************************************************************************)
(* Override calls on the guest threads of a full system                    *)
(* (src/system/system_call_context.cpp, src/override_dispatch.cpp and      *)
(* src/guest_call_frame.hpp).  Every thread may enter an override, and     *)
(* SystemCallContext "holds no per-call state": what an original call has  *)
(* to keep is the stack pointer and link register of the calling thread,   *)
(* in a GuestCallFrame on that thread's own stack.  A thread's state is    *)
(* those two registers and its nested calls; translated code is external   *)
(* and moves both registers as the PowerPC calling convention lets it.     *)
(***************************************************************************)
EXTENDS Naturals, Sequences

CONSTANTS
    Threads,  \* guest threads of the title
    Sites,    \* return addresses of the title's calls
    MaxCalls  \* bound: nested overrides and originals of one thread

VARIABLES
    calls, \* per thread: the overrides and original bodies it is inside of
    sp,    \* per thread: r1, as the number of frames below the thread's first
    lr     \* per thread: lr

callVars == <<calls, sp, lr>>

\* No return address of the title's own.
kReturnAddress == "kReturnAddress"

Links == Sites \cup {kReturnAddress}

\* A handler with the registers its caller left, or an original body with the
\* registers its GuestCallFrame saved.
Activations == [kind : {"override", "original"}, sp : Nat, lr : Links]

CallsTypeOK ==
    /\ calls \in [Threads -> Seq(Activations)]
    /\ sp \in [Threads -> Nat]
    /\ lr \in [Threads -> Links]

Top(t) == calls[t][Len(calls[t])]
InHandler(t) == calls[t] # <<>> /\ Top(t).kind = "override"
InGuestCode(t) == ~InHandler(t)
InOriginal(t) == calls[t] # <<>> /\ Top(t).kind = "original"

Activation(kind, r1, link) == [kind |-> kind, sp |-> r1, lr |-> link]
Registers(t, r1, link) == sp' = [sp EXCEPT ![t] = r1] /\ lr' = [lr EXCEPT ![t] = link]
Enter(t, activation) == calls' = [calls EXCEPT ![t] = Append(@, activation)]
Leave(t) == calls' = [calls EXCEPT ![t] = SubSeq(@, 1, Len(@) - 1)]

CallsInit ==
    /\ calls = [t \in Threads |-> <<>>]
    /\ sp = [t \in Threads |-> 0]
    /\ lr \in [Threads -> Sites]

-----------------------------------------------------------------------------

\* The stack pointer with which the guest code on top was entered.
EntryFrame(t) == IF calls[t] = <<>> THEN 0 ELSE Top(t).sp + 1

\* DispatchGuest: translated code, with a frame of its own or as a leaf in the
\* one it was entered with, branches to an overridden address.
DispatchGuest(t) ==
    /\ InGuestCode(t)
    /\ Len(calls[t]) < MaxCalls
    /\ \E own \in {0, 1}, site \in Sites :
          /\ Registers(t, EntryFrame(t) + own, site)
          /\ Enter(t, Activation("override", EntryFrame(t) + own, site))

\* The handler answers, and the caller goes on.
ReturnFromOverride(t) ==
    /\ InHandler(t)
    /\ Leave(t)
    /\ UNCHANGED <<sp, lr>>

\* The handler fails; no scope waits for it, so DispatchGuest calls the sink.
FailOverride(t) ==
    /\ InHandler(t)
    /\ UNCHANGED callVars

\* The frame's constructor: both registers are saved, a frame is opened below
\* the handler's caller and the body is told to return out of Xenia's call.
GuestCallFrame(t) ==
    /\ Registers(t, sp[t] + 1, kReturnAddress)
    /\ Enter(t, Activation("original", sp[t], lr[t]))

\* CallOriginalBody on the thread that entered the override.  Without translated
\* code or with more than eight arguments it is refused before the frame exists.
CallOriginalBody(t) ==
    /\ InHandler(t)
    /\ Len(calls[t]) < MaxCalls
    /\ GuestCallFrame(t)

MutantLeaveOriginal(t) ==
    /\ Leave(t)
    /\ Registers(t, Top(t).sp, lr[t])

\* The frame's destructor, on every way out of CallOriginalBody.
LeaveOriginal(t) ==
    /\ Leave(t)
    /\ Registers(t, Top(t).sp, Top(t).lr)

\* The body returns through its kReturnAddress, or Xenia refuses to go on with
\* it; either way the frame is destroyed with whatever registers it finds.
ReturnFromOriginal(t) == InOriginal(t) /\ LeaveOriginal(t)

CallStep(t) ==
    \/ DispatchGuest(t) \/ ReturnFromOverride(t)
    \/ CallOriginalBody(t) \/ ReturnFromOriginal(t)

-----------------------------------------------------------------------------
(* Properties *)

\* "One instance serves every guest thread at once": however the threads'
\* calls interleave and nest, an override that called the original body, and
\* whatever overrides that body entered, has its caller's stack pointer and
\* return address back when it goes on.
HandlersKeepRegisters ==
    \A t \in Threads : InHandler(t) => sp[t] = Top(t).sp /\ lr[t] = Top(t).lr
=============================================================================
