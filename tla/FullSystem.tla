----------------------------- MODULE FullSystem -----------------------------
(***************************************************************************)
(* The windowed host with the title it runs: the UI thread, the emulator   *)
(* thread and the session of WindowedSystem, the title's guest threads in  *)
(* and out of native overrides (SystemCalls), and the reader that          *)
(* on_launched gave the session to, which measures frames (FrameIntervals).*)
(* Guest threads run from the resume of the main thread until the process  *)
(* ends, and an override that fails on any of them ends it.                *)
(***************************************************************************)
EXTENDS WindowedSystem

CONSTANTS Threads, Sites, MaxCalls, BucketCount, Fractions, Rounding, Width,
          MaxIntervals

ASSUME FullAssumption ==
    /\ MaxCalls \in Nat
    /\ "kReturnAddress" \notin Sites
    /\ BucketCount \in Nat \ {0}
    /\ 2^Width \in Nat
    /\ \A f \in Fractions : f[1] \in Nat \ {0} /\ f[2] \in Nat /\ f[1] <= f[2]
    /\ MaxIntervals \in 0..(2^Width - 1)
    /\ Rounding \in Nat /\ MaxIntervals < Rounding

VARIABLES calls, sp, lr, buckets, earlier, latest

Calls == INSTANCE SystemCalls
Frames == INSTANCE FrameIntervals

callVars == <<calls, sp, lr>>
frameVars == <<buckets, earlier, latest>>
titleVars == <<callVars, frameVars>>
fullVars == <<vars, titleVars>>

FullTypeOK == TypeOK /\ Calls!CallsTypeOK

TitleRuns == process = "running" /\ guest \in {"running", "exited"}

\* Every step of the hosts, the player and the title's end.
HostStep ==
    /\ \/ MainThread
       \/ CloseWindow
       \/ EmulatorThread
       \/ (TitleExits \/ OtherOwner) /\ UNCHANGED uiVars
    /\ UNCHANGED titleVars

\* Guest threads make override calls only in a title that has some.
GuestThread(t) ==
    /\ TitleRuns
    /\ installed > 0
    /\ Calls!CallStep(t)
    /\ UNCHANGED <<vars, frameVars>>

\* DispatchGuest hands the failure to the sink the session bound.
OverrideFails(t) ==
    /\ Calls!FailOverride(t)
    /\ EndTitleAfterOverrideFailure
    /\ UNCHANGED <<uiVars, titleVars>>

CountPresent == TitleRuns /\ Frames!Present /\ UNCHANGED <<vars, callVars>>

\* The reader has the session since on_launched was called with it.
ReadFrames ==
    /\ process = "running"
    /\ emu \in {"waiting", "done"} /\ launchedFlag
    /\ Frames!TakeSnapshot
    /\ UNCHANGED <<vars, callVars>>

FullInit == Init /\ Calls!CallsInit /\ Frames!FramesInit

FullNext ==
    \/ HostStep
    \/ \E t \in Threads : GuestThread(t) \/ OverrideFails(t)
    \/ CountPresent
    \/ ReadFrames

\* The host threads are scheduled as in WindowedSystem; no guest thread, reader
\* or present is obliged to happen.
FullSpec ==
    /\ FullInit
    /\ [][FullNext]_fullVars
    /\ WF_fullVars(MainThread /\ UNCHANGED titleVars)
    /\ WF_fullVars(EmulatorThread /\ UNCHANGED titleVars)

-----------------------------------------------------------------------------
(* Properties *)

\* The properties of the parts, of the composed system.
HandlersKeepRegisters == Calls!HandlersKeepRegisters
WindowsPartitionIntervals == Frames!WindowsPartitionIntervals
QuantilesCover == Frames!QuantilesCover
=============================================================================
