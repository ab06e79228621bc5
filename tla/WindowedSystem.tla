--------------------------- MODULE WindowedSystem ---------------------------
(***************************************************************************)
(* RunWindowedSystem (src/system/system_window_gtk.cpp): the process's main*)
(* thread runs the GTK loop while the emulator thread initializes and      *)
(* launches the session; the player may close the window at any time.      *)
(* Xenia's WindowedAppContext is external: functions posted to the UI      *)
(* thread run there in order, quitting runs what has been posted, and      *)
(* after it has quit it refuses further functions.                         *)
(***************************************************************************)
EXTENDS SystemSession, Sequences

VARIABLES
    main,         \* the main thread
    emu,          \* the emulator thread, besides the session's own phase
    posted,       \* functions waiting for the UI thread
    hasQuit,      \* WindowedAppContext::has_quit_
    windowClosed, \* the player closed the window
    launchedFlag  \* the atomic `launched` the two threads share

uiVars == <<main, emu, posted, hasQuit, windowClosed, launchedFlag>>
vars == <<sessionVars, uiVars>>

Posts == {"SetPresenter", "Quit"}

TypeOK ==
    /\ SessionTypeOK
    /\ main \in {"start", "loop", "check", "join", "destroy", "returned"}
    /\ emu \in {"none", "session", "presenting", "launching", "launched", "waiting", "done"}
    /\ posted \in Seq(Posts)
    /\ hasQuit \in BOOLEAN
    /\ windowClosed \in BOOLEAN
    /\ launchedFlag \in BOOLEAN

Main(s) == process = "running" /\ main = s
Emu(s) == process = "running" /\ emu = s

\* CallInUIThread: refused once the UI loop has quit.
Post(function) == posted' = IF hasQuit THEN posted ELSE Append(posted, function)

-----------------------------------------------------------------------------
(* The main thread *)

\* GTK, the window and the session object; any refusal returns at once.
OpenWindow ==
    /\ Main("start")
    /\ \/ main' = "loop" /\ emu' = "session"
       \/ main' = "returned" /\ UNCHANGED emu
    /\ UNCHANGED <<sessionVars, posted, hasQuit, windowClosed, launchedFlag>>

\* QuitFromUIThread runs the functions still posted, among them a SetPresenter
\* the emulator thread may be waiting for, and ends the loop.
QuitFromUIThread ==
    /\ hasQuit' = TRUE
    /\ posted' = <<>>
    /\ emu' = IF emu = "presenting" THEN "launching" ELSE emu
    /\ main' = "check"

RunPosted ==
    /\ Main("loop")
    /\ posted # <<>>
    /\ IF Head(posted) = "Quit" THEN QuitFromUIThread
       ELSE /\ posted' = Tail(posted)
            /\ emu' = "launching"
            /\ UNCHANGED <<main, hasQuit>>
    /\ UNCHANGED <<sessionVars, windowClosed, launchedFlag>>

\* QuitOnClose::OnClosing.
CloseWindow ==
    /\ Main("loop")
    /\ windowClosed' = TRUE
    /\ QuitFromUIThread
    /\ UNCHANGED <<sessionVars, launchedFlag>>

MutantCheckLaunched ==
    /\ Main("check")
    /\ main' = "join"
    /\ UNCHANGED <<sessionVars, emu, posted, hasQuit, windowClosed, launchedFlag>>

\* The loop has ended: with the flag set the process ends here.
CheckLaunched ==
    /\ Main("check")
    /\ IF launchedFlag
       THEN EndProcess("success") /\ UNCHANGED main
       ELSE main' = "join" /\ UNCHANGED sessionVars
    /\ UNCHANGED <<emu, posted, hasQuit, windowClosed, launchedFlag>>

JoinEmulatorThread ==
    /\ Main("join")
    /\ emu = "done"
    /\ main' = "destroy"
    /\ UNCHANGED <<sessionVars, emu, posted, hasQuit, windowClosed, launchedFlag>>

\* `return failure` destroys `owner` on the way out.
ReturnFailure ==
    /\ Main("destroy")
    /\ DestroySession
    /\ main' = IF launched THEN main ELSE "returned"
    /\ UNCHANGED <<emu, posted, hasQuit, windowClosed, launchedFlag>>

-----------------------------------------------------------------------------
(* The emulator thread *)

RunInitialize ==
    /\ Emu("session")
    /\ Initialize
    /\ UNCHANGED uiVars

\* CallInUIThreadSynchronous(SetPresenter): waits unless it is refused.
Present ==
    /\ Emu("session")
    /\ phase = "ready"
    /\ Post("SetPresenter")
    /\ emu' = IF hasQuit THEN "launching" ELSE "presenting"
    /\ UNCHANGED <<sessionVars, main, hasQuit, windowClosed, launchedFlag>>

RunLaunch ==
    /\ Emu("launching")
    /\ Launch
    /\ UNCHANGED uiVars

MutantReportFailure ==
    /\ process = "running"
    /\ emu \in {"session", "launching"}
    /\ phase = "failed"
    /\ emu' = "done"
    /\ UNCHANGED <<posted, sessionVars, main, hasQuit, windowClosed, launchedFlag>>

\* A failure posts the quit and ends the thread.
ReportFailure ==
    /\ process = "running"
    /\ emu \in {"session", "launching"}
    /\ phase = "failed"
    /\ Post("Quit")
    /\ emu' = "done"
    /\ UNCHANGED <<sessionVars, main, hasQuit, windowClosed, launchedFlag>>

PublishLaunched ==
    /\ Emu("launching")
    /\ phase = "launched"
    /\ launchedFlag' = TRUE
    /\ emu' = "launched"
    /\ UNCHANGED <<sessionVars, main, posted, hasQuit, windowClosed>>

\* on_launched(owner) returns and WaitUntilExit begins.
CallOnLaunched ==
    /\ Emu("launched")
    /\ emu' = "waiting"
    /\ UNCHANGED <<sessionVars, main, posted, hasQuit, windowClosed, launchedFlag>>

WaitUntilExit ==
    /\ Emu("waiting")
    /\ guest = "exited"
    /\ Post("Quit")
    /\ emu' = "done"
    /\ UNCHANGED <<sessionVars, main, hasQuit, windowClosed, launchedFlag>>

-----------------------------------------------------------------------------

Init ==
    /\ SessionInit
    /\ main = "start"
    /\ emu = "none"
    /\ posted = <<>>
    /\ hasQuit = FALSE
    /\ windowClosed = FALSE
    /\ launchedFlag = FALSE

MainThread == OpenWindow \/ RunPosted \/ CheckLaunched \/ JoinEmulatorThread \/ ReturnFailure

EmulatorThread ==
    \/ RunInitialize \/ Present \/ RunLaunch \/ ReportFailure
    \/ PublishLaunched \/ CallOnLaunched \/ WaitUntilExit

Next ==
    \/ MainThread
    \/ CloseWindow
    \/ EmulatorThread
    \/ Environment /\ UNCHANGED uiVars

\* Both host threads keep running.  The player need not close the window, the
\* title need not exit, and other owners are free to do nothing.
Spec == Init /\ [][Next]_vars /\ WF_vars(MainThread) /\ WF_vars(EmulatorThread)

-----------------------------------------------------------------------------
(* What the run promises *)

\* The title as the caller knows it: a held thread is cleared once the
\* activation is through without a refusal and every override is installed.
Title ==
    IF guest = "absent" THEN "none"
    ELSE IF guest # "suspended" THEN guest
    ELSE IF activation = "refused" THEN "refused"
    ELSE IF phase = "activated" /\ installed = NumOverrides THEN "cleared" ELSE "loaded"

Outcome ==
    IF process # "running" THEN process
    ELSE IF main = "returned" THEN "returned" ELSE "pending"

Run == INSTANCE TitleRun
       WITH title <- Title, committed <- launched, offered <- launchedFlag, outcome <- Outcome

-----------------------------------------------------------------------------
(* Properties *)

Over == process # "running" \/ main = "returned"

\* The session handed to on_launched "stays valid until the process ends".
SessionOutlivesCallback == launchedFlag => phase # "destroyed" /\ main # "returned"

\* The threads, the window and the launch together keep what the header
\* promises: only a title that passed its identity check and has all its
\* overrides runs, "a title that fails the identity check or refuses an override
\* never executes a guest instruction", on_launched receives "the running
\* session", and the call "returns only when the session could not start".
KeepsRunPromise == Run!Spec

\* A session that fails to start does not hang: the UI loop is told to quit,
\* the emulator thread is joined, and the call returns or the process ends.
FailureEndsRun == phase = "failed" ~> Over

\* Once the launch has been published to the main thread before it looked, the
\* title's exit and the end of the UI loop both end the process.
LaunchedRunEnds ==
    (launchedFlag /\ main \in {"loop", "check"} /\ (guest = "exited" \/ hasQuit)) ~> Over

\* "once the title runs, the process ends when the player closes the window or
\* the title exits" (include/x360port/system_session.hpp:219-221).
ClosingEndsRun == windowClosed ~> Over
=============================================================================
