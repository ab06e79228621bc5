-------------------------- MODULE FullSystemProofs --------------------------
(***************************************************************************)
(* The safety of a windowed session, for any number of overrides and every *)
(* interleaving of the UI loop, the emulator thread, the player, the title *)
(* and other owners of the instance lease; then that of the composed       *)
(* system, which does to the windowed host only what the windowed host     *)
(* does, so that what is proved of it holds with any number of guest       *)
(* threads, each of which keeps its registers, and with a reader whose     *)
(* windows of the frame counts add up.                                     *)
(***************************************************************************)
EXTENDS FullSystem, FiniteSetTheorems, TLAPS

Early == {"new", "valid", "leased", "stored", "composed", "signedIn", "ready"}
Launching == {"loaded", "installing", "refused", "activated", "returned"}

-----------------------------------------------------------------------------
(* The windowed host: its inductive invariant *)

\* The lease is taken before the emulator exists and outlives it.
LeaseInv ==
    /\ emulator => lease = "held"
    /\ phase \in {"leased", "stored"} => lease = "held"
    /\ phase \in {"composed", "signedIn", "ready", "launched"} \cup Launching => emulator

\* The main thread appears with the load, suspended once; a refusal suspends it
\* a second time, before the emulator's one resume.
GuestInv ==
    /\ guest # "absent" => phase \in Launching \cup {"launched", "failed"} /\ emulator
    /\ phase \in Early => activation = "none" /\ failure = "none"
    /\ phase \in {"loaded", "installing"} => activation = "none"
    /\ phase = "refused" => activation = "refused"
    /\ phase \in {"loaded", "installing", "refused"} => guest = "suspended" /\ suspends = 1
    /\ phase = "activated" =>
          /\ guest = "suspended"
          /\ suspends = IF activation = "refused" THEN 2 ELSE 1
          /\ activation = "none" => installed = NumOverrides
    /\ activation = "refused" => guest = "suspended"
    /\ guest \in {"running", "exited"} =>
          installed = NumOverrides /\ phase \in {"returned", "launched", "failed"}
    /\ phase \in {"loaded", "installing", "refused", "activated", "launched"} => failure = "none"
    /\ phase = "launched" => activation = "none"
    /\ phase \in {"returned", "launched"} /\ activation = "none" /\ failure = "none" =>
          guest \in {"running", "exited"}

\* launched_ guards the teardown: a session that may have a guest has it set.
LaunchedInv ==
    /\ phase = "launched" => launched
    /\ phase = "failed" /\ ~launched => guest = "absent"
    /\ phase = "destroyed" => ~launched /\ guest = "absent"
    /\ launched => phase \in {"launched", "failed"}

\* What the two threads know of each other.
ThreadInv ==
    /\ emu \in {"launched", "waiting"} => phase = "launched"
    /\ emu = "done" => phase \in {"failed", "launched", "destroyed"}
    /\ main = "destroy" => emu = "done"
    /\ main = "start" => emu = "none"
    /\ main = "returned" => emu = "none" \/ phase = "destroyed"
    /\ emu = "none" => phase = "new"
    /\ launchedFlag => phase = "launched" /\ emu \in {"launched", "waiting", "done"}

\* Each thread waits for what it posted: the presenter, then at most the quit.
PostedInv ==
    /\ emu = "presenting" => posted = <<"SetPresenter">>
    /\ emu = "done" => posted \in {<<>>, <<"Quit">>}
    /\ emu \notin {"presenting", "done"} => posted = <<>>

IInv == TypeOK /\ LeaseInv /\ GuestInv /\ LaunchedInv /\ ThreadInv /\ PostedInv

-----------------------------------------------------------------------------
(* The windowed host: every step keeps it *)

\* The session's own variables and how they relate.
SessionInv == SessionTypeOK /\ LeaseInv /\ GuestInv /\ LaunchedInv

\* Initialize and its early returns.
LEMMA InitializeKeeps ==
    ASSUME SessionInv, Initialize
    PROVE  SessionInv' /\ phase \in Early /\ phase' \in Early \cup {"failed"}
<1> USE DEF SessionInv, SessionTypeOK, LeaseInv, GuestInv, LaunchedInv, Early, Launching,
            Phases, Failures, Session, Fail
<1>1. CASE ValidateConfig
  BY <1>1 DEF ValidateConfig
<1>2. CASE AcquireInstance
  BY <1>2 DEF AcquireInstance
<1>3. CASE CreateStorage
  BY <1>3 DEF CreateStorage
<1>4. CASE ComposeConsole
  BY <1>4 DEF ComposeConsole, CreateInputDrivers
<1>5. CASE SignInLocalPlayer
  BY <1>5 DEF SignInLocalPlayer
<1>6. CASE BindOverrides
  BY <1>6 DEF BindOverrides
<1> QED BY <1>1, <1>2, <1>3, <1>4, <1>5, <1>6 DEF Initialize

\* Launch, with OnLaunch inside it.
LEMMA LaunchKeeps ==
    ASSUME SessionInv, Launch
    PROVE  /\ SessionInv' /\ phase \in {"ready"} \cup Launching
           /\ phase' \in Launching \cup {"launched", "failed"}
<1> USE NumOverridesAssumption
    DEF SessionInv, SessionTypeOK, LeaseInv, GuestInv, LaunchedInv, Early, Launching,
        Phases, Failures, Session, Fail
<1>1. CASE LoadTitle
  BY <1>1 DEF LoadTitle
<1>2. CASE CheckIdentity
  BY <1>2 DEF CheckIdentity
<1>3. CASE InstallNext
  BY <1>3 DEF InstallNext
<1>4. CASE HoldMainThread
  BY <1>4 DEF HoldMainThread
<1>5. CASE ResumeMainThread
  BY <1>5 DEF ResumeMainThread
<1>6. CASE FinishLaunch
  BY <1>6 DEF FinishLaunch
<1> QED BY <1>1, <1>2, <1>3, <1>4, <1>5, <1>6 DEF Launch

\* The title, a failing override and the other owners of the lease.
LEMMA EnvironmentKeeps ==
    ASSUME SessionInv, Environment
    PROVE  SessionInv' /\ phase' = phase
<1> USE DEF SessionInv, SessionTypeOK, LeaseInv, GuestInv, LaunchedInv, Early, Launching
<1>1. CASE TitleExits
  BY <1>1 DEF TitleExits
<1>2. CASE EndTitleAfterOverrideFailure
  BY <1>2 DEF EndTitleAfterOverrideFailure
<1>3. CASE OtherOwner
  BY <1>3 DEF OtherOwner
<1> QED BY <1>1, <1>2, <1>3 DEF Environment

\* ~Impl of a session that is not launched: it never had a guest, or it failed
\* before the guest existed.
LEMMA DestroyKeeps ==
    ASSUME SessionInv, DestroySession, phase \in {"failed", "launched", "destroyed"}
    PROVE  SessionInv' /\ phase' = IF launched THEN phase ELSE "destroyed"
BY DEF SessionInv, SessionTypeOK, LeaseInv, GuestInv, LaunchedInv, Early, Launching, Phases,
       DestroySession, EndProcess

\* The process ends with the session as it is.
LEMMA EndProcessKeeps ==
    ASSUME SessionInv, NEW status \in {"success", "failure"}, EndProcess(status)
    PROVE  SessionInv' /\ phase' = phase
BY DEF SessionInv, SessionTypeOK, LeaseInv, GuestInv, LaunchedInv, EndProcess

\* A step of the threads alone.
LEMMA UnchangedKeeps ==
    ASSUME SessionInv, UNCHANGED sessionVars
    PROVE  SessionInv' /\ phase' = phase
BY DEF SessionInv, SessionTypeOK, LeaseInv, GuestInv, LaunchedInv, sessionVars

\* What is posted follows the emulator thread, whether or not the loop has quit.
LEMMA PostedKeeps ==
    ASSUME IInv, [Next]_vars
    PROVE  PostedInv'
<1> USE DEF PostedInv, ThreadInv, IInv
<1>1. ASSUME NEW f \in Posts, posted = <<>>, Post(f)
      PROVE  posted' \in {<<>>, <<f>>}
  BY <1>1 DEF Post
<1>2. CASE UNCHANGED vars \/ UNCHANGED uiVars \/ CheckLaunched \/ JoinEmulatorThread
  BY <1>2 DEF vars, uiVars, CheckLaunched, JoinEmulatorThread
<1>3. CASE OpenWindow \/ ReturnFailure \/ PublishLaunched \/ CallOnLaunched \/ CloseWindow
  BY <1>3 DEF OpenWindow, ReturnFailure, PublishLaunched, CallOnLaunched, CloseWindow,
              QuitFromUIThread, Main, Emu
<1>4. CASE RunPosted
  <2>1. posted \in {<<"SetPresenter">>, <<"Quit">>}
    BY <1>4 DEF RunPosted
  <2>2. CASE posted = <<"Quit">>
    <3>1. Head(posted) = "Quit" /\ emu = "done"
      BY <2>2
    <3> QED BY <1>4, <3>1 DEF RunPosted, QuitFromUIThread
  <2>3. CASE posted = <<"SetPresenter">>
    <3>1. Head(posted) # "Quit" /\ Tail(posted) = <<>>
      BY <2>3
    <3> QED BY <1>4, <3>1 DEF RunPosted
  <2> QED BY <2>1, <2>2, <2>3
<1>5. CASE Present
  <2>1. posted = <<>> /\ Post("SetPresenter") /\ emu' = IF hasQuit THEN "launching" ELSE "presenting"
    BY <1>5 DEF Present, Emu
  <2> QED BY <2>1 DEF Post
<1>6. CASE ReportFailure \/ WaitUntilExit
  <2>1. posted = <<>> /\ Post("Quit") /\ emu' = "done"
    BY <1>6 DEF ReportFailure, WaitUntilExit, Emu
  <2> QED BY <1>1, <2>1 DEF Posts
<1> QED BY <1>2, <1>3, <1>4, <1>5, <1>6
        DEF Next, MainThread, EmulatorThread, RunInitialize, RunLaunch

\* Every step of the whole system keeps the invariant.
LEMMA NextKeeps ==
    ASSUME IInv, [Next]_vars
    PROVE  IInv'
<1>0. SessionInv /\ TypeOK /\ ThreadInv
  BY DEF IInv, SessionInv, TypeOK
<1> DEFINE UITypes == /\ main \in {"start", "loop", "check", "join", "destroy", "returned"}
                      /\ emu \in {"none", "session", "presenting", "launching", "launched",
                                  "waiting", "done"}
                      /\ posted \in Seq(Posts)
                      /\ hasQuit \in BOOLEAN /\ windowClosed \in BOOLEAN
                      /\ launchedFlag \in BOOLEAN
<1>a. UITypes
  BY <1>0 DEF TypeOK
<1>b. PostedInv' /\ posted' \in Seq(Posts)
  <2>1. PostedInv'
    BY PostedKeeps
  <2>2. <<>> \in Seq(Posts) /\ <<"Quit">> \in Seq(Posts) /\ <<"SetPresenter">> \in Seq(Posts)
    BY DEF Posts
  <2> QED BY <2>1, <2>2 DEF PostedInv
<1> SUFFICES SessionInv' /\ UITypes' /\ ThreadInv'
  BY <1>b DEF IInv, SessionInv, TypeOK
<1>1. CASE UNCHANGED vars
  BY <1>0, <1>1, <1>a, UnchangedKeeps DEF vars, uiVars, ThreadInv
<1>2. CASE OpenWindow
  BY <1>0, <1>2, <1>a, UnchangedKeeps DEF OpenWindow, Main, ThreadInv
<1>3. CASE RunPosted
  <2>1. emu' \in {emu, "launching"} /\ (emu' # emu => emu = "presenting")
    <3>1. emu = "presenting" \/ (emu = "done" /\ Head(posted) = "Quit")
      BY <1>3 DEF RunPosted, IInv, PostedInv
    <3> QED BY <1>3, <3>1 DEF RunPosted, QuitFromUIThread
  <2>2. UNCHANGED <<sessionVars, windowClosed, launchedFlag>> /\ main = "loop"
        /\ main' \in {"loop", "check"} /\ hasQuit' \in BOOLEAN
    BY <1>3, <1>a DEF RunPosted, QuitFromUIThread, Main
  <2> QED BY <1>0, <1>a, <1>b, <2>1, <2>2, UnchangedKeeps DEF ThreadInv
<1>4. CASE CloseWindow
  BY <1>0, <1>4, <1>a, UnchangedKeeps DEF CloseWindow, QuitFromUIThread, Main, ThreadInv
<1>5. CASE CheckLaunched
  BY <1>0, <1>5, <1>a, UnchangedKeeps, EndProcessKeeps DEF CheckLaunched, Main, ThreadInv
<1>6. CASE JoinEmulatorThread
  BY <1>0, <1>6, <1>a, UnchangedKeeps DEF JoinEmulatorThread, Main, ThreadInv
<1>7. CASE ReturnFailure
  <2>1. phase \in {"failed", "launched", "destroyed"} /\ DestroySession
    BY <1>0, <1>7 DEF ReturnFailure, Main, ThreadInv
  <2>2. SessionInv' /\ phase' = IF launched THEN phase ELSE "destroyed"
    BY <1>0, <2>1, DestroyKeeps
  <2>3. launchedFlag => launched
    BY <1>0 DEF ThreadInv, SessionInv, LaunchedInv
  <2>4. UITypes' /\ emu' = "done" /\ main' \in {"destroy", "returned"}
    BY <1>0, <1>7, <1>a DEF ReturnFailure, Main, ThreadInv
  <2>5. main' = "returned" => phase' = "destroyed"
    BY <1>7, <2>2 DEF ReturnFailure, Main
  <2>6. launchedFlag' => phase' = "launched"
    BY <1>0, <1>7, <2>2, <2>3 DEF ReturnFailure, ThreadInv
  <2> QED BY <2>1, <2>2, <2>4, <2>5, <2>6 DEF ThreadInv
<1>8. CASE RunInitialize
  BY <1>0, <1>8, <1>a, InitializeKeeps DEF RunInitialize, Emu, uiVars, ThreadInv, Early
<1>9. CASE Present
  BY <1>0, <1>9, <1>a, <1>b, UnchangedKeeps DEF Present, Emu, ThreadInv, Posts
<1>10. CASE RunLaunch
  BY <1>0, <1>10, <1>a, LaunchKeeps DEF RunLaunch, Emu, uiVars, ThreadInv, Launching
<1>11. CASE ReportFailure
  BY <1>0, <1>11, <1>a, <1>b, UnchangedKeeps DEF ReportFailure, ThreadInv, Posts
<1>12. CASE PublishLaunched
  BY <1>0, <1>12, <1>a, UnchangedKeeps DEF PublishLaunched, Emu, ThreadInv
<1>13. CASE CallOnLaunched
  BY <1>0, <1>13, <1>a, UnchangedKeeps DEF CallOnLaunched, Emu, ThreadInv
<1>14. CASE WaitUntilExit
  BY <1>0, <1>14, <1>a, <1>b, UnchangedKeeps DEF WaitUntilExit, Emu, ThreadInv, Posts
<1>15. CASE Environment /\ UNCHANGED uiVars
  BY <1>0, <1>15, <1>a, EnvironmentKeeps DEF uiVars, ThreadInv
<1> QED
  BY <1>1, <1>2, <1>3, <1>4, <1>5, <1>6, <1>7, <1>8, <1>9, <1>10, <1>11, <1>12, <1>13,
     <1>14, <1>15 DEF Next, MainThread, EmulatorThread

\* The invariant holds at the start.
LEMMA InitKeeps == Init => IInv
<1> SUFFICES ASSUME Init PROVE IInv
  OBVIOUS
<1>1. SessionTypeOK
  <2>1. emulator \in BOOLEAN /\ launched \in BOOLEAN
    BY Zenon DEF Init, SessionInit
  <2>2. suspends \in Nat /\ installed \in 0..NumOverrides
    BY NumOverridesAssumption DEF Init, SessionInit
  <2> QED BY <2>1, <2>2 DEF Init, SessionInit, SessionTypeOK, Phases, Failures
<1>2. LeaseInv /\ GuestInv /\ LaunchedInv
  BY DEF Init, SessionInit, LeaseInv, GuestInv, LaunchedInv, Early, Launching
<1>3. posted \in Seq(Posts)
  BY DEF Init
<1>4. ThreadInv
  BY DEF Init, SessionInit, ThreadInv
<1>5. PostedInv
  BY DEF Init, PostedInv
<1> QED BY <1>1, <1>2, <1>3, <1>4, <1>5 DEF Init, IInv, TypeOK

\* The invariant holds in every reachable state.
LEMMA Invariance == Spec => []IInv
<1>1. Init => IInv
  BY InitKeeps
<1>2. IInv /\ [Next]_vars => IInv'
  BY NextKeeps
<1> QED BY <1>1, <1>2, PTL DEF Spec

-----------------------------------------------------------------------------
(* The windowed host: theorems *)

\* The session and both threads stay within their states.
THEOREM TypeCorrect == Spec => []TypeOK
<1>1. IInv => TypeOK
  BY DEF IInv
<1> QED BY <1>1, Invariance, PTL

\* A title that fails the identity check or refuses an override never executes
\* a guest instruction, whatever the window and the player do meanwhile.
THEOREM RefusalHolds == Spec => []RefusedTitleNeverRuns
<1>1. IInv => RefusedTitleNeverRuns
  BY DEF IInv, GuestInv, RefusedTitleNeverRuns
<1> QED BY <1>1, Invariance, PTL

\* A running title has every override it was configured with.
THEOREM OverridesFirst == Spec => []OverridesPrecedeGuest
<1>1. IInv => OverridesPrecedeGuest
  BY DEF IInv, GuestInv, OverridesPrecedeGuest
<1> QED BY <1>1, Invariance, PTL

\* The emulator never exists without the instance lease.
THEOREM LeaseHeld == Spec => []EmulatorHoldsLease
<1>1. IInv => EmulatorHoldsLease
  BY DEF IInv, LeaseInv, EmulatorHoldsLease
<1> QED BY <1>1, Invariance, PTL

\* The emulator is never torn down once the title's main thread exists.
THEOREM TeardownSafe == Spec => []NoTeardownUnderGuest
<1>1. IInv => NoTeardownUnderGuest
  BY DEF IInv, GuestInv, Launching, NoTeardownUnderGuest
<1> QED BY <1>1, Invariance, PTL

\* The session on_launched receives is valid as long as the process runs.
THEOREM SessionStaysValid == Spec => []SessionOutlivesCallback
<1>1. IInv => SessionOutlivesCallback
  BY DEF IInv, ThreadInv, SessionOutlivesCallback
<1> QED BY <1>1, Invariance, PTL

-----------------------------------------------------------------------------
(* The windowed host: the run implements its promise *)

\* Initialize does not touch the title.
LEMMA InitializeStutters ==
    ASSUME SessionInv, Initialize
    PROVE  guest = "absent" /\ UNCHANGED <<guest, launched, activation, installed, process>>
<1> USE DEF SessionInv, GuestInv, Early, Launching, Session, Fail
<1>1. phase \in Early
  BY InitializeKeeps
<1>2. UNCHANGED <<guest, launched, activation, installed, process>>
  BY DEF Initialize, ValidateConfig, AcquireInstance, CreateStorage, ComposeConsole,
         SignInLocalPlayer, BindOverrides
<1> QED BY <1>1, <1>2

\* The process is running in every state in which a host thread steps.
LEMMA LaunchMaps ==
    ASSUME IInv, Launch, UNCHANGED uiVars, main # "returned"
    PROVE  Run!Next \/ UNCHANGED Run!vars
<1> USE DEF IInv, TypeOK, SessionTypeOK, LeaseInv, GuestInv, LaunchedInv, ThreadInv, Early,
        Launching, Session, Fail, Outcome, uiVars,
        Run!vars, Run!Next, Run!Pending, Run!Become
<1>1. CASE LoadTitle
  <2>1. guest = "absent" /\ ~launched /\ activation = "none" /\ Outcome = "pending"
    BY <1>1 DEF LoadTitle
  <2>2. guest' \in {"absent", "suspended"} /\ activation' = "none" /\ phase' # "activated"
    BY <1>1, <2>1 DEF LoadTitle
  <2>3. UNCHANGED <<launched, launchedFlag, Outcome>>
    BY <1>1 DEF LoadTitle
  <2>4. Title = "none"
    BY <2>1 DEF Title
  <2>5. Title' \in {"none", "loaded"}
    BY <2>2 DEF Title
  <2> QED BY <2>1, <2>3, <2>4, <2>5 DEF Run!Load
<1>2. CASE CheckIdentity
  BY <1>2 DEF CheckIdentity, Title, Run!Judge
<1>3. CASE InstallNext
  BY <1>3 DEF InstallNext, Title, Run!Judge
<1>4. CASE HoldMainThread
  BY <1>4 DEF HoldMainThread, Title
<1>5. CASE ResumeMainThread
  BY <1>5 DEF ResumeMainThread, Title, Run!Start
<1>6. CASE FinishLaunch
  <2>1. phase = "returned" /\ phase' # "activated" /\ ~launched /\ launched' = TRUE
    BY <1>6 DEF FinishLaunch
  <2>2. UNCHANGED <<guest, activation, installed, launchedFlag, Outcome>> /\ Outcome = "pending"
    BY <1>6 DEF FinishLaunch
  <2>3. Title' = Title /\ Title # "cleared"
    BY <2>1, <2>2 DEF Title
  <2> QED BY <2>1, <2>2, <2>3 DEF Run!Commit
<1> QED BY <1>1, <1>2, <1>3, <1>4, <1>5, <1>6 DEF Launch

\* Every step of the whole system is a step of the run or none.
LEMMA NextMaps ==
    ASSUME IInv, [Next]_vars
    PROVE  [Run!Next]_(Run!vars)
<1> USE DEF IInv, TypeOK, SessionTypeOK, LaunchedInv, ThreadInv, Run!vars, Run!Next,
            Run!Pending, Run!Become
<1>0. SessionInv
  BY DEF SessionInv
<1> DEFINE Same == /\ Title' = Title /\ launched' = launched
                   /\ launchedFlag' = launchedFlag /\ Outcome' = Outcome
<1>1. CASE UNCHANGED vars
  BY <1>1 DEF vars, sessionVars, uiVars, Title, Outcome
<1>2. CASE OpenWindow
  <2>1. ~launched /\ ~launchedFlag /\ guest = "absent"
    BY <1>2 DEF OpenWindow, Main, GuestInv, Launching, Early
  <2>2. Title = "none" /\ UNCHANGED <<Title, launched, launchedFlag>>
    BY <1>2, <2>1 DEF OpenWindow, sessionVars, Title
  <2>3. Outcome = "pending" /\ Outcome' \in {"pending", "returned"}
    BY <1>2 DEF OpenWindow, sessionVars, Main, Outcome
  <2> QED BY <2>1, <2>2, <2>3 DEF Run!ReturnFailure, Run!Finish
<1>3. CASE RunPosted \/ CloseWindow \/ JoinEmulatorThread
  BY <1>3 DEF RunPosted, CloseWindow, JoinEmulatorThread, QuitFromUIThread, sessionVars,
              Main, Title, Outcome
<1>4. CASE CheckLaunched
  BY <1>4 DEF CheckLaunched, EndProcess, sessionVars, Main, Title, Outcome,
              Run!End, Run!Finish
<1>5. CASE ReturnFailure
  BY <1>5, <1>0 DEF ReturnFailure, DestroySession, EndProcess, Main, Title, Outcome,
              Run!End, Run!ReturnFailure, Run!Finish
<1>6. CASE RunInitialize
  BY <1>6, <1>0, InitializeStutters DEF RunInitialize, Emu, uiVars, Title, Outcome
<1>7. CASE RunLaunch
  BY <1>7, <1>0, LaunchMaps, LaunchKeeps DEF RunLaunch, Emu, Launching
<1>8. CASE Present \/ ReportFailure \/ CallOnLaunched \/ WaitUntilExit
  BY <1>8 DEF Present, ReportFailure, CallOnLaunched, WaitUntilExit, sessionVars, Title, Outcome
<1>9. CASE PublishLaunched
  BY <1>9 DEF PublishLaunched, Emu, sessionVars, GuestInv, Title, Outcome, Run!Offer
<1>10. CASE Environment /\ UNCHANGED uiVars
  <2>1. CASE TitleExits
    BY <1>10, <2>1 DEF GuestInv, Launching, TitleExits, uiVars, Title, Outcome, Run!Exit
  <2>2. CASE EndTitleAfterOverrideFailure
    BY <1>10, <2>2 DEF GuestInv, Launching, EndTitleAfterOverrideFailure, uiVars, Title, Outcome, Run!End, Run!Finish
  <2>3. CASE OtherOwner
    BY <1>10, <2>3 DEF OtherOwner, uiVars, Title, Outcome
  <2> QED BY <1>10, <2>1, <2>2, <2>3 DEF Environment
<1> QED BY <1>1, <1>2, <1>3, <1>4, <1>5, <1>6, <1>7, <1>8, <1>9, <1>10
        DEF Next, MainThread, EmulatorThread

\* The run of the threads, the window and the session implements the run its
\* header promises, for any number of overrides.
THEOREM RunImplemented == Spec => KeepsRunPromise
<1>1. Init => Run!Init
  BY DEF Init, SessionInit, Title, Outcome, Run!Init
<1>2. IInv /\ [Next]_vars => [Run!Next]_(Run!vars)
  BY NextMaps
<1> QED BY <1>1, <1>2, Invariance, PTL DEF Spec, KeepsRunPromise, Run!Spec

-----------------------------------------------------------------------------
(* The composed system: the host's part *)

\* Every step of the composed system is a step of the windowed host or leaves it
\* alone.
LEMMA HostSteps == [FullNext]_fullVars => [Next]_vars
<1> SUFFICES ASSUME [FullNext]_fullVars PROVE [Next]_vars
  OBVIOUS
<1>1. CASE UNCHANGED fullVars
  BY <1>1 DEF fullVars
<1>2. CASE HostStep
  BY <1>2 DEF HostStep, Next, Environment
<1>3. ASSUME NEW t \in Threads, GuestThread(t)
      PROVE  UNCHANGED vars
  BY <1>3 DEF GuestThread
<1>4. ASSUME NEW t \in Threads, OverrideFails(t)
      PROVE  Next
  BY <1>4 DEF OverrideFails, Next, Environment
<1>5. CASE CountPresent \/ ReadFrames
  BY <1>5 DEF CountPresent, ReadFrames
<1> QED BY <1>1, <1>2, <1>3, <1>4, <1>5 DEF FullNext

\* The invariant of the windowed host.
LEMMA HostInvariance == FullSpec => []IInv
<1>1. FullInit => IInv
  BY InitKeeps DEF FullInit
<1>2. IInv /\ [FullNext]_fullVars => IInv'
  BY HostSteps, NextKeeps
<1> QED BY <1>1, <1>2, PTL DEF FullSpec

-----------------------------------------------------------------------------
(* The composed system: the guest threads' part *)

\* The calls of a thread alternate between handlers and original bodies; an
\* original's frame holds the registers its handler was entered with; and a
\* handler on top has them.
Linked(stack, i) ==
    /\ stack[i].kind = "override" => i = 1 \/ stack[i - 1].kind = "original"
    /\ stack[i].kind = "original" =>
          /\ i > 1
          /\ stack[i - 1].kind = "override"
          /\ stack[i].sp = stack[i - 1].sp
          /\ stack[i].lr = stack[i - 1].lr

Nested(t) == \A i \in 1..Len(calls[t]) : Linked(calls[t], i)

CallsInv == Calls!CallsTypeOK /\ HandlersKeepRegisters /\ \A t \in Threads : Nested(t)

\* What a thread's calls and registers are made of.
LEMMA ThreadFacts ==
    ASSUME CallsInv, NEW t \in Threads
    PROVE  /\ calls[t] \in Seq(Calls!Activations) /\ Len(calls[t]) \in Nat
           /\ sp[t] \in Nat /\ lr[t] \in Calls!Links
           /\ calls[t] = <<>> <=> Len(calls[t]) = 0
           /\ \A i \in 1..Len(calls[t]) :
                 /\ calls[t][i] \in Calls!Activations
                 /\ calls[t][i].kind \in {"override", "original"}
                 /\ calls[t][i].sp \in Nat
                 /\ calls[t][i].lr \in Calls!Links
<1>1. calls[t] \in Seq(Calls!Activations) /\ sp[t] \in Nat /\ lr[t] \in Calls!Links
  BY DEF CallsInv, Calls!CallsTypeOK
<1>2. ASSUME NEW i \in 1..Len(calls[t])
      PROVE  calls[t][i] \in Calls!Activations
  BY <1>1
<1>3. \A a \in Calls!Activations :
         a.kind \in {"override", "original"} /\ a.sp \in Nat /\ a.lr \in Calls!Links
  BY DEF Calls!Activations
<1> QED BY <1>1, <1>2, <1>3

\* Entering and leaving touch one thread's calls, and its registers.
LEMMA EnterFacts ==
    ASSUME CallsInv, NEW t \in Threads, NEW a \in Calls!Activations, Calls!Enter(t, a)
    PROVE  /\ calls' \in [Threads -> Seq(Calls!Activations)]
           /\ \A u \in Threads \ {t} : calls'[u] = calls[u]
           /\ Len(calls'[t]) = Len(calls[t]) + 1
           /\ calls'[t][Len(calls[t]) + 1] = a
           /\ \A i \in 1..Len(calls[t]) : calls'[t][i] = calls[t][i]
<1>1. Append(calls[t], a) \in Seq(Calls!Activations)
  BY ThreadFacts
<1>2. /\ calls' \in [Threads -> Seq(Calls!Activations)]
      /\ calls'[t] = Append(calls[t], a)
      /\ \A u \in Threads \ {t} : calls'[u] = calls[u]
  BY <1>1 DEF Calls!Enter, CallsInv, Calls!CallsTypeOK
<1> QED BY <1>2, ThreadFacts

LEMMA LeaveFacts ==
    ASSUME CallsInv, NEW t \in Threads, Len(calls[t]) > 0, Calls!Leave(t)
    PROVE  /\ calls' \in [Threads -> Seq(Calls!Activations)]
           /\ \A u \in Threads \ {t} : calls'[u] = calls[u]
           /\ Len(calls'[t]) = Len(calls[t]) - 1
           /\ \A i \in 1..(Len(calls[t]) - 1) : calls'[t][i] = calls[t][i]
<1>1. SubSeq(calls[t], 1, Len(calls[t]) - 1) \in Seq(Calls!Activations)
  BY ThreadFacts
<1>2. /\ calls' \in [Threads -> Seq(Calls!Activations)]
      /\ calls'[t] = SubSeq(calls[t], 1, Len(calls[t]) - 1)
      /\ \A u \in Threads \ {t} : calls'[u] = calls[u]
  BY <1>1 DEF Calls!Leave, CallsInv, Calls!CallsTypeOK
<1> QED BY <1>2, ThreadFacts

LEMMA RegisterFacts ==
    ASSUME CallsInv, NEW t \in Threads, NEW r1 \in Nat, NEW link \in Calls!Links,
           Calls!Registers(t, r1, link)
    PROVE  /\ sp' \in [Threads -> Nat] /\ lr' \in [Threads -> Calls!Links]
           /\ sp'[t] = r1 /\ lr'[t] = link
           /\ \A u \in Threads \ {t} : sp'[u] = sp[u] /\ lr'[u] = lr[u]
BY DEF CallsInv, Calls!CallsTypeOK, Calls!Registers

\* One thread's part of the invariant.
KeepsRegisters(t) ==
    Len(calls[t]) > 0 /\ calls[t][Len(calls[t])].kind = "override" =>
        /\ sp[t] = calls[t][Len(calls[t])].sp
        /\ lr[t] = calls[t][Len(calls[t])].lr

LEMMA KeepsIs ==
    ASSUME CallsInv
    PROVE  \A t \in Threads : KeepsRegisters(t) /\ Nested(t)
BY ThreadFacts DEF CallsInv, KeepsRegisters, HandlersKeepRegisters,
   Calls!HandlersKeepRegisters, Calls!InHandler, Calls!Top

\* The thread that stepped has to be looked at, the others are as they were.
LEMMA OneThread ==
    ASSUME CallsInv, NEW t \in Threads,
           calls' \in [Threads -> Seq(Calls!Activations)],
           sp' \in [Threads -> Nat], lr' \in [Threads -> Calls!Links],
           \A u \in Threads \ {t} : calls'[u] = calls[u] /\ sp'[u] = sp[u] /\ lr'[u] = lr[u],
           KeepsRegisters(t)', Nested(t)'
    PROVE  CallsInv'
<1>1. ASSUME NEW u \in Threads
      PROVE  KeepsRegisters(u)' /\ Nested(u)'
  <2>1. CASE u = t
    BY <2>1
  <2>2. CASE u # t
    <3>1. calls'[u] = calls[u] /\ sp'[u] = sp[u] /\ lr'[u] = lr[u]
      BY <2>2
    <3>2. KeepsRegisters(u) /\ Nested(u)
      BY KeepsIs
    <3>3. KeepsRegisters(u)'
      BY <3>1, <3>2 DEF KeepsRegisters
    <3>4. Nested(u)'
      BY <3>1, <3>2 DEF Nested
    <3> QED BY <3>3, <3>4
  <2> QED BY <2>1, <2>2
<1>2. ASSUME NEW u \in Threads
      PROVE  calls'[u] # <<>> => Len(calls'[u]) > 0
  BY <1>2
<1> QED BY <1>1, <1>2 DEF CallsInv, KeepsRegisters, Calls!CallsTypeOK, HandlersKeepRegisters,
           Calls!HandlersKeepRegisters, Calls!InHandler, Calls!Top

\* Calls that share their first activations are linked alike in them.
LEMMA PrefixLinked ==
    ASSUME NEW s, NEW r, NEW m \in Nat, \A i \in 1..m : Linked(s, i),
           \A i \in 1..m : r[i] = s[i]
    PROVE  \A i \in 1..m : Linked(r, i)
<1> SUFFICES ASSUME NEW i \in 1..m PROVE Linked(r, i)
  OBVIOUS
<1>1. Linked(s, i) /\ r[i] = s[i]
  OBVIOUS
<1>2. CASE i = 1
  BY <1>1, <1>2 DEF Linked
<1>3. CASE i # 1
  <2>1. i - 1 \in 1..m
    BY <1>3
  <2>2. r[i - 1] = s[i - 1]
    BY <2>1
  <2> QED BY <1>1, <2>2 DEF Linked
<1> QED BY <1>2, <1>3

\* What is left of a thread's calls when the innermost is over stays nested.
LEMMA PrefixNested ==
    ASSUME NEW t \in Threads, Nested(t), Len(calls[t]) \in Nat \ {0},
           Len(calls'[t]) = Len(calls[t]) - 1,
           \A i \in 1..(Len(calls[t]) - 1) : calls'[t][i] = calls[t][i]
    PROVE  Nested(t)'
<1> DEFINE m == Len(calls[t]) - 1
<1>1. m \in Nat /\ \A i \in 1..m : Linked(calls[t], i)
  BY DEF Nested
<1>2. \A i \in 1..m : Linked(calls'[t], i)
  BY <1>1, PrefixLinked
<1> QED BY <1>2 DEF Nested

\* A thread's calls stay nested when what is entered links to what was innermost.
LEMMA EnteredNested ==
    ASSUME NEW t \in Threads, Nested(t), Len(calls[t]) \in Nat,
           Len(calls'[t]) = Len(calls[t]) + 1,
           \A i \in 1..Len(calls[t]) : calls'[t][i] = calls[t][i],
           Linked(calls'[t], Len(calls[t]) + 1)
    PROVE  Nested(t)'
<1> DEFINE n == Len(calls[t])
<1>1. \A i \in 1..n : Linked(calls'[t], i)
  BY PrefixLinked DEF Nested
<1>2. 1..(n + 1) = (1..n) \cup {n + 1}
  OBVIOUS
<1> QED BY <1>1, <1>2 DEF Nested

\* Every step of a thread's calls keeps the invariant.
LEMMA CallStepKeeps ==
    ASSUME CallsInv, NEW t \in Threads, Calls!CallStep(t)
    PROVE  CallsInv'
<1> DEFINE n == Len(calls[t])
<1>0. n \in Nat /\ KeepsRegisters(t) /\ Nested(t)
  BY ThreadFacts, KeepsIs
<1>1. /\ Calls!InHandler(t) <=> n > 0 /\ calls[t][n].kind = "override"
      /\ Calls!InOriginal(t) <=> n > 0 /\ calls[t][n].kind = "original"
      /\ n > 0 => calls[t][n].kind \in {"override", "original"}
                  /\ calls[t][n].sp \in Nat /\ calls[t][n].lr \in Calls!Links
  BY ThreadFacts DEF Calls!InHandler, Calls!InOriginal, Calls!Top
<1>5. CASE Calls!DispatchGuest(t)
  <2>1. PICK own \in {0, 1}, site \in Sites :
           /\ Calls!Registers(t, Calls!EntryFrame(t) + own, site)
           /\ Calls!Enter(t, Calls!Activation("override", Calls!EntryFrame(t) + own, site))
    BY <1>5 DEF Calls!DispatchGuest
  <2> DEFINE r1 == Calls!EntryFrame(t) + own
             a == Calls!Activation("override", r1, site)
  <2>2. r1 \in Nat /\ site \in Calls!Links
    BY <1>1, ThreadFacts DEF Calls!EntryFrame, Calls!Links, Calls!Top
  <2>3. a \in Calls!Activations /\ a.kind = "override" /\ a.sp = r1 /\ a.lr = site
    BY <2>2 DEF Calls!Activations, Calls!Activation
  <2>4. Calls!Registers(t, r1, site) /\ Calls!Enter(t, a)
    BY <2>1
  <2> HIDE DEF r1, a
  <2>5. n = 0 \/ calls[t][n].kind = "original"
    BY <1>1, <1>5, <1>0 DEF Calls!DispatchGuest, Calls!InGuestCode
  <2>6. /\ Len(calls'[t]) = n + 1 /\ calls'[t][n + 1] = a
        /\ \A i \in 1..n : calls'[t][i] = calls[t][i]
        /\ sp'[t] = r1 /\ lr'[t] = site
    BY <2>2, <2>3, <2>4, EnterFacts, RegisterFacts
  <2>7. KeepsRegisters(t)'
    BY <2>3, <2>6 DEF KeepsRegisters
  <2>8. Linked(calls'[t], n + 1)
    <3>1. CASE n = 0
      BY <3>1, <2>3, <2>6 DEF Linked
    <3>2. CASE n # 0
      <4>1. n \in 1..n /\ (n + 1) - 1 = n
        BY <3>2, <1>0
      <4>2. calls'[t][n].kind = "original"
        BY <3>2, <4>1, <2>5, <2>6
      <4> QED BY <4>1, <4>2, <2>3, <2>6 DEF Linked
    <3> QED BY <3>1, <3>2
  <2>9. Nested(t)'
    BY <1>0, <2>6, <2>8, EnteredNested
  <2> QED BY <2>2, <2>3, <2>4, <2>7, <2>9, EnterFacts, RegisterFacts, OneThread
<1>6. CASE Calls!ReturnFromOverride(t)
  <2>1. n > 0 /\ calls[t][n].kind = "override" /\ Calls!Leave(t) /\ sp' = sp /\ lr' = lr
    BY <1>1, <1>6 DEF Calls!ReturnFromOverride
  <2>2. Len(calls'[t]) = n - 1 /\ \A i \in 1..(n - 1) : calls'[t][i] = calls[t][i]
    BY <2>1, LeaveFacts
  <2>3. n - 1 > 0 => calls'[t][n - 1].kind = "original"
    <3> SUFFICES ASSUME n - 1 > 0 PROVE calls'[t][n - 1].kind = "original"
      OBVIOUS
    <3>1. n \in 1..n /\ n # 1 /\ n - 1 \in 1..(n - 1)
      BY <1>0, <2>1
    <3> QED BY <3>1, <1>0, <2>1, <2>2 DEF Nested, Linked
  <2>4. KeepsRegisters(t)'
    BY <2>2, <2>3 DEF KeepsRegisters
  <2>5. Nested(t)'
    BY <1>0, <2>1, <2>2, PrefixNested
  <2> QED BY <2>1, <2>4, <2>5, LeaveFacts, OneThread DEF CallsInv, Calls!CallsTypeOK
<1>7. CASE Calls!CallOriginalBody(t)
  <2> DEFINE a == Calls!Activation("original", sp[t], lr[t])
  <2>1. /\ n > 0 /\ calls[t][n].kind = "override"
        /\ Calls!Registers(t, sp[t] + 1, Calls!kReturnAddress)
        /\ Calls!Enter(t, a)
    BY <1>1, <1>7 DEF Calls!CallOriginalBody, Calls!GuestCallFrame
  <2>2. sp[t] + 1 \in Nat /\ Calls!kReturnAddress \in Calls!Links
    BY ThreadFacts DEF Calls!Links
  <2>3. a \in Calls!Activations /\ a.kind = "original" /\ a.sp = sp[t] /\ a.lr = lr[t]
    BY ThreadFacts DEF Calls!Activations, Calls!Activation
  <2> HIDE DEF a
  <2>4. /\ Len(calls'[t]) = n + 1 /\ calls'[t][n + 1] = a
        /\ \A i \in 1..n : calls'[t][i] = calls[t][i]
    BY <2>1, <2>3, EnterFacts
  <2>5. a.sp = calls[t][n].sp /\ a.lr = calls[t][n].lr
    BY <1>0, <2>1, <2>3 DEF KeepsRegisters
  <2>6. KeepsRegisters(t)'
    BY <2>3, <2>4 DEF KeepsRegisters
  <2>7. Linked(calls'[t], n + 1)
    <3>1. n \in 1..n /\ (n + 1) - 1 = n /\ n + 1 > 1
      BY <1>0, <2>1
    <3>2. calls'[t][n] = calls[t][n]
      BY <2>4, <3>1
    <3> QED BY <3>1, <3>2, <2>1, <2>3, <2>4, <2>5 DEF Linked
  <2>8. Nested(t)'
    BY <1>0, <2>4, <2>7, EnteredNested
  <2> QED BY <2>1, <2>2, <2>3, <2>6, <2>8, EnterFacts, RegisterFacts, OneThread
<1>8. CASE Calls!ReturnFromOriginal(t)
  <2>1. /\ n > 0 /\ calls[t][n].kind = "original" /\ Calls!Leave(t)
        /\ Calls!Registers(t, calls[t][n].sp, calls[t][n].lr)
    BY <1>1, <1>8 DEF Calls!ReturnFromOriginal, Calls!LeaveOriginal, Calls!Top
  <2>2. Len(calls'[t]) = n - 1 /\ \A i \in 1..(n - 1) : calls'[t][i] = calls[t][i]
    BY <2>1, LeaveFacts
  <2>3. sp'[t] = calls[t][n].sp /\ lr'[t] = calls[t][n].lr
    BY <1>1, <2>1, RegisterFacts
  <2>4. /\ n - 1 \in 1..(n - 1)
        /\ calls[t][n].sp = calls[t][n - 1].sp /\ calls[t][n].lr = calls[t][n - 1].lr
    <3>1. n \in 1..n
      BY <1>0, <2>1
    <3> QED BY <3>1, <1>0, <2>1 DEF Nested, Linked
  <2>5. KeepsRegisters(t)'
    BY <2>2, <2>3, <2>4 DEF KeepsRegisters
  <2>6. Nested(t)'
    BY <1>0, <2>1, <2>2, PrefixNested
  <2> QED BY <1>1, <2>1, <2>5, <2>6, LeaveFacts, RegisterFacts, OneThread
<1> QED BY <1>5, <1>6, <1>7, <1>8 DEF Calls!CallStep

\* The guest threads' invariant in the composed system.
LEMMA CallsInvariance == FullSpec => []CallsInv
<1>1. FullInit => CallsInv
  <2> SUFFICES ASSUME FullInit PROVE CallsInv
    OBVIOUS
  <2>1. calls = [t \in Threads |-> <<>>] /\ sp = [t \in Threads |-> 0] /\ lr \in [Threads -> Sites]
    BY DEF FullInit, Calls!CallsInit
  <2>2. Calls!CallsTypeOK
    BY <2>1 DEF Calls!CallsTypeOK, Calls!Links
  <2>3. \A t \in Threads : Len(calls[t]) = 0 /\ ~Calls!InHandler(t)
    BY <2>1 DEF Calls!InHandler
  <2> QED BY <2>2, <2>3 DEF CallsInv, Nested, HandlersKeepRegisters, Calls!HandlersKeepRegisters
<1>2. CallsInv /\ [FullNext]_fullVars => CallsInv'
  <2> SUFFICES ASSUME CallsInv, [FullNext]_fullVars PROVE CallsInv'
    OBVIOUS
  <2>1. CASE UNCHANGED callVars
    BY <2>1 DEF callVars, CallsInv, Nested, Linked, HandlersKeepRegisters,
       Calls!CallsTypeOK, Calls!HandlersKeepRegisters, Calls!InHandler, Calls!Top
  <2>2. ASSUME NEW t \in Threads, GuestThread(t)
        PROVE  CallsInv'
    BY <2>2, CallStepKeeps DEF GuestThread
  <2>3. ASSUME NEW t \in Threads, OverrideFails(t)
        PROVE  UNCHANGED callVars
    BY <2>3 DEF OverrideFails, titleVars
  <2> QED BY <2>1, <2>2, <2>3 DEF FullNext, fullVars, titleVars, HostStep, CountPresent, ReadFrames
<1> QED BY <1>1, <1>2, PTL DEF FullSpec

-----------------------------------------------------------------------------
(* The frame counts: sums over finite sets, by induction over the subsets *)

\* What holds of a subset of B once it holds of the smaller ones holds of all.
LEMMA SubsetInduction ==
    ASSUME NEW B, IsFiniteSet(B), NEW V,
           \A s \in SUBSET B : (\A r \in SUBSET s : r # s => r \in V) => s \in V
    PROVE  SUBSET B \subseteq V
<1> DEFINE R == StrictSubsetOrdering(B)
           F == FiniteSubsetsOf(B)
           C == {s \in SUBSET B : s \notin V}
<1>1. SUFFICES ASSUME C # {} PROVE FALSE
  OBVIOUS
<1>2. IsWellFoundedOn(R, F)
  BY FS_StrictSubsetOrderingWellFounded
<1>3. C \subseteq F
  BY FS_Subset DEF FiniteSubsetsOf
<1> HIDE DEF R, F, C
<1>4. PICK s \in C : \A r \in C : ~(<<r, s>> \in R)
  BY <1>1, <1>2, <1>3, WFMin
<1>5. s \in SUBSET B /\ s \notin V
  BY <1>4 DEF C
<1>6. ASSUME NEW r \in SUBSET s, r # s PROVE r \in V
  <2>1. <<r, s>> \in R
    BY <1>5, <1>6 DEF R, StrictSubsetOrdering
  <2> QED
    BY <1>4, <1>5, <1>6, <2>1 DEF C
<1> QED
  BY <1>5, <1>6

\* The element the sum takes next.
Some(s) == CHOOSE x \in s : TRUE

\* g holds the sum of every subset of D.
Sums(g, h, D) ==
    g = [s \in SUBSET D |-> IF s = {} THEN 0 ELSE h[Some(s)] + g[s \ {Some(s)}]]

\* There is one such function at most.
LEMMA SumsUnique ==
    ASSUME NEW D, IsFiniteSet(D), NEW h, NEW f, Sums(f, h, D), NEW g, Sums(g, h, D)
    PROVE  f = g
<1> DEFINE V == {s \in SUBSET D : f[s] = g[s]}
<1>1. ASSUME NEW s \in SUBSET D, \A r \in SUBSET s : r # s => r \in V PROVE s \in V
  <2>1. CASE s = {}
    BY <2>1 DEF Sums
  <2>2. CASE s # {}
    <3>1. Some(s) \in s
      BY <2>2 DEF Some
    <3>2. f[s \ {Some(s)}] = g[s \ {Some(s)}]
      BY <1>1, <3>1
    <3>3. /\ f[s] = h[Some(s)] + f[s \ {Some(s)}]
          /\ g[s] = h[Some(s)] + g[s \ {Some(s)}]
      BY <2>2 DEF Sums
    <3> QED
      BY <3>2, <3>3
  <2> QED
    BY <2>1, <2>2
<1> HIDE DEF V
<1>2. SUBSET D \subseteq V
  BY <1>1, SubsetInduction
<1> QED
  BY <1>2 DEF V, Sums

\* And there is one.
LEMMA SumsExist ==
    ASSUME NEW D, IsFiniteSet(D), NEW h
    PROVE  \E g : Sums(g, h, D)
<1> DEFINE Of(s) == CHOOSE g : Sums(g, h, s)
           V == {s \in SUBSET D : Sums(Of(s), h, s)}
<1>1. ASSUME NEW s \in SUBSET D, \A r \in SUBSET s : r # s => r \in V PROVE s \in V
  <2>1. ASSUME NEW r \in SUBSET s, r # s PROVE Sums(Of(r), h, r)
    BY <1>1, <2>1
  <2>2. ASSUME NEW r \in SUBSET s, r # s, NEW q \in SUBSET r PROVE Of(r)[q] = Of(q)[q]
    <3>1. q \in SUBSET s /\ q # s /\ IsFiniteSet(q)
      BY <2>2, FS_Subset
    <3>2. Sums(Of(r), h, r) /\ Sums(Of(q), h, q)
      BY <2>1, <2>2, <3>1
    <3> HIDE DEF Of
    <3>3. Sums([p \in SUBSET q |-> Of(r)[p]], h, q)
      BY <2>2, <3>2 DEF Sums
    <3>4. [p \in SUBSET q |-> Of(r)[p]] = Of(q)
      BY <3>1, <3>2, <3>3, SumsUnique
    <3>5. [p \in SUBSET q |-> Of(r)[p]][q] = Of(r)[q]
      OBVIOUS
    <3> QED
      BY <3>4, <3>5
  <2> HIDE DEF Of, V
  <2> DEFINE rest == s \ {Some(s)}
             whole == IF s = {} THEN 0 ELSE h[Some(s)] + Of(rest)[rest]
             g == [r \in SUBSET s |-> IF r = s THEN whole ELSE Of(r)[r]]
  <2>3. ASSUME NEW r \in SUBSET s
        PROVE  g[r] = IF r = {} THEN 0 ELSE h[Some(r)] + g[r \ {Some(r)}]
    <3>1. r # {} => Some(r) \in r
      BY DEF Some
    <3>2. CASE r = s
      BY <3>1, <3>2
    <3>3. CASE r # s /\ r = {}
      BY <2>1, <3>3 DEF Sums
    <3>4. CASE r # s /\ r # {}
      <4> DEFINE q == r \ {Some(r)}
      <4>1. q \in SUBSET r /\ q \in SUBSET s /\ q # s
        BY <3>1, <3>4
      <4>2. Of(r)[r] = h[Some(r)] + Of(r)[q]
        BY <2>1, <3>4 DEF Sums
      <4>3. Of(r)[q] = Of(q)[q]
        BY <2>2, <3>4, <4>1
      <4>4. g[r] = Of(r)[r] /\ g[q] = Of(q)[q]
        BY <3>4, <4>1
      <4> QED
        BY <3>4, <4>2, <4>3, <4>4
    <3> QED
      BY <3>2, <3>3, <3>4
  <2>4. g = [r \in SUBSET s |-> g[r]]
    OBVIOUS
  <2> HIDE DEF g
  <2>5. Sums(g, h, s)
    BY <2>3, <2>4 DEF Sums
  <2>6. Sums(Of(s), h, s)
    BY <2>5 DEF Of
  <2> QED
    BY <2>6 DEF V
<1> HIDE DEF V
<1>2. SUBSET D \subseteq V
  BY <1>1, SubsetInduction
<1> QED
  BY <1>2 DEF V

\* What Seen and Count compute.
Sum(h, D) == Frames!MapThenSumSet(LAMBDA b : h[b], D)

\* The sum the code's loop computes is of every subset in the same way.
LEMMA SumIsOne ==
    ASSUME NEW D, IsFiniteSet(D), NEW h
    PROVE  \E g : Sums(g, h, D) /\ Sum(h, D) = g[D]
<1>1. PICK g : Sums(g, h, D)
  BY SumsExist
<1> DEFINE iter == CHOOSE f : Sums(f, h, D)
<1>2. Sums(iter, h, D)
  BY <1>1
<1>3. Sum(h, D) = iter[D]
  BY DEF Sum, Frames!MapThenSumSet, Frames!MapThenFoldSet, Sums, Some
<1> QED
  BY <1>2, <1>3

\* One element and the others.
LEMMA SumStep ==
    ASSUME NEW D, IsFiniteSet(D), NEW h
    PROVE  Sum(h, D) = IF D = {} THEN 0 ELSE h[Some(D)] + Sum(h, D \ {Some(D)})
<1>1. PICK g : Sums(g, h, D) /\ Sum(h, D) = g[D]
  BY SumIsOne
<1>2. CASE D = {}
  BY <1>1, <1>2 DEF Sums
<1>3. CASE D # {}
  <2> DEFINE rest == D \ {Some(D)}
  <2>1. IsFiniteSet(rest) /\ rest \subseteq D
    BY FS_Subset
  <2>2. PICK f : Sums(f, h, rest) /\ Sum(h, rest) = f[rest]
    BY <2>1, SumIsOne
  <2> HIDE DEF rest
  <2>3. Sums([s \in SUBSET rest |-> g[s]], h, rest)
    BY <1>1, <2>1 DEF Sums
  <2>4. [s \in SUBSET rest |-> g[s]] = f
    BY <2>1, <2>2, <2>3, SumsUnique
  <2>5. [s \in SUBSET rest |-> g[s]][rest] = g[rest]
    OBVIOUS
  <2>6. g[D] = h[Some(D)] + g[rest]
    BY <1>1, <1>3 DEF Sums, rest
  <2> QED
    BY <1>1, <1>3, <2>2, <2>4, <2>5, <2>6 DEF rest
<1> QED
  BY <1>2, <1>3
\* A sum of naturals is one.
LEMMA SumNat ==
    ASSUME NEW D, IsFiniteSet(D), NEW h, \A b \in D : h[b] \in Nat
    PROVE  Sum(h, D) \in Nat
<1> DEFINE V == {s \in SUBSET D : Sum(h, s) \in Nat}
<1> HIDE DEF Sum
<1>1. ASSUME NEW s \in SUBSET D, \A r \in SUBSET s : r # s => r \in V PROVE s \in V
  <2>1. IsFiniteSet(s)
    BY FS_Subset
  <2>2. CASE s = {}
    <3>1. Sum(h, s) = 0
      BY <2>1, <2>2, SumStep
    <3> QED
      BY <3>1
  <2>3. CASE s # {}
    <3>1. Some(s) \in s
      BY <2>3 DEF Some
    <3>2. Sum(h, s \ {Some(s)}) \in Nat
      BY <1>1, <3>1
    <3>3. Sum(h, s) = h[Some(s)] + Sum(h, s \ {Some(s)})
      BY <2>1, <2>3, SumStep
    <3>4. h[Some(s)] \in Nat
      BY <3>1
    <3> QED
      BY <3>2, <3>3, <3>4
  <2> QED
    BY <2>2, <2>3
<1> HIDE DEF V
<1>2. SUBSET D \subseteq V
  BY <1>1, SubsetInduction
<1> QED
  BY <1>2 DEF V

\* Any element may be taken out first.
LEMMA SumTakes ==
    ASSUME NEW D, IsFiniteSet(D), NEW h, \A b \in D : h[b] \in Nat, NEW a \in D
    PROVE  /\ Sum(h, D) = h[a] + Sum(h, D \ {a})
           /\ Sum(h, D) \in Nat /\ Sum(h, D \ {a}) \in Nat
<1> DEFINE V == {s \in SUBSET D : \A c \in s : Sum(h, s) = h[c] + Sum(h, s \ {c})}
<1> HIDE DEF Sum
<1>1. ASSUME NEW s \in SUBSET D PROVE IsFiniteSet(s) /\ Sum(h, s) \in Nat
  <2>1. IsFiniteSet(s)
    BY FS_Subset
  <2> QED
    BY <2>1, SumNat
<1>2. ASSUME NEW s \in SUBSET D, \A r \in SUBSET s : r # s => r \in V PROVE s \in V
  <2> SUFFICES ASSUME NEW c \in s PROVE Sum(h, s) = h[c] + Sum(h, s \ {c})
    OBVIOUS
  <2> DEFINE x == Some(s)
             both == s \ {x, c}
  <2>1. x \in s
    BY DEF Some
  <2>2. Sum(h, s) = h[x] + Sum(h, s \ {x})
    BY <1>1, SumStep
  <2>3. CASE x = c
    BY <2>2, <2>3
  <2>4. CASE x # c
    <3>1. s \ {x} \in V /\ c \in s \ {x} /\ s \ {c} \in V /\ x \in s \ {c}
      BY <1>2, <2>1, <2>4
    <3>2. (s \ {x}) \ {c} = both /\ (s \ {c}) \ {x} = both
      OBVIOUS
    <3>3. Sum(h, s \ {x}) = h[c] + Sum(h, both) /\ Sum(h, s \ {c}) = h[x] + Sum(h, both)
      BY <3>1, <3>2
    <3>4. h[x] \in Nat /\ h[c] \in Nat /\ Sum(h, both) \in Nat
      BY <1>1, <2>1
    <3> HIDE DEF x, both
    <3> QED
      BY <2>2, <3>3, <3>4
  <2> QED
    BY <2>3, <2>4
<1> HIDE DEF V
<1>3. SUBSET D \subseteq V
  BY <1>2, SubsetInduction
<1>4. D \in V
  BY <1>3
<1> QED
  BY <1>1, <1>4 DEF V

\* Counts that agree on a set have one sum over it.
LEMMA SumAgrees ==
    ASSUME NEW D, IsFiniteSet(D), NEW h, NEW k, \A b \in D : h[b] = k[b]
    PROVE  Sum(h, D) = Sum(k, D)
<1> DEFINE V == {s \in SUBSET D : Sum(h, s) = Sum(k, s)}
<1> HIDE DEF Sum
<1>1. ASSUME NEW s \in SUBSET D, \A r \in SUBSET s : r # s => r \in V PROVE s \in V
  <2>1. IsFiniteSet(s)
    BY FS_Subset
  <2>2. s # {} => Some(s) \in s
    BY DEF Some
  <2>3. s # {} => Sum(h, s \ {Some(s)}) = Sum(k, s \ {Some(s)})
    BY <1>1, <2>2
  <2>4. /\ Sum(h, s) = IF s = {} THEN 0 ELSE h[Some(s)] + Sum(h, s \ {Some(s)})
        /\ Sum(k, s) = IF s = {} THEN 0 ELSE k[Some(s)] + Sum(k, s \ {Some(s)})
    BY <2>1, SumStep
  <2>5. s # {} => h[Some(s)] = k[Some(s)]
    BY <2>2
  <2> QED
    BY <2>3, <2>4, <2>5
<1> HIDE DEF V
<1>2. SUBSET D \subseteq V
  BY <1>1, SubsetInduction
<1> QED
  BY <1>2 DEF V

\* Sums are linear: what three counts do bucket by bucket, their sums do.
LEMMA SumAdds ==
    ASSUME NEW D, IsFiniteSet(D), NEW h, NEW k, NEW m,
           \A b \in D : h[b] \in Nat /\ k[b] \in Nat /\ m[b] = h[b] + k[b]
    PROVE  Sum(m, D) = Sum(h, D) + Sum(k, D)
<1> DEFINE V == {s \in SUBSET D : Sum(m, s) = Sum(h, s) + Sum(k, s)}
<1> HIDE DEF Sum
<1>1. ASSUME NEW s \in SUBSET D, \A r \in SUBSET s : r # s => r \in V PROVE s \in V
  <2>1. IsFiniteSet(s)
    BY FS_Subset
  <2>2. CASE s = {}
    <3>1. Sum(h, s) = 0 /\ Sum(k, s) = 0 /\ Sum(m, s) = 0
      BY <2>1, <2>2, SumStep
    <3> QED
      BY <3>1
  <2>3. CASE s # {}
    <3> DEFINE x == Some(s)
               rest == s \ {x}
    <3>1. x \in s
      BY <2>3 DEF Some
    <3>2. rest \in V /\ IsFiniteSet(rest) /\ rest \subseteq D
      BY <1>1, <2>1, <3>1, FS_Subset
    <3>3. /\ Sum(h, s) = h[x] + Sum(h, rest)
          /\ Sum(k, s) = k[x] + Sum(k, rest)
          /\ Sum(m, s) = m[x] + Sum(m, rest)
      BY <2>1, <2>3, SumStep
    <3> HIDE DEF x
    <3>4. Sum(h, rest) \in Nat /\ Sum(k, rest) \in Nat /\ Sum(m, rest) = Sum(h, rest) + Sum(k, rest)
      BY <3>2, SumNat
    <3>5. h[x] \in Nat /\ k[x] \in Nat /\ m[x] = h[x] + k[x]
      BY <3>1
    <3> HIDE DEF rest
    <3> QED
      BY <3>3, <3>4, <3>5
  <2> QED
    BY <2>2, <2>3
<1> HIDE DEF V
<1>2. SUBSET D \subseteq V
  BY <1>1, SubsetInduction
<1> QED
  BY <1>2 DEF V

\* Buckets that count nothing do not change a sum.
LEMMA SumOver ==
    ASSUME NEW D, IsFiniteSet(D), NEW h, NEW k, NEW E \in SUBSET D,
           \A b \in D : h[b] \in Nat /\ k[b] = IF b \in E THEN h[b] ELSE 0
    PROVE  Sum(k, D) = Sum(h, E)
<1> DEFINE V == {s \in SUBSET D : Sum(k, s) = Sum(h, s \cap E)}
<1> HIDE DEF Sum
<1>1. ASSUME NEW s \in SUBSET D, \A r \in SUBSET s : r # s => r \in V PROVE s \in V
  <2>1. IsFiniteSet(s)
    BY FS_Subset
  <2>2. CASE s = {}
    <3>1. s \cap E = s /\ Sum(h, s) = 0 /\ Sum(k, s) = 0
      BY <2>1, <2>2, SumStep
    <3> QED
      BY <3>1
  <2>3. CASE s # {}
    <3> DEFINE x == Some(s)
               rest == s \ {x}
    <3>1. x \in s
      BY <2>3 DEF Some
    <3>2. Sum(k, rest) = Sum(h, rest \cap E)
      BY <1>1, <3>1
    <3>3. Sum(k, s) = k[x] + Sum(k, rest)
      BY <2>1, <2>3, SumStep
    <3>4. IsFiniteSet(s \cap E) /\ s \cap E \subseteq D /\ IsFiniteSet(rest \cap E)
      BY <2>1, FS_Subset
    <3> HIDE DEF x
    <3>5. Sum(h, rest \cap E) \in Nat
      BY <3>4, SumNat
    <3>6. CASE x \in E
      <4>1. x \in s \cap E /\ (s \cap E) \ {x} = rest \cap E
        BY <3>1, <3>6
      <4>2. Sum(h, s \cap E) = h[x] + Sum(h, rest \cap E)
        BY <3>4, <4>1, SumTakes
      <4> QED
        BY <3>1, <3>2, <3>3, <3>6, <4>2
    <3>7. CASE x \notin E
      <4>1. s \cap E = rest \cap E
        BY <3>7
      <4>2. k[x] = 0
        BY <3>1, <3>7
      <4> HIDE DEF rest
      <4>3. Sum(k, s) = Sum(h, rest \cap E)
        BY <3>2, <3>3, <3>5, <4>2
      <4> QED
        BY <4>1, <4>3
    <3> QED
      BY <3>6, <3>7
  <2> QED
    BY <2>2, <2>3
<1> HIDE DEF V
<1>2. SUBSET D \subseteq V
  BY <1>1, SubsetInduction
<1>3. D \cap E = E
  OBVIOUS
<1> QED
  BY <1>2, <1>3 DEF V
-----------------------------------------------------------------------------
(* The frame counts: the reader's windows and their quantiles *)

\* The counts of a histogram.
Counts == [Frames!Buckets -> Nat]

\* What the loop has seen by a bucket, and in the end, are sums over finite sets.
LEMMA CountsAreSums ==
    /\ \A h, b : Frames!Seen(h, b) = Sum(h, 0..b)
    /\ \A h : Frames!Count(h) = Sum(h, Frames!Buckets)
    /\ \A b \in Int : IsFiniteSet(0..b)
    /\ IsFiniteSet(Frames!Buckets)
    /\ Frames!LastBucket \in Nat /\ Frames!Buckets = 0..Frames!LastBucket
<1>1. \A b \in Int : IsFiniteSet(0..b)
  BY FS_Interval
<1>2. Frames!LastBucket \in Nat /\ Frames!Buckets = 0..Frames!LastBucket
  BY FullAssumption DEF Frames!LastBucket, Frames!Buckets
<1>3. \A h, b : Frames!Seen(h, b) = Sum(h, 0..b)
  BY DEF Sum, Frames!Seen
<1> QED
  BY <1>1, <1>2, <1>3 DEF Frames!Count

\* What the command processor counted and the reader copied only grows, and the
\* bound keeps every count below the width at which it would wrap.
FramesInv ==
    /\ buckets \in Counts /\ earlier \in Counts /\ latest \in Counts
    /\ \A b \in Frames!Buckets : earlier[b] <= latest[b] /\ latest[b] <= buckets[b]
    /\ Frames!Count(buckets) <= MaxIntervals

\* No count exceeds the sum.
LEMMA CountsBounded ==
    ASSUME NEW h \in Counts
    PROVE  Frames!Count(h) \in Nat /\ \A b \in Frames!Buckets : h[b] <= Frames!Count(h)
<1> HIDE DEF Sum
<1>1. IsFiniteSet(Frames!Buckets) /\ Frames!Count(h) = Sum(h, Frames!Buckets)
      /\ \A b \in Frames!Buckets : h[b] \in Nat
  BY CountsAreSums DEF Counts
<1>2. Sum(h, Frames!Buckets) \in Nat
  BY <1>1, SumNat
<1>3. ASSUME NEW b \in Frames!Buckets PROVE h[b] <= Sum(h, Frames!Buckets)
  <2>1. /\ Sum(h, Frames!Buckets) = h[b] + Sum(h, Frames!Buckets \ {b})
        /\ Sum(h, Frames!Buckets \ {b}) \in Nat
    BY <1>1, SumTakes
  <2> QED
    BY <1>1, <1>2, <2>1
<1> QED
  BY <1>1, <1>2, <1>3

\* Below the width, a difference is itself.
LEMMA SmallModulus ==
    ASSUME NEW n \in Nat, NEW m \in Nat, n < m
    PROVE  n % m = n
OBVIOUS

\* A window between two counts of which none has wrapped holds the difference.
LEMMA WindowHoldsDifference ==
    ASSUME NEW later \in Counts, NEW before \in Counts,
           \A b \in Frames!Buckets : before[b] <= later[b] /\ later[b] < 2^Width
    PROVE  /\ Frames!Since(later, before) \in Counts
           /\ Frames!Count(later) = Frames!Count(before) + Frames!Count(Frames!Since(later, before))
<1> DEFINE window == Frames!Since(later, before)
<1>1. ASSUME NEW b \in Frames!Buckets
      PROVE  later[b] \in Nat /\ before[b] \in Nat /\ window[b] = later[b] - before[b]
  <2>1. later[b] \in Nat /\ before[b] \in Nat /\ before[b] <= later[b] /\ later[b] < 2^Width
    BY DEF Counts
  <2>2. 2^Width \in Nat
    BY FullAssumption
  <2>3. window[b] = (later[b] - before[b]) % 2^Width
    BY DEF Frames!Since
  <2> DEFINE d == later[b] - before[b]
             m == 2^Width
  <2>4. d \in Nat /\ d < m /\ m \in Nat
    BY <2>1, <2>2
  <2>5. d % m = d
    <3> HIDE DEF d, m
    <3> QED
      BY <2>4, SmallModulus
  <2> QED
    BY <2>1, <2>3, <2>5
<1>2. window \in [Frames!Buckets -> Int]
  <2>1. window = [b \in Frames!Buckets |-> window[b]]
    BY DEF Frames!Since
  <2> HIDE DEF window
  <2> QED
    BY <1>1, <2>1
<1> HIDE DEF window
<1>3. window \in Counts
  <2>1. ASSUME NEW b \in Frames!Buckets PROVE window[b] \in Nat
    BY <1>1
  <2> QED
    BY <1>2, <2>1 DEF Counts
<1>4. \A b \in Frames!Buckets :
        before[b] \in Nat /\ window[b] \in Nat /\ later[b] = before[b] + window[b]
  BY <1>1, <1>3 DEF Counts
<1> HIDE DEF Sum
<1>5. Sum(later, Frames!Buckets) = Sum(before, Frames!Buckets) + Sum(window, Frames!Buckets)
  BY <1>4, CountsAreSums, SumAdds
<1> QED
  BY <1>3, <1>5, CountsAreSums DEF window

\* Every window of the reader is one of these.
LEMMA WindowsHold ==
    ASSUME FramesInv
    PROVE  /\ WindowsPartitionIntervals
           /\ Frames!Since(buckets, earlier) \in Counts
<1> DEFINE Fits(later, before) ==
        /\ later \in Counts /\ before \in Counts
        /\ \A b \in Frames!Buckets : before[b] <= later[b] /\ later[b] < 2^Width
<1>1. /\ buckets \in Counts /\ earlier \in Counts /\ latest \in Counts
      /\ \A b \in Frames!Buckets :
            /\ buckets[b] \in Nat /\ earlier[b] \in Nat /\ latest[b] \in Nat
            /\ earlier[b] <= latest[b] /\ latest[b] <= buckets[b] /\ buckets[b] < 2^Width
  <2>1. Frames!Count(buckets) \in Nat /\ \A b \in Frames!Buckets : buckets[b] <= Frames!Count(buckets)
    BY CountsBounded DEF FramesInv
  <2>2. Frames!Count(buckets) <= MaxIntervals /\ MaxIntervals \in Nat /\ 2^Width \in Nat
        /\ MaxIntervals < 2^Width
    BY FullAssumption DEF FramesInv
  <2> DEFINE m == 2^Width
  <2> HIDE DEF m
  <2>3. \A b \in Frames!Buckets : buckets[b] \in Nat => buckets[b] < m
    BY <2>1, <2>2 DEF m
  <2> QED
    BY <2>3 DEF FramesInv, Counts, m
<1>2. Frames!Empty \in Counts /\ \A b \in Frames!Buckets : Frames!Empty[b] = 0
  BY DEF Frames!Empty, Counts
<1>3. Frames!Count(Frames!Empty) \in Nat /\ Frames!Count(buckets) \in Nat
      /\ Frames!Count(earlier) \in Nat /\ Frames!Count(latest) \in Nat
  BY <1>1, <1>2, CountsBounded
<1> DEFINE m == 2^Width
<1>4. Fits(earlier, Frames!Empty) /\ Fits(latest, earlier) /\ Fits(buckets, latest) /\ Fits(buckets, earlier)
  <2>1. m \in Nat
    BY FullAssumption
  <2> HIDE DEF m
  <2> SUFFICES ASSUME NEW b \in Frames!Buckets
               PROVE  /\ 0 <= earlier[b] /\ earlier[b] < m
                      /\ earlier[b] <= latest[b] /\ latest[b] < m
                      /\ latest[b] <= buckets[b] /\ buckets[b] < m
                      /\ earlier[b] <= buckets[b]
    BY <1>1, <1>2 DEF m
  <2> QED
    BY <1>1, <2>1 DEF m
<1>5. ASSUME NEW later, NEW before, Fits(later, before)
      PROVE  /\ Frames!Since(later, before) \in Counts
             /\ Frames!Count(Frames!Since(later, before)) \in Nat
             /\ Frames!Count(later) = Frames!Count(before) + Frames!Count(Frames!Since(later, before))
  <2>1. /\ Frames!Since(later, before) \in Counts
        /\ Frames!Count(later) = Frames!Count(before) + Frames!Count(Frames!Since(later, before))
    BY <1>5, WindowHoldsDifference
  <2> QED
    BY <2>1, CountsBounded
<1> HIDE DEF Fits
<1>6. Frames!Count(earlier) = Frames!Count(Frames!Empty)
          + Frames!Count(Frames!Since(earlier, Frames!Empty))
      /\ Frames!Count(Frames!Since(earlier, Frames!Empty)) \in Nat
  BY <1>4, <1>5
<1>7. Frames!Count(latest) = Frames!Count(earlier) + Frames!Count(Frames!Since(latest, earlier))
      /\ Frames!Count(Frames!Since(latest, earlier)) \in Nat
  BY <1>4, <1>5
<1>8. Frames!Count(buckets) = Frames!Count(latest) + Frames!Count(Frames!Since(buckets, latest))
      /\ Frames!Count(Frames!Since(buckets, latest)) \in Nat
  BY <1>4, <1>5
<1>9. WindowsPartitionIntervals
  <2>1. /\ Frames!Count(Frames!Since(earlier, Frames!Empty)) <= Frames!Count(buckets)
        /\ Frames!Count(Frames!Since(latest, earlier)) <= Frames!Count(buckets)
        /\ Frames!Count(Frames!Since(buckets, latest)) <= Frames!Count(buckets)
        /\ Frames!Count(buckets) = Frames!Count(earlier)
              + Frames!Count(Frames!Since(latest, earlier))
              + Frames!Count(Frames!Since(buckets, latest))
    BY <1>3, <1>6, <1>7, <1>8
  <2> QED
    BY <2>1 DEF WindowsPartitionIntervals, Frames!WindowsPartitionIntervals
<1> QED
  BY <1>4, <1>5, <1>9
\* One interval more in one bucket is one more in all.
LEMMA PresentCounts ==
    ASSUME FramesInv, Frames!Present
    PROVE  FramesInv'
<1>1. PICK b \in Frames!Buckets : buckets' = [buckets EXCEPT ![b] = @ + 1]
  BY DEF Frames!Present
<1>2. buckets \in Counts /\ \A c \in Frames!Buckets : buckets[c] \in Nat
  BY DEF FramesInv, Counts
<1>3. /\ buckets' \in Counts
      /\ \A c \in Frames!Buckets : buckets'[c] = IF c = b THEN buckets[c] + 1 ELSE buckets[c]
  BY <1>1, <1>2 DEF Counts
<1> DEFINE others == Frames!Buckets \ {b}
<1> HIDE DEF Sum
<1>4. /\ Sum(buckets, Frames!Buckets) = buckets[b] + Sum(buckets, others)
      /\ Sum(buckets', Frames!Buckets) = buckets'[b] + Sum(buckets', others)
      /\ Sum(buckets, others) \in Nat
  <2>1. \A c \in Frames!Buckets : buckets'[c] \in Nat
    BY <1>3 DEF Counts
  <2>2. IsFiniteSet(Frames!Buckets)
    BY CountsAreSums
  <2>3. /\ Sum(buckets, Frames!Buckets) = buckets[b] + Sum(buckets, others)
        /\ Sum(buckets, others) \in Nat
    BY <1>2, <2>2, SumTakes
  <2>4. Sum(buckets', Frames!Buckets) = buckets'[b] + Sum(buckets', others)
    BY <2>1, <2>2, SumTakes
  <2> QED
    BY <2>3, <2>4
<1>5. Sum(buckets', others) = Sum(buckets, others)
  <2>1. IsFiniteSet(others)
    BY CountsAreSums, FS_Subset
  <2>2. \A c \in others : buckets'[c] = buckets[c]
    BY <1>3
  <2> QED
    BY <2>1, <2>2, SumAgrees
<1> HIDE DEF others
<1>6. Sum(buckets', Frames!Buckets) = Sum(buckets, Frames!Buckets) + 1
  BY <1>2, <1>3, <1>4, <1>5
<1>7. /\ Frames!Count(buckets) = Sum(buckets, Frames!Buckets)
      /\ Frames!Count(buckets)' = Sum(buckets', Frames!Buckets)
  BY CountsAreSums
<1>8. Frames!Count(buckets)' <= MaxIntervals
  <2>1. Frames!Count(buckets) < MaxIntervals /\ Frames!Count(buckets) \in Nat /\ MaxIntervals \in Int
    BY <1>2, CountsBounded, FullAssumption DEF Frames!Present
  <2> QED
    BY <1>6, <1>7, <2>1
<1>9. \A c \in Frames!Buckets : earlier[c] <= latest[c] /\ latest[c] <= buckets'[c]
  <2> SUFFICES ASSUME NEW c \in Frames!Buckets
               PROVE  earlier[c] <= latest[c] /\ latest[c] <= buckets'[c]
    OBVIOUS
  <2>1. latest[c] \in Nat /\ earlier[c] <= latest[c] /\ latest[c] <= buckets[c] /\ buckets[c] \in Nat
    BY <1>2 DEF FramesInv, Counts
  <2>2. buckets'[c] = buckets[c] \/ buckets'[c] = buckets[c] + 1
    BY <1>3
  <2> QED
    BY <2>1, <2>2
<1> QED
  BY <1>3, <1>8, <1>9 DEF FramesInv, Frames!Present

\* Nobody counts or copies but the command processor and the reader.
LEMMA FramesInvariance == FullSpec => []FramesInv
<1>1. FullInit => FramesInv
  <2> SUFFICES ASSUME FullInit PROVE FramesInv
    OBVIOUS
  <2>1. buckets = Frames!Empty /\ earlier = Frames!Empty /\ latest = Frames!Empty
    BY DEF FullInit, Frames!FramesInit
  <2>2. Frames!Empty \in Counts /\ \A b \in Frames!Buckets : Frames!Empty[b] = 0
    BY DEF Frames!Empty, Counts
  <2>3. Frames!Count(Frames!Empty) = 0
    <3> DEFINE none == Frames!Empty
    <3> HIDE DEF Sum, none
    <3>1. IsFiniteSet(Frames!Buckets) /\ Frames!Count(none) = Sum(none, Frames!Buckets)
          /\ IsFiniteSet({}) /\ Sum(none, {}) = 0
      BY CountsAreSums, FS_EmptySet, SumStep
    <3>2. \A b \in Frames!Buckets : none[b] \in Nat /\ none[b] = IF b \in {} THEN none[b] ELSE 0
      BY <2>2 DEF none
    <3>3. Sum(none, Frames!Buckets) = Sum(none, {})
      BY <3>1, <3>2, SumOver
    <3> QED
      BY <3>1, <3>3 DEF none
  <2> QED
    BY <2>1, <2>2, <2>3, FullAssumption DEF FramesInv
<1>2. FramesInv /\ [FullNext]_fullVars => FramesInv'
  <2> SUFFICES ASSUME FramesInv, [FullNext]_fullVars PROVE FramesInv'
    OBVIOUS
  <2>1. CASE UNCHANGED frameVars
    BY <2>1 DEF frameVars, FramesInv
  <2>2. CASE CountPresent
    BY <2>2, PresentCounts DEF CountPresent
  <2>3. CASE ReadFrames
    <3>1. earlier' = latest /\ latest' = buckets /\ buckets' = buckets
      BY <2>3 DEF ReadFrames, Frames!TakeSnapshot
    <3>2. \A b \in Frames!Buckets : buckets[b] <= buckets[b]
      BY DEF FramesInv, Counts
    <3> QED
      BY <3>1, <3>2 DEF FramesInv
  <2>4. ASSUME NEW t \in Threads, GuestThread(t) \/ OverrideFails(t) PROVE UNCHANGED frameVars
    BY <2>4 DEF GuestThread, OverrideFails, titleVars
  <2> QED
    BY <2>1, <2>2, <2>3, <2>4 DEF FullNext, fullVars, titleVars, HostStep
<1> QED
  BY <1>1, <1>2, PTL DEF FullSpec

\* A rank is less than one interval above a share of a count, and below it by what
\* a double may round away.
LEMMA RanksAreShares ==
    ASSUME NEW f \in Fractions, NEW count \in Nat, count # 0, NEW rank \in Frames!Ranks(f, count)
    PROVE  /\ rank \in Nat /\ rank >= 1 /\ rank <= count
           /\ Rounding * (f[2] * rank) >= (Rounding - 1) * (f[1] * count)
           /\ f[2] * (rank - 1) < f[1] * count
<1> DEFINE n == f[1]
           d == f[2]
           share == n * count
           up == (share + d - 1) \div d
           whole == share \div d
<1>1. n \in Nat /\ n >= 1 /\ d \in Nat /\ d >= 1 /\ n <= d /\ Rounding \in Nat
  BY FullAssumption
<1>2. rank = up \/ (rank = whole /\ rank # 0 /\ Rounding * (share - d * rank) <= share)
  BY DEF Frames!Ranks
<1> HIDE DEF n, d
<1>3. share \in Nat /\ share >= 1 /\ share <= d * count
  BY <1>1
<1> HIDE DEF share
<1>4. CASE rank = up
  <2>1. rank \in Int /\ d * rank <= share + d - 1 /\ share + d - 1 < d * (rank + 1)
    BY <1>1, <1>3, <1>4
  <2>2. d * (rank + 1) = d * rank + d /\ d * (rank - 1) = d * rank - d /\ d * rank \in Int
    BY <1>1, <2>1
  <2>3. d * rank >= share /\ d * (rank - 1) < share
    BY <1>1, <1>3, <2>1, <2>2
  <2>4. rank >= 1 /\ rank <= count
    BY <1>1, <1>3, <2>1, <2>3
  <2>5. Rounding * (d * rank) >= Rounding * share
    BY <1>1, <1>3, <2>2, <2>3
  <2>6. (Rounding - 1) * share = Rounding * share - share /\ Rounding * share \in Int
    BY <1>1, <1>3
  <2>7. Rounding * (d * rank) \in Int
    BY <1>1, <2>2
  <2>8. Rounding * (d * rank) >= (Rounding - 1) * share
    BY <1>3, <2>5, <2>6, <2>7
  <2> QED
    BY <2>1, <2>3, <2>4, <2>8 DEF share, n, d
<1>5. CASE rank = whole /\ rank # 0 /\ Rounding * (share - d * rank) <= share
  <2>1. rank \in Int /\ d * rank <= share /\ share < d * (rank + 1)
    BY <1>1, <1>3, <1>5
  <2>2. d * (rank + 1) = d * rank + d /\ d * (rank - 1) = d * rank - d /\ d * rank \in Int
    BY <1>1, <2>1
  <2>3. d * (rank - 1) < share
    BY <1>1, <1>3, <2>1, <2>2
  <2>4. rank >= 0
    BY <1>1, <1>3, <2>1
  <2>5. rank >= 1 /\ rank <= count
    BY <1>1, <1>3, <1>5, <2>1, <2>3, <2>4
  <2>6. Rounding * (share - d * rank) = Rounding * share - Rounding * (d * rank)
    BY <1>1, <1>3, <2>2
  <2>7. (Rounding - 1) * share = Rounding * share - share /\ Rounding * share \in Int
    BY <1>1, <1>3
  <2>8. Rounding * (d * rank) \in Int
    BY <1>1, <2>2
  <2>9. Rounding * (d * rank) >= (Rounding - 1) * share
    BY <1>3, <1>5, <2>6, <2>7, <2>8
  <2> QED
    BY <2>1, <2>3, <2>5, <2>9 DEF share, n, d
<1> QED
  BY <1>2, <1>4, <1>5

\* The intervals below an edge are what the loop has seen before the edge's bucket.
LEMMA BelowIsSeen ==
    ASSUME NEW h \in Counts, NEW edge \in Nat, edge <= BucketCount
    PROVE  Frames!Count([b \in Frames!Buckets |-> IF b < edge THEN h[b] ELSE 0])
             = Sum(h, 0..(edge - 1))
<1> DEFINE k == [b \in Frames!Buckets |-> IF b < edge THEN h[b] ELSE 0]
<1> HIDE DEF Sum
<1>1. 0..(edge - 1) \in SUBSET Frames!Buckets /\ IsFiniteSet(Frames!Buckets)
  BY FullAssumption, CountsAreSums DEF Frames!Buckets
<1>2. \A b \in Frames!Buckets : h[b] \in Nat /\ k[b] = IF b \in 0..(edge - 1) THEN h[b] ELSE 0
  <2> SUFFICES ASSUME NEW b \in Frames!Buckets
               PROVE  h[b] \in Nat /\ k[b] = IF b \in 0..(edge - 1) THEN h[b] ELSE 0
    OBVIOUS
  <2>1. b \in Nat /\ (b < edge <=> b \in 0..(edge - 1))
    BY FullAssumption DEF Frames!Buckets
  <2> QED
    BY <2>1 DEF Counts
<1> HIDE DEF k
<1>3. Sum(k, Frames!Buckets) = Sum(h, 0..(edge - 1))
  BY <1>1, <1>2, SumOver
<1> QED
  BY <1>3, CountsAreSums DEF k

\* Numbers have a least one, which Min chooses.
LEMMA LeastBucket ==
    ASSUME NEW T \in SUBSET Frames!Buckets, T # {}
    PROVE  Frames!Min(T) \in T /\ \A b \in T : Frames!Min(T) <= b
<1> DEFINE V == {s \in SUBSET Frames!Buckets : s # {} => \E m \in s : \A b \in s : m <= b}
<1>1. Frames!Buckets \subseteq Nat /\ IsFiniteSet(Frames!Buckets)
  BY CountsAreSums DEF Frames!Buckets
<1>2. ASSUME NEW s \in SUBSET Frames!Buckets, \A r \in SUBSET s : r # s => r \in V
      PROVE  s \in V
  <2> SUFFICES ASSUME NEW x \in s PROVE \E m \in s : \A b \in s : m <= b
    OBVIOUS
  <2>1. CASE s = {x}
    BY <1>1, <2>1
  <2>2. CASE s # {x}
    <3>1. s \ {x} \in V
      BY <1>2
    <3> s \ {x} # {}
      BY <2>2
    <3>2. PICK m \in s \ {x} : \A b \in s \ {x} : m <= b
      BY <3>1
    <3>3. x \in Nat /\ m \in Nat /\ \A b \in s : b \in Nat
      BY <1>1
    <3>4. CASE x <= m
      BY <3>2, <3>3, <3>4
    <3>5. CASE m <= x
      BY <3>2, <3>3, <3>5
    <3> QED
      BY <3>3, <3>4, <3>5
  <2> QED
    BY <2>1, <2>2
<1> HIDE DEF V
<1>3. SUBSET Frames!Buckets \subseteq V
  BY <1>1, <1>2, SubsetInduction
<1>4. \E m \in T : \A b \in T : m <= b
  BY <1>3 DEF V
<1> QED
  BY <1>4 DEF Frames!Min

\* A quantile of any window covers its share as a double tells it, and the bucket
\* before does not.
LEMMA QuantileCovers ==
    ASSUME NEW w \in Counts, NEW f \in Fractions, NEW q \in Frames!Quantile(w, f)
    PROVE  LET Below(edge) ==
                   Frames!Count([b \in Frames!Buckets |-> IF b < edge THEN w[b] ELSE 0])
               lower == IF q.openEnded THEN q.edge ELSE q.edge - 1
               share == f[1] * Frames!Count(w)
           IN  /\ f[2] * Below(lower) < share
               /\ ~q.openEnded => Rounding * (f[2] * Below(q.edge)) >= (Rounding - 1) * share
               /\ q.openEnded => q.edge = Frames!LastBucket
<1> DEFINE Below(edge) == Frames!Count([b \in Frames!Buckets |-> IF b < edge THEN w[b] ELSE 0])
           count == Frames!Count(w)
           TB(rank) == {b \in Frames!Buckets : Frames!Seen(w, b) >= rank}
<1>0. count # 0 /\ \E rank \in Frames!Ranks(f, count) : q = Frames!Answer(Frames!Min(TB(rank)))
  BY DEF Frames!Quantile
<1>17. PICK rank \in Frames!Ranks(f, count) : q = Frames!Answer(Frames!Min(TB(rank)))
  BY <1>0
<1> DEFINE T == TB(rank)
           bucket == Frames!Min(T)
           last == Frames!LastBucket
<1> HIDE DEF Sum
<1>1. /\ count # 0
      /\ q = [edge |-> IF bucket = last THEN bucket ELSE bucket + 1, openEnded |-> bucket = last]
  BY <1>0, <1>17 DEF Frames!Answer
<1>2. /\ count \in Nat /\ last \in Nat /\ Frames!Buckets = 0..last /\ BucketCount = last + 1
      /\ \A h, b : Frames!Seen(h, b) = Sum(h, 0..b)
      /\ Frames!Count(w) = Sum(w, 0..last)
  BY CountsBounded, CountsAreSums, FullAssumption DEF Frames!LastBucket
<1>3. ASSUME NEW b \in Int, b <= last PROVE Sum(w, 0..b) \in Nat
  <2>1. IsFiniteSet(0..b) /\ \A c \in 0..b : w[c] \in Nat
    BY <1>2, <1>3, CountsAreSums DEF Counts
  <2> QED
    BY <2>1, SumNat
<1>4. /\ rank \in Nat /\ rank >= 1 /\ rank <= count
      /\ Rounding * (f[2] * rank) >= (Rounding - 1) * (f[1] * count)
      /\ f[2] * (rank - 1) < f[1] * count
  BY <1>1, <1>2, RanksAreShares
<1>5. last \in T
  BY <1>2, <1>4
<1>6. bucket \in T /\ \A b \in T : bucket <= b
  BY <1>5, LeastBucket
<1>7. bucket \in 0..last /\ Sum(w, 0..bucket) >= rank
  BY <1>2, <1>6
<1>16. \A b \in 0..last : bucket <= b \/ ~(Sum(w, 0..b) >= rank)
  BY <1>2, <1>6
<1> HIDE DEF T, TB, bucket
<1>8. Sum(w, 0..(bucket - 1)) < rank /\ Sum(w, 0..(bucket - 1)) \in Nat
  <2>1. Sum(w, 0..(bucket - 1)) \in Nat
    BY <1>2, <1>3, <1>7
  <2>2. CASE bucket = 0
    <3>1. 0..(bucket - 1) = {} /\ IsFiniteSet({})
      BY <2>2, FS_EmptySet
    <3>2. Sum(w, {}) = 0
      BY <3>1, SumStep
    <3>3. Sum(w, 0..(bucket - 1)) = 0
      BY <3>1, <3>2, Zenon
    <3>4. rank \in Nat /\ rank >= 1
      BY <1>4
    <3> QED
      BY <3>3, <3>4
  <2>3. CASE bucket # 0
    <3>1. bucket - 1 \in 0..last /\ ~(bucket <= bucket - 1)
      BY <1>2, <1>7, <2>3
    <3>2. ~(Sum(w, 0..(bucket - 1)) >= rank)
      BY <1>16, <3>1
    <3> QED
      BY <1>4, <2>1, <3>2
  <2> QED
    BY <2>1, <2>2, <2>3
<1>9. /\ Below(bucket) = Sum(w, 0..(bucket - 1))
      /\ Below(bucket + 1) = Sum(w, 0..bucket)
  <2>1. bucket \in Nat /\ bucket <= BucketCount /\ bucket + 1 \in Nat /\ bucket + 1 <= BucketCount
        /\ (bucket + 1) - 1 = bucket
    BY <1>2, <1>7
  <2> QED
    BY <2>1, BelowIsSeen
<1> HIDE DEF Below
<1> DEFINE n == f[1] * count
           d == f[2]
<1>10. d \in Nat /\ d >= 1 /\ n \in Nat /\ Rounding \in Nat
  BY <1>2, FullAssumption
<1>11. Rounding * (d * rank) >= (Rounding - 1) * n /\ d * (rank - 1) < n
  BY <1>4
<1> HIDE DEF n, d, count
<1>12. d * Below(bucket) < n
  <2> DEFINE below == Below(bucket)
  <2>1. below \in Nat /\ below <= rank - 1
    BY <1>4, <1>8, <1>9
  <2> HIDE DEF below
  <2>2. d * below <= d * (rank - 1)
    BY <1>4, <1>10, <2>1
  <2>3. d * below \in Int /\ d * (rank - 1) \in Int
    BY <1>4, <1>10, <2>1
  <2> QED
    BY <1>10, <1>11, <2>2, <2>3 DEF below
<1>13. Rounding * (d * Below(bucket + 1)) >= (Rounding - 1) * n
  <2> DEFINE below == Below(bucket + 1)
  <2>1. below \in Nat /\ below >= rank
    BY <1>2, <1>3, <1>7, <1>9
  <2> HIDE DEF below
  <2>2. d * below >= d * rank
    BY <1>4, <1>10, <2>1
  <2>3. d * below \in Int /\ d * rank \in Int
    BY <1>4, <1>10, <2>1
  <2>4. Rounding * (d * below) >= Rounding * (d * rank)
    BY <1>10, <2>2, <2>3
  <2>5. Rounding * (d * below) \in Int /\ Rounding * (d * rank) \in Int /\ (Rounding - 1) * n \in Int
    BY <1>10, <2>3
  <2> QED
    BY <1>11, <2>4, <2>5 DEF below
<1>14. CASE bucket = last
  <2>1. q.edge = bucket /\ q.openEnded = TRUE
    BY <1>1, <1>14
  <2> QED
    BY <1>12, <1>14, <2>1 DEF Below, n, d, count
<1>15. CASE bucket # last
  <2>1. q.edge = bucket + 1 /\ bucket \in Int /\ bucket + 1 - 1 = bucket
    BY <1>1, <1>7, <1>15
  <2>2. ~q.openEnded
    BY <1>1, <1>15, Zenon
  <2> QED
    BY <1>12, <1>13, <2>1, <2>2 DEF Below, n, d, count
<1> QED
  BY <1>14, <1>15

-----------------------------------------------------------------------------
(* The composed system: theorems *)

\* Hosts, session and guest threads stay within their states.
THEOREM FullTypeCorrect == FullSpec => []FullTypeOK
<1>1. IInv /\ CallsInv => FullTypeOK
  BY DEF IInv, CallsInv, FullTypeOK
<1> QED BY <1>1, HostInvariance, CallsInvariance, PTL

\* An override has its caller's registers whenever it goes on, for any number of
\* guest threads and any depth of overrides and original bodies.
THEOREM RegistersKept == FullSpec => []HandlersKeepRegisters
<1>1. CallsInv => HandlersKeepRegisters
  BY DEF CallsInv
<1> QED BY <1>1, CallsInvariance, PTL

\* The composed system keeps what the header promises of a run.
THEOREM FullRunImplemented == FullSpec => KeepsRunPromise
<1>1. FullInit => Run!Init
  BY DEF FullInit, Init, SessionInit, Title, Outcome, Run!Init
<1>2. IInv /\ [FullNext]_fullVars => [Run!Next]_(Run!vars)
  BY HostSteps, NextMaps
<1> QED BY <1>1, <1>2, HostInvariance, PTL DEF FullSpec, KeepsRunPromise, Run!Spec

\* The session is never torn down once the title has a thread.
THEOREM FullTeardownSafe == FullSpec => []NoTeardownUnderGuest
<1>1. IInv => NoTeardownUnderGuest
  BY DEF IInv, GuestInv, Launching, NoTeardownUnderGuest
<1> QED BY <1>1, HostInvariance, PTL

\* The reader's session is valid as long as the process runs.
THEOREM FullSessionValid == FullSpec => []SessionOutlivesCallback
<1>1. IInv => SessionOutlivesCallback
  BY DEF IInv, ThreadInv, SessionOutlivesCallback
<1> QED BY <1>1, HostInvariance, PTL

\* The reader's windows, adjacent ones included, hold each interval once: for any
\* buckets and any order of presents and snapshots.
THEOREM WindowsAddUp == FullSpec => []WindowsPartitionIntervals
<1>1. FramesInv => WindowsPartitionIntervals
  BY WindowsHold
<1> QED BY <1>1, FramesInvariance, PTL

\* Each quantile the tools ask for covers its share of the window, up to what the
\* double product rounds away, and no bucket more than it must: for any fractions,
\* any rounding and any buckets.
THEOREM QuantilesAreTight == FullSpec => []QuantilesCover
<1>1. FramesInv => QuantilesCover
  <2> SUFFICES ASSUME FramesInv PROVE QuantilesCover
    OBVIOUS
  <2>1. Frames!Since(buckets, earlier) \in Counts
    BY WindowsHold
  <2> QED
    BY <2>1, QuantileCovers DEF QuantilesCover, Frames!QuantilesCover
<1> QED BY <1>1, FramesInvariance, PTL
=============================================================================
