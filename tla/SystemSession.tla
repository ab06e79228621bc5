---------------------------- MODULE SystemSession ----------------------------
(***************************************************************************)
(* SystemSession::Impl (src/system/system_session.cpp): the full console   *)
(* around one title.  `phase` is how far the thread that owns the session  *)
(* has come through Initialize, then Launch; Xenia's emulator is external  *)
(* and is modelled by what the session does with it: it may refuse to      *)
(* compose or to load, it calls OnLaunch with the main thread suspended,   *)
(* and it resumes that thread once after OnLaunch returns.                 *)
(***************************************************************************)
EXTENDS Naturals

CONSTANT NumOverrides  \* config_.overrides, installed in order

ASSUME NumOverridesAssumption == NumOverrides \in Nat

VARIABLES
    phase,      \* progress of Initialize and Launch
    lease,      \* g_instance_active: "free", "held" by this session, or "other"
    emulator,   \* emulator_ is not null
    guest,      \* the title's main thread: "absent", "suspended", "running", "exited"
    suspends,   \* its suspend count
    installed,  \* overrides installed so far
    activation, \* activation_failure_: "none", "refused"
    launched,   \* launched_
    failure,    \* what Initialize or Launch returned to its caller
    process     \* "running", or how it ended: "success", "failure", "fatal"

sessionVars == <<phase, lease, emulator, guest, suspends, installed, activation,
                 launched, failure, process>>

Phases == {"new", "valid", "leased", "stored", "composed", "signedIn", "ready",
           "loaded", "installing", "activated", "refused", "returned", "launched",
           "failed", "destroyed"}

Failures == {"none", "ConfigInvalid", "InstanceAlreadyActive", "StorageRefused",
             "ConsoleRefused", "InputRefused", "SignInRefused", "TitleRefused",
             "LaunchRefused"}

SessionTypeOK ==
    /\ phase \in Phases
    /\ lease \in {"free", "held", "other"}
    /\ emulator \in BOOLEAN
    /\ guest \in {"absent", "suspended", "running", "exited"}
    /\ suspends \in Nat
    /\ installed \in 0..NumOverrides
    /\ activation \in {"none", "refused"}
    /\ launched \in BOOLEAN
    /\ failure \in Failures
    /\ process \in {"running", "success", "failure", "fatal"}

Session(p) == process = "running" /\ phase = p

Fail(f) == phase' = "failed" /\ failure' = f

-----------------------------------------------------------------------------
(* Initialize *)

ValidateConfig ==
    /\ Session("new")
    /\ \/ phase' = "valid" /\ UNCHANGED failure
       \/ Fail("ConfigInvalid")
    /\ UNCHANGED <<lease, emulator, guest, suspends, installed, activation, launched, process>>

AcquireInstance ==
    /\ Session("valid")
    /\ IF lease = "free"
       THEN lease' = "held" /\ phase' = "leased" /\ UNCHANGED failure
       ELSE Fail("InstanceAlreadyActive") /\ UNCHANGED lease
    /\ UNCHANGED <<emulator, guest, suspends, installed, activation, launched, process>>

\* Storage root, logger, display, audio and scale settings.
CreateStorage ==
    /\ Session("leased")
    /\ \/ phase' = "stored" /\ UNCHANGED failure
       \/ Fail("StorageRefused")
    /\ UNCHANGED <<lease, emulator, guest, suspends, installed, activation, launched, process>>

\* What Setup's callback leaves in input_failure_: the host gamepads may not start.
CreateInputDrivers == {"none", "InputRefused"}

\* Emulator construction and Setup: a refusal of the console is returned first.
ComposeConsole ==
    /\ Session("stored")
    /\ emulator' = TRUE
    /\ \E inputFailure \in CreateInputDrivers :
          \/ Fail("ConsoleRefused")
          \/ inputFailure # "none" /\ Fail(inputFailure)
          \/ inputFailure = "none" /\ phase' = "composed" /\ UNCHANGED failure
    /\ UNCHANGED <<lease, guest, suspends, installed, activation, launched, process>>

SignInLocalPlayer ==
    /\ Session("composed")
    /\ \/ phase' = "signedIn" /\ UNCHANGED failure
       \/ Fail("SignInRefused")
    /\ UNCHANGED <<lease, emulator, guest, suspends, installed, activation, launched, process>>

\* The call context is created and the override table bound to the processor.
BindOverrides ==
    /\ Session("signedIn")
    /\ phase' = "ready"
    /\ UNCHANGED <<lease, emulator, guest, suspends, installed, activation, launched,
                   failure, process>>

-----------------------------------------------------------------------------
(* Launch *)

\* LaunchPath mounts and loads the title.  A refusal may come before or after
\* it has created the main thread.
LoadTitle ==
    /\ Session("ready")
    /\ \/ /\ phase' = "loaded"
          /\ guest' = "suspended"
          /\ suspends' = 1
          /\ UNCHANGED failure
       \/ /\ phase' = "returned"
          /\ failure' = "LaunchRefused"
          /\ \/ guest' = "suspended" /\ suspends' = 1
             \/ UNCHANGED <<guest, suspends>>
    /\ UNCHANGED <<lease, emulator, installed, activation, launched, process>>

\* OnLaunch, ActivateTitle: title ID and .text section.
CheckIdentity ==
    /\ Session("loaded")
    /\ \/ phase' = "installing" /\ UNCHANGED activation
       \/ phase' = "refused" /\ activation' = "refused"
    /\ UNCHANGED <<lease, emulator, guest, suspends, installed, launched, failure, process>>

MutantInstallPastEnd ==
    /\ Session("installing")
    /\ \/ /\ installed <= NumOverrides
          /\ installed' = installed + 1
          /\ UNCHANGED <<phase, activation>>
       \/ /\ installed > NumOverrides
          /\ phase' = "activated"
          /\ UNCHANGED <<installed, activation>>
    /\ UNCHANGED <<lease, emulator, guest, suspends, launched, failure, process>>

\* ActivateTitle's loop: the first override the dispatch refuses refuses the
\* title, and the ones before it stay installed.
InstallNext ==
    /\ Session("installing")
    /\ \/ /\ installed < NumOverrides
          /\ installed' = installed + 1
          /\ UNCHANGED <<phase, activation>>
       \/ /\ installed < NumOverrides
          /\ phase' = "refused"
          /\ activation' = "refused"
          /\ UNCHANGED installed
       \/ /\ installed = NumOverrides
          /\ phase' = "activated"
          /\ UNCHANGED <<installed, activation>>
    /\ UNCHANGED <<lease, emulator, guest, suspends, launched, failure, process>>

MutantHoldMainThread ==
    /\ Session("refused")
    /\ phase' = "activated"
    /\ UNCHANGED <<suspends, lease, emulator, guest, installed, activation, launched,
                   failure, process>>

\* One extra suspension outlasts the resume LaunchPath is about to make.
HoldMainThread ==
    /\ Session("refused")
    /\ phase' = "activated"
    /\ suspends' = suspends + 1
    /\ UNCHANGED <<lease, emulator, guest, installed, activation, launched, failure, process>>

\* External: the emulator resumes the main thread after OnLaunch returns.
ResumeMainThread ==
    /\ Session("activated")
    /\ phase' = "returned"
    /\ suspends' = suspends - 1
    /\ guest' = IF suspends = 1 THEN "running" ELSE guest
    /\ UNCHANGED <<lease, emulator, installed, activation, launched, failure, process>>

MutantFinishLaunch ==
    /\ Session("returned")
    /\ launched' = (activation = "none" /\ failure = "none")
    /\ IF activation = "refused" THEN Fail("TitleRefused")
       ELSE phase' = (IF failure = "none" THEN "launched" ELSE "failed") /\ UNCHANGED failure
    /\ UNCHANGED <<lease, emulator, guest, suspends, installed, activation, process>>

\* launched_ is set whatever LaunchPath returned; a refused activation is
\* reported before a refused launch.
FinishLaunch ==
    /\ Session("returned")
    /\ launched' = TRUE
    /\ IF activation = "refused" THEN Fail("TitleRefused")
       ELSE phase' = (IF failure = "none" THEN "launched" ELSE "failed") /\ UNCHANGED failure
    /\ UNCHANGED <<lease, emulator, guest, suspends, installed, activation, process>>

-----------------------------------------------------------------------------
(* The title and the end of the session *)

\* External: the title's main thread ends by itself.
TitleExits ==
    /\ process = "running"
    /\ guest = "running"
    /\ guest' = "exited"
    /\ UNCHANGED <<phase, lease, emulator, suspends, installed, activation, launched,
                   failure, process>>

\* A native override fails on a guest thread, which may outlive the main one.
EndTitleAfterOverrideFailure ==
    /\ process = "running"
    /\ guest \in {"running", "exited"}
    /\ installed > 0
    /\ process' = "fatal"
    /\ UNCHANGED <<phase, lease, emulator, guest, suspends, installed, activation,
                   launched, failure>>

EndProcess(status) ==
    /\ process' = status
    /\ UNCHANGED <<phase, lease, emulator, guest, suspends, installed, activation,
                   launched, failure>>

MutantDestroySession ==
    /\ phase' = "destroyed"
    /\ emulator' = FALSE
    /\ lease' = IF lease = "held" THEN "free" ELSE lease
    /\ UNCHANGED <<guest, suspends, installed, activation, launched, failure, process>>

\* ~Impl: a launched session ends the process; otherwise the emulator is
\* destroyed first and the lease, the first member, last.
DestroySession ==
    IF launched
    THEN EndProcess("failure")
    ELSE /\ phase' = "destroyed"
         /\ emulator' = FALSE
         /\ lease' = IF lease = "held" THEN "free" ELSE lease
         /\ UNCHANGED <<guest, suspends, installed, activation, launched, failure, process>>

\* Another x360port owner in the process takes or drops the lease.
OtherOwner ==
    /\ process = "running"
    /\ \/ lease = "free" /\ lease' = "other"
       \/ lease = "other" /\ lease' = "free"
    /\ UNCHANGED <<phase, emulator, guest, suspends, installed, activation, launched,
                   failure, process>>

SessionInit ==
    /\ phase = "new"
    /\ lease \in {"free", "other"}
    /\ emulator = FALSE
    /\ guest = "absent"
    /\ suspends = 0
    /\ installed = 0
    /\ activation = "none"
    /\ launched = FALSE
    /\ failure = "none"
    /\ process = "running"

Initialize ==
    \/ ValidateConfig \/ AcquireInstance \/ CreateStorage \/ ComposeConsole
    \/ SignInLocalPlayer \/ BindOverrides

Launch ==
    \/ LoadTitle \/ CheckIdentity \/ InstallNext \/ HoldMainThread
    \/ ResumeMainThread \/ FinishLaunch

Environment == TitleExits \/ EndTitleAfterOverrideFailure \/ OtherOwner

-----------------------------------------------------------------------------
(* Properties *)

\* "A title that fails the identity check or refuses an override never executes
\* a guest instruction": the extra suspension survives the emulator's resume.
RefusedTitleNeverRuns == activation = "refused" => guest \notin {"running", "exited"}

\* Overrides are installed "after the module is mapped and before its main
\* thread resumes": a running title has all of them.
OverridesPrecedeGuest == guest \in {"running", "exited"} => installed = NumOverrides

\* Xenia's guest address space has one owner: while the session has an emulator
\* it holds the lease.
EmulatorHoldsLease == emulator => lease = "held"

\* The emulator is never torn down under guest threads: once the main thread
\* exists, the session is not destroyed and only the process can end.
NoTeardownUnderGuest == guest # "absent" => emulator /\ phase # "destroyed"
=============================================================================
