------------------------------ MODULE TitleRun ------------------------------
(***************************************************************************)
(* What a windowed run promises its caller, without threads, posts or      *)
(* suspend counts (include/x360port/system_session.hpp:115-225).  A title  *)
(* is loaded, cleared by its identity check and all its overrides or       *)
(* refused, and only a cleared title runs; the caller is given the session *)
(* of a running title; a failure is returned only by a run that never gave *)
(* the title a thread; and a run that has committed itself to a launch     *)
(* ends with the process.                                                  *)
(***************************************************************************)

VARIABLES
    title,     \* "none", "loaded", "cleared", "refused", "running", "exited"
    committed, \* Launch has been through: teardown is no longer possible
    offered,   \* on_launched has been given the session
    outcome    \* "pending", "returned", or how the process ended

vars == <<title, committed, offered, outcome>>

Pending == outcome = "pending"

Init ==
    /\ title = "none"
    /\ committed = FALSE
    /\ offered = FALSE
    /\ outcome = "pending"

Become(t) ==
    /\ Pending
    /\ title' = t
    /\ UNCHANGED <<committed, offered, outcome>>

Load == title = "none" /\ ~committed /\ Become("loaded")

Judge == title = "loaded" /\ ~committed /\ (Become("cleared") \/ Become("refused"))

Start == title = "cleared" /\ Become("running")

Exit == title = "running" /\ Become("exited")

\* Launch is through, with a title that runs, was refused, or never loaded.
Commit ==
    /\ Pending
    /\ title # "cleared"
    /\ ~committed
    /\ committed' = TRUE
    /\ UNCHANGED <<title, offered, outcome>>

\* The caller is given the session, once, of a title that runs.
Offer ==
    /\ Pending
    /\ title \in {"running", "exited"}
    /\ committed
    /\ ~offered
    /\ offered' = TRUE
    /\ UNCHANGED <<title, committed, outcome>>

Finish(o) == Pending /\ outcome' = o /\ UNCHANGED <<title, committed, offered>>

\* "Returns only when the session could not start."
ReturnFailure == title = "none" /\ ~committed /\ ~offered /\ Finish("returned")

\* A run whose session was offered ends well; one that is abandoned after the
\* launch ends with a failure status; an override's failure ends it at once.
End ==
    \/ offered /\ Finish("success")
    \/ committed /\ Finish("failure")
    \/ title \in {"running", "exited"} /\ Finish("fatal")

Next ==
    \/ Load \/ Judge \/ Start \/ Exit
    \/ Commit \/ Offer
    \/ ReturnFailure \/ End

Spec == Init /\ [][Next]_vars
=============================================================================
