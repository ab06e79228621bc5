---------------------------- MODULE DesktopInput ----------------------------
(***************************************************************************)
(* Keyboard and mouse on their way to the guest: DesktopInputCapture       *)
(* (src/system/desktop_capture_gtk.cpp) turns window events on the UI      *)
(* thread into writes of DesktopInputState (src/desktop_input.cpp), a set  *)
(* of independent relaxed atomics that guest threads read, field by field, *)
(* in TakeSnapshot.  One step is one atomic operation.  The UI thread's    *)
(* stores keep program order; the fields of a snapshot are independent     *)
(* relaxed loads and are read in any order.                                *)
(* A key word or the button byte is abstracted to whether it has a bit set.*)
(***************************************************************************)
EXTENDS Naturals, Sequences

CONSTANTS
    Words,   \* sequence of key words, then the mouse buttons
    Readers, \* guest threads that take snapshots
    MaxMoves \* bound: pointer motions

Held == {Words[i] : i \in DOMAIN Words}
Axes == {"dx", "dy"}
Parts == Held \cup Axes \cup {"captured"}

ASSUME DesktopInputAssumption ==
    /\ Words \in Seq(STRING)
    /\ "mouse" \in Held
    /\ Held \cap (Axes \cup {"captured"}) = {}
    /\ MaxMoves \in Nat

VARIABLES
    held,      \* keys_ and mouse_buttons_: a bit is set
    travel,    \* pointer_dx_, pointer_dy_
    captured,  \* pointer_captured_
    grabbed,   \* DesktopInputCapture::captured_
    haveLast,  \* have_last_
    stores,    \* stores the UI thread's current handler still has to make
    focus,     \* the window has the focus
    phys,      \* what the player really holds down
    moved,     \* history: travel added on each axis
    discarded, \* history: travel thrown away with a release
    delivered, \* history: travel handed to snapshots
    left,      \* parts each reader's TakeSnapshot has still to read
    snap       \* what it has read

stateVars == <<held, travel, captured>>
uiVars == <<grabbed, haveLast, stores, focus, phys, moved>>
readVars == <<delivered, left, snap>>
vars == <<stateVars, uiVars, discarded, readVars>>

Snapshots == [held : [Held -> BOOLEAN], travel : [Axes -> 0..MaxMoves], captured : BOOLEAN]

EmptySnapshot == [held |-> [w \in Held |-> FALSE], travel |-> [a \in Axes |-> 0],
                  captured |-> FALSE]

TypeOK ==
    /\ held \in [Held -> BOOLEAN]
    /\ travel \in [Axes -> 0..MaxMoves]
    /\ captured \in BOOLEAN
    /\ grabbed \in BOOLEAN
    /\ haveLast \in BOOLEAN
    /\ stores \in Seq(Parts)
    /\ focus \in BOOLEAN
    /\ phys \in [Held -> BOOLEAN]
    /\ moved \in [Axes -> 0..MaxMoves]
    /\ discarded \in [Axes -> 0..MaxMoves]
    /\ delivered \in [Axes -> 0..MaxMoves]
    /\ left \in [Readers -> SUBSET Parts]
    /\ snap \in [Readers -> Snapshots]

-----------------------------------------------------------------------------
(* The UI thread *)

\* The UI thread delivers the next window event: its last handler has returned.
Event == stores = <<>> /\ focus

\* OnKeyDown, OnKeyUp.
SetKey(w, down) ==
    /\ Event
    /\ w # "mouse"
    /\ phys' = [phys EXCEPT ![w] = down]
    /\ held' = [held EXCEPT ![w] = down]
    /\ UNCHANGED <<travel, captured, grabbed, haveLast, stores, focus, moved, discarded, readVars>>

\* There may be no surface yet, and the desktop may refuse the grab.
Capture ==
    \/ grabbed' = TRUE /\ haveLast' = FALSE /\ captured' = TRUE
    \/ UNCHANGED <<captured, grabbed, haveLast>>

\* OnMouseDown: the click that captures the pointer is not a button press.
OnMouseDown ==
    /\ Event
    /\ phys' = [phys EXCEPT !["mouse"] = TRUE]
    /\ \/ /\ grabbed
          /\ held' = [held EXCEPT !["mouse"] = TRUE]
          /\ UNCHANGED <<captured, grabbed, haveLast>>
       \/ ~grabbed /\ Capture /\ UNCHANGED held
    /\ UNCHANGED <<travel, stores, focus, moved, discarded, readVars>>

OnMouseUp ==
    /\ Event
    /\ phys' = [phys EXCEPT !["mouse"] = FALSE]
    /\ held' = [held EXCEPT !["mouse"] = FALSE]
    /\ UNCHANGED <<travel, captured, grabbed, haveLast, stores, focus, moved, discarded, readVars>>

\* Nothing is added to an uncaptured pointer; the axes are added one by one.
AddPointerTravel(a) ==
    IF captured
    THEN /\ moved[a] < MaxMoves
         /\ travel' = [travel EXCEPT ![a] = @ + 1]
         /\ moved' = [moved EXCEPT ![a] = @ + 1]
    ELSE UNCHANGED <<travel, moved>>

\* OnMouseMove of a captured pointer: the first position after a capture is only
\* remembered.
OnMouseMove(a) ==
    /\ Event
    /\ grabbed
    /\ haveLast' = TRUE
    /\ IF haveLast THEN AddPointerTravel(a) ELSE UNCHANGED <<travel, moved>>
    /\ UNCHANGED <<held, captured, grabbed, stores, focus, phys, discarded, readVars>>

MutantSetPointerUncaptured == <<"captured">>

\* The stores of SetPointerCaptured(false), in program order.
SetPointerUncaptured == <<"captured", "dx", "dy">>

MutantReleaseAll == SetPointerUncaptured

ReleaseAll == Words \o SetPointerUncaptured

\* The stores of Release: none unless the pointer is captured.
Release == IF grabbed THEN SetPointerUncaptured ELSE <<>>

\* OnLostFocus: Release, then ReleaseAll.
OnLostFocus ==
    /\ Event
    /\ focus' = FALSE
    /\ grabbed' = FALSE
    /\ haveLast' = FALSE
    /\ stores' = Release \o ReleaseAll
    /\ UNCHANGED <<stateVars, phys, moved, discarded, readVars>>

\* One store of a release.
Store ==
    /\ stores # <<>>
    /\ stores' = Tail(stores)
    /\ LET part == Head(stores) IN
       /\ held' = IF part \in Held THEN [held EXCEPT ![part] = FALSE] ELSE held
       /\ captured' = IF part = "captured" THEN FALSE ELSE captured
       /\ IF part \in Axes
          THEN /\ travel' = [travel EXCEPT ![part] = 0]
               /\ discarded' = [discarded EXCEPT ![part] = @ + travel[part]]
          ELSE UNCHANGED <<travel, discarded>>
    /\ UNCHANGED <<grabbed, haveLast, focus, phys, moved, readVars>>

\* External: the focus comes back, and what the player does meanwhile is unseen.
RegainFocus ==
    /\ stores = <<>>
    /\ ~focus
    /\ focus' = TRUE
    /\ UNCHANGED <<stateVars, grabbed, haveLast, stores, phys, moved, discarded, readVars>>

UnseenRelease(w) ==
    /\ ~focus
    /\ stores = <<>>
    /\ phys' = [phys EXCEPT ![w] = FALSE]
    /\ UNCHANGED <<stateVars, grabbed, haveLast, stores, focus, moved, discarded, readVars>>

-----------------------------------------------------------------------------
(* TakeSnapshot *)

TakeSnapshot(t) ==
    /\ left[t] = {}
    /\ left' = [left EXCEPT ![t] = Parts]
    /\ snap' = [snap EXCEPT ![t] = EmptySnapshot]
    /\ UNCHANGED <<stateVars, uiVars, discarded, delivered>>

ReadLevel(t, part) ==
    /\ part \in left[t] \ Axes
    /\ left' = [left EXCEPT ![t] = @ \ {part}]
    /\ snap' = IF part = "captured" THEN [snap EXCEPT ![t].captured = captured]
               ELSE [snap EXCEPT ![t].held[part] = held[part]]
    /\ UNCHANGED <<stateVars, uiVars, discarded, delivered>>

MutantConsumeTravel(t, a) ==
    /\ a \in left[t]
    /\ left' = [left EXCEPT ![t] = @ \ {a}]
    /\ snap' = [snap EXCEPT ![t].travel[a] = travel[a]]
    /\ delivered' = [delivered EXCEPT ![a] = @ + travel[a]]
    /\ UNCHANGED <<stateVars, uiVars, discarded>>

\* pointer_dx_.exchange(0).
ConsumeTravel(t, a) ==
    /\ a \in left[t]
    /\ left' = [left EXCEPT ![t] = @ \ {a}]
    /\ snap' = [snap EXCEPT ![t].travel[a] = travel[a]]
    /\ travel' = [travel EXCEPT ![a] = 0]
    /\ delivered' = [delivered EXCEPT ![a] = @ + travel[a]]
    /\ UNCHANGED <<held, captured, uiVars, discarded>>

-----------------------------------------------------------------------------

Init ==
    /\ held = [w \in Held |-> FALSE]
    /\ travel = [a \in Axes |-> 0]
    /\ captured = FALSE
    /\ grabbed = FALSE
    /\ haveLast = FALSE
    /\ stores = <<>>
    /\ focus = TRUE
    /\ phys = [w \in Held |-> FALSE]
    /\ moved = [a \in Axes |-> 0]
    /\ discarded = [a \in Axes |-> 0]
    /\ delivered = [a \in Axes |-> 0]
    /\ left = [t \in Readers |-> {}]
    /\ snap = [t \in Readers |-> EmptySnapshot]

Window ==
    \/ \E w \in Held, down \in BOOLEAN : SetKey(w, down)
    \/ OnMouseDown
    \/ OnMouseUp
    \/ \E a \in Axes : OnMouseMove(a)
    \/ OnLostFocus
    \/ Store
    \/ RegainFocus
    \/ \E w \in Held : UnseenRelease(w)

Next ==
    \/ Window
    \/ \E t \in Readers :
          \/ TakeSnapshot(t)
          \/ \E part \in Parts : ReadLevel(t, part)
          \/ \E a \in Axes : ConsumeTravel(t, a)

Spec == Init /\ [][Next]_vars

-----------------------------------------------------------------------------
(* Properties *)

\* No travel is lost or reported twice, however many guest threads take
\* snapshots while the pointer moves or is released.
TravelDeliveredOnce ==
    \A a \in Axes : moved[a] = travel[a] + discarded[a] + delivered[a]

\* No key or button sticks: between events the state reports only what the
\* player holds, although key-up events are missed while the focus is away.
NoStuckKeys == stores = <<>> => \A w \in Held : held[w] => phys[w]

\* The window's idea of the capture and the shared state agree between events,
\* and an uncaptured pointer leaves no travel behind for a later snapshot.
CaptureAgrees ==
    stores = <<>> => /\ captured = grabbed
                     /\ ~captured => \A a \in Axes : travel[a] = 0
=============================================================================
