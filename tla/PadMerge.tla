------------------------------ MODULE PadMerge ------------------------------
(***************************************************************************)
(* The controller the console reports: SystemInputDriver                   *)
(* (src/system/system_input_driver.cpp) reads the title's pad and the host *)
(* gamepad of a user and PadMerger (src/system/pad_merge.cpp) merges them  *)
(* and numbers the result.  Guest threads poll concurrently: the two       *)
(* readings are separate steps, and only the numbering is under the mutex. *)
(* One merger serves every user index.                                     *)
(* SetState and GetCapabilities keep no state of their own.                *)
(***************************************************************************)
EXTENDS Integers

CONSTANTS
    Threads,   \* guest threads that poll
    Users,     \* user indices they poll
    Pads,      \* gamepad states: buttons, one trigger, one stick
    MaxChanges \* bound: changes of a device

ASSUME PadMergeAssumption ==
    /\ \A p \in Pads : p.trigger \in Int /\ p.stick.x \in Int /\ p.stick.y \in Int
    /\ MaxChanges \in Nat

Absent == [connected |-> FALSE]
Snapshot(pad) == [connected |-> TRUE, pad |-> pad]
Snapshots == {Absent} \cup {Snapshot(p) : p \in Pads}

VARIABLES
    title,     \* what the title's source would report for each user
    host,      \* what the host gamepad driver would
    poll,      \* each thread's GetState
    published, \* published_
    last,      \* last_
    packet,    \* packet_number_
    answer,    \* history: the last connected answer to each user
    numbered,  \* history: which pads each packet number has been given with
    shown,     \* history: what the devices have reported during each thread's GetState
    changes    \* history: device changes so far

mergerVars == <<published, last, packet>>
historyVars == <<answer, numbered>>
vars == <<title, host, poll, mergerVars, historyVars, shown, changes>>

-----------------------------------------------------------------------------
(* Combine *)

Magnitude(s) == s.x * s.x + s.y * s.y

MutantTakeFurtherStick(s, other) ==
    [x |-> IF other.x * other.x > s.x * s.x THEN other.x ELSE s.x,
     y |-> IF other.y * other.y > s.y * s.y THEN other.y ELSE s.y]

TakeFurtherStick(s, other) == IF Magnitude(other) > Magnitude(s) THEN other ELSE s

Combine(t, h) ==
    [buttons |-> t.buttons \cup h.buttons,
     trigger |-> IF t.trigger >= h.trigger THEN t.trigger ELSE h.trigger,
     stick   |-> TakeFurtherStick(t.stick, h.stick)]

\* Every gamepad Merge can report.
Merged == Pads \cup {Combine(t, h) : t, h \in Pads}

CombineSnapshots(t, h) ==
    IF t.connected /\ h.connected THEN Combine(t.pad, h.pad)
    ELSE IF t.connected THEN t.pad ELSE h.pad

-----------------------------------------------------------------------------
(* GetState *)

\* Between calls, with what the last one returned.
Returned(snapshot) == [at |-> "idle", reply |-> snapshot]
Replies == {Absent} \cup {Snapshot(pad) : pad \in Merged}

NothingShown == [title |-> {}, host |-> {}]

PollStates ==
    [at : {"idle"}, reply : Replies]
           \cup [at : {"title"}, user : Users]
           \cup [at : {"host"}, user : Users, title : Snapshots]
           \cup [at : {"merge"}, user : Users, title : Snapshots, host : Snapshots]

Answers == {[packet |-> 0]} \cup [packet : Nat \ {0}, pad : Merged]

TypeOK ==
    /\ title \in [Users -> Snapshots]
    /\ host \in [Users -> Snapshots]
    /\ poll \in [Threads -> PollStates]
    /\ published \in BOOLEAN
    /\ packet \in Nat
    /\ published <=> packet # 0
    /\ published => last \in Merged
    /\ answer \in [Users -> Answers]
    /\ numbered \subseteq (Nat \X Merged)
    /\ shown \in [Threads -> [title : SUBSET Snapshots, host : SUBSET Snapshots]]
    /\ changes \in 0..MaxChanges

GetState(t, u) ==
    /\ poll[t].at = "idle"
    /\ poll' = [poll EXCEPT ![t] = [at |-> "title", user |-> u]]
    /\ shown' = [shown EXCEPT ![t] = [title |-> {title[u]}, host |-> {host[u]}]]
    /\ UNCHANGED <<title, host, mergerVars, historyVars, changes>>

\* source_.state(...).
ReadTitle(t) ==
    /\ poll[t].at = "title"
    /\ poll' = [poll EXCEPT ![t] = [at |-> "host", user |-> @.user, title |-> title[@.user]]]
    /\ UNCHANGED <<title, host, mergerVars, historyVars, shown, changes>>

HostState(t) ==
    /\ poll[t].at = "host"
    /\ poll' = [poll EXCEPT ![t] = [at |-> "merge", user |-> @.user, title |-> @.title,
                                    host |-> host[@.user]]]
    /\ UNCHANGED <<title, host, mergerVars, historyVars, shown, changes>>

MutantPublish(pad) ==
    IF ~published \/ pad # last
    THEN /\ published' = TRUE
         /\ last' = IF published THEN last ELSE pad
         /\ packet' = packet + 1
    ELSE UNCHANGED mergerVars

MutantPublishAlways(pad) == published' = TRUE /\ last' = pad /\ packet' = packet + 1

\* The part of Merge under mutex_.  packet_number_ has 32 bits; the model's packet
\* does not wrap.
Publish(pad) ==
    IF ~published \/ pad # last
    THEN published' = TRUE /\ last' = pad /\ packet' = packet + 1
    ELSE UNCHANGED mergerVars

Merge(t) ==
    LET p == poll[t]
        pad == CombineSnapshots(p.title, p.host)
    IN
    /\ p.at = "merge"
    /\ poll' = [poll EXCEPT ![t] = Returned(IF p.title.connected \/ p.host.connected
                                           THEN Snapshot(pad) ELSE Absent)]
    /\ shown' = [shown EXCEPT ![t] = NothingShown]
    /\ IF p.title.connected \/ p.host.connected
       THEN /\ Publish(pad)
            /\ answer' = [answer EXCEPT ![p.user] = [packet |-> packet', pad |-> pad]]
            /\ numbered' = numbered \cup {<<packet', pad>>}
       ELSE UNCHANGED <<mergerVars, historyVars>>
    /\ UNCHANGED <<title, host, changes>>

\* External: the player uses, connects or disconnects a device.
DeviceChanges(u) ==
    /\ changes < MaxChanges
    /\ changes' = changes + 1
    /\ \/ \E s \in Snapshots \ {title[u]} : title' = [title EXCEPT ![u] = s] /\ UNCHANGED host
       \/ \E s \in Snapshots \ {host[u]} : host' = [host EXCEPT ![u] = s] /\ UNCHANGED title
    /\ shown' = [t \in Threads |->
                    IF poll[t].at # "idle" /\ poll[t].user = u
                    THEN [title |-> shown[t].title \cup {title'[u]},
                          host  |-> shown[t].host \cup {host'[u]}]
                    ELSE shown[t]]
    /\ UNCHANGED <<poll, mergerVars, historyVars>>

-----------------------------------------------------------------------------

Init ==
    /\ title \in [Users -> Snapshots]
    /\ host = [u \in Users |-> Absent]
    /\ poll = [t \in Threads |-> Returned(Absent)]
    /\ published = FALSE
    /\ last = Absent
    /\ packet = 0
    /\ answer = [u \in Users |-> [packet |-> 0]]
    /\ numbered = {}
    /\ shown = [t \in Threads |-> NothingShown]
    /\ changes = 0

Next ==
    \/ \E t \in Threads :
          \/ \E u \in Users : GetState(t, u)
          \/ ReadTitle(t) \/ HostState(t) \/ Merge(t)
    \/ \E u \in Users : DeviceChanges(u)

Spec == Init /\ [][Next]_vars

-----------------------------------------------------------------------------
(* Properties *)

\* A title that skips a reading whose packet number it has already seen misses
\* nothing: a packet number is never given with two different pads, whatever
\* the order in which concurrent polls read the devices and take the mutex.
SamePacketSamePad ==
    \A n, m \in numbered : n[1] = m[1] => n[2] = m[2]

\* What a controller reports that both devices drive: every button of either, no
\* other, the stronger pull, and the stick of the one deflecting it further, whole.
\* A device that is not connected adds nothing.
DrivenBy(pad, t, h) ==
    LET on == {s \in {t, h} : s.connected} IN
    /\ pad.buttons = UNION {s.pad.buttons : s \in on}
    /\ \E s \in on : /\ pad.trigger = s.pad.trigger
                     /\ \A o \in on : s.pad.trigger >= o.pad.trigger
    /\ \E s \in on : /\ pad.stick = s.pad.stick
                     /\ \A o \in on : Magnitude(s.pad.stick) >= Magnitude(o.pad.stick)

\* "each stick takes the device deflecting it further, keeping its direction
\* whole" (src/system/pad_merge.hpp:15): what GetState returns is driven by two
\* readings the devices gave while it ran, however they come, go and change and
\* whatever other threads merge in between: it neither drops nor invents input, and
\* is disconnected only when both readings are.
EitherDeviceDrives ==
    [][\A t \in Threads : poll[t].at = "merge" /\ poll'[t].at = "idle" =>
         \E r \in shown[t].title, h \in shown[t].host :
             /\ poll'[t].reply.connected <=> r.connected \/ h.connected
             /\ poll'[t].reply.connected => DrivenBy(poll'[t].reply.pad, r, h)]_vars

\* "The packet number advances exactly when the combined state changes"
\* (src/system/pad_merge.hpp:16): from one answer to the next of the same user.
PacketTracksState ==
    [][\A u \in Users :
         answer[u].packet # 0 =>
             (answer'[u].packet # answer[u].packet <=> answer'[u].pad # answer[u].pad)]_vars
=============================================================================
