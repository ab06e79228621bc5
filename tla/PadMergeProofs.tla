--------------------------- MODULE PadMergeProofs ---------------------------
(***************************************************************************)
(* Theorems about PadMerge: for any number of guest threads that poll any  *)
(* number of users, whatever the devices report and in whatever order the  *)
(* polls read them and take the mutex.                                     *)
(***************************************************************************)
EXTENDS PadMerge, TLAPS

\* A number is given out together with last_, and last_ changes only with it.
NumberInv ==
    /\ packet \in Nat
    /\ published <=> packet # 0
    /\ \A n \in numbered : /\ n[1] \in Nat /\ n[1] # 0 /\ n[1] <= packet
                           /\ n[1] = packet => n[2] = last
    /\ SamePacketSamePad

\* Polls and devices are well typed.
PollInv ==
    /\ title \in [Users -> Snapshots]
    /\ host \in [Users -> Snapshots]
    /\ poll \in [Threads -> PollStates]

\* What a poll carries was read from a device while it ran.
ReadInv ==
    /\ shown \in [Threads -> [title : SUBSET Snapshots, host : SUBSET Snapshots]]
    /\ \A t \in Threads :
          /\ poll[t].at # "idle" => /\ title[poll[t].user] \in shown[t].title
                                   /\ host[poll[t].user] \in shown[t].host
          /\ poll[t].at \in {"host", "merge"} => poll[t].title \in shown[t].title
          /\ poll[t].at = "merge" => poll[t].host \in shown[t].host

\* A reading that is connected is one of the gamepad states.
LEMMA SnapshotPad ==
    ASSUME NEW s \in Snapshots, s.connected
    PROVE  s.pad \in Pads
BY DEF Snapshots, Absent, Snapshot

\* The numbering under the mutex keeps the numbers apart.
LEMMA PublishKeepsNumbers ==
    ASSUME NumberInv, NEW pad, Publish(pad), numbered' = numbered \cup {<<packet', pad>>}
    PROVE  NumberInv'
<1>1. packet \in Nat /\ (published <=> packet # 0)
  BY DEF NumberInv
<1>2. CASE ~published \/ pad # last
  <2>1. published' = TRUE /\ last' = pad /\ packet' = packet + 1
    BY <1>2 DEF Publish
  <2>2. \A n \in numbered : n[1] \in Nat /\ n[1] # 0 /\ n[1] < packet'
    BY <1>1, <2>1 DEF NumberInv
  <2>3. \A n \in numbered' : n \in numbered \/ (n[1] = packet' /\ n[2] = pad)
    OBVIOUS
  <2>4. SamePacketSamePad'
    <3> SUFFICES ASSUME NEW n \in numbered', NEW m \in numbered', n[1] = m[1]
                 PROVE  n[2] = m[2]
      BY DEF SamePacketSamePad
    <3>1. CASE n \in numbered /\ m \in numbered
      BY <3>1 DEF NumberInv, SamePacketSamePad
    <3>2. CASE n \notin numbered \/ m \notin numbered
      BY <1>1, <2>1, <2>2, <2>3, <3>2
    <3> QED BY <3>1, <3>2
  <2> QED BY <1>1, <2>1, <2>2, <2>3, <2>4 DEF NumberInv
<1>3. CASE published /\ pad = last
  <2>1. UNCHANGED mergerVars
    BY <1>3 DEF Publish
  <2>2. \A n \in numbered' : n \in numbered \/ (n[1] = packet /\ n[2] = last)
    BY <1>3, <2>1 DEF mergerVars
  <2>3. SamePacketSamePad'
    <3> SUFFICES ASSUME NEW n \in numbered', NEW m \in numbered', n[1] = m[1]
                 PROVE  n[2] = m[2]
      BY DEF SamePacketSamePad
    <3> QED BY <2>2 DEF NumberInv, SamePacketSamePad
  <2> QED BY <1>1, <1>3, <2>1, <2>2, <2>3 DEF NumberInv, mergerVars
<1> QED BY <1>2, <1>3 DEF Publish

\* Only Merge numbers anything.
LEMMA NextKeepsNumbers ==
    ASSUME NumberInv, [Next]_vars
    PROVE  NumberInv'
<1>1. ASSUME UNCHANGED <<mergerVars, historyVars>> PROVE NumberInv'
  BY <1>1 DEF mergerVars, historyVars, NumberInv, SamePacketSamePad
<1>2. ASSUME NEW t \in Threads, Merge(t) PROVE NumberInv'
  <2> DEFINE pad == CombineSnapshots(poll[t].title, poll[t].host)
  <2>1. CASE poll[t].title.connected \/ poll[t].host.connected
    <3>1. Publish(pad) /\ numbered' = numbered \cup {<<packet', pad>>}
      BY <1>2, <2>1 DEF Merge
    <3> QED BY <3>1, PublishKeepsNumbers
  <2>2. CASE ~(poll[t].title.connected \/ poll[t].host.connected)
    BY <1>1, <1>2, <2>2 DEF Merge
  <2> QED BY <2>1, <2>2
<1>3. ASSUME NEW t \in Threads, NEW u \in Users, GetState(t, u) PROVE NumberInv'
  BY <1>1, <1>3 DEF GetState
<1>4. ASSUME NEW t \in Threads, ReadTitle(t) \/ HostState(t) PROVE NumberInv'
  BY <1>1, <1>4 DEF ReadTitle, HostState
<1>5. ASSUME NEW u \in Users, DeviceChanges(u) PROVE NumberInv'
  BY <1>1, <1>5 DEF DeviceChanges
<1>6. CASE UNCHANGED vars
  BY <1>1, <1>6 DEF vars
<1> QED BY <1>2, <1>3, <1>4, <1>5, <1>6 DEF Next

\* What the poll merges is a gamepad that Merge can report.
LEMMA MergesTyped ==
    ASSUME NEW t \in Snapshots, NEW h \in Snapshots, t.connected \/ h.connected
    PROVE  CombineSnapshots(t, h) \in Merged
<1>1. CASE t.connected /\ h.connected
  <2>1. t.pad \in Pads /\ h.pad \in Pads
    BY <1>1, SnapshotPad
  <2> QED BY <1>1, <2>1 DEF CombineSnapshots, Merged
<1>2. CASE t.connected /\ ~h.connected
  <2>1. t.pad \in Pads
    BY <1>2, SnapshotPad
  <2> QED BY <1>2, <2>1 DEF CombineSnapshots, Merged
<1>3. CASE ~t.connected
  <2>1. h.pad \in Pads
    BY <1>3, SnapshotPad
  <2> QED BY <1>3, <2>1 DEF CombineSnapshots, Merged
<1> QED BY <1>1, <1>2, <1>3

\* Polls carry what the devices report.
LEMMA NextKeepsPolls ==
    ASSUME PollInv, [Next]_vars
    PROVE  PollInv'
<1>2. ASSUME NEW t \in Threads, NEW u \in Users, GetState(t, u) PROVE PollInv'
  <2>1. [at |-> "title", user |-> u] \in PollStates
    BY DEF PollStates
  <2> QED BY <1>2, <2>1 DEF GetState, PollInv
<1>3. ASSUME NEW t \in Threads, ReadTitle(t) PROVE PollInv'
  <2>1. poll[t].user \in Users
    BY <1>3 DEF ReadTitle, PollInv, PollStates
  <2>2. [at |-> "host", user |-> poll[t].user, title |-> title[poll[t].user]] \in PollStates
    BY <2>1 DEF PollStates, PollInv
  <2> QED BY <1>3, <2>2 DEF ReadTitle, PollInv
<1>4. ASSUME NEW t \in Threads, HostState(t) PROVE PollInv'
  <2>1. poll[t].user \in Users /\ poll[t].title \in Snapshots
    BY <1>4 DEF HostState, PollInv, PollStates
  <2>2. [at |-> "merge", user |-> poll[t].user, title |-> poll[t].title,
         host |-> host[poll[t].user]] \in PollStates
    BY <2>1 DEF PollStates, PollInv
  <2> QED BY <1>4, <2>2 DEF HostState, PollInv
<1>5. ASSUME NEW t \in Threads, Merge(t) PROVE PollInv'
  <2> DEFINE p == poll[t]
             on == p.title.connected \/ p.host.connected
             reply == IF on THEN Snapshot(CombineSnapshots(p.title, p.host)) ELSE Absent
  <2>1. p.title \in Snapshots /\ p.host \in Snapshots
    BY <1>5 DEF Merge, PollInv, PollStates
  <2>2. reply \in Replies
    BY <2>1, MergesTyped DEF Replies
  <2>3. poll' = [poll EXCEPT ![t] = Returned(reply)]
    BY <1>5 DEF Merge
  <2> HIDE DEF reply
  <2>4. Returned(reply) \in PollStates
    BY <2>2 DEF Returned, PollStates
  <2> QED BY <1>5, <2>3, <2>4 DEF Merge, PollInv
<1>6. ASSUME NEW u \in Users, DeviceChanges(u) PROVE PollInv'
  BY <1>6 DEF DeviceChanges, PollInv
<1>7. CASE UNCHANGED vars
  BY <1>7 DEF vars, PollInv
<1> QED BY <1>2, <1>3, <1>4, <1>5, <1>6, <1>7 DEF Next

\* What one reading or two make is driven by them, and connected with either.
LEMMA ReadingsDrive ==
    ASSUME NEW t \in Snapshots, NEW h \in Snapshots, t.connected \/ h.connected
    PROVE  DrivenBy(CombineSnapshots(t, h), t, h)
<1>1. \A p \in Pads : p.trigger \in Int /\ Magnitude(p.stick) \in Int
  BY PadMergeAssumption DEF Magnitude
<1> HIDE DEF Magnitude
<1>2. CASE t.connected /\ h.connected
  <2>1. t.pad \in Pads /\ h.pad \in Pads
    BY <1>2, SnapshotPad
  <2> DEFINE c == Combine(t.pad, h.pad)
  <2>2. {s \in {t, h} : s.connected} = {t, h} /\ CombineSnapshots(t, h) = c
    BY <1>2 DEF CombineSnapshots
  <2>3. c.buttons = UNION {s.pad.buttons : s \in {t, h}}
    BY DEF Combine
  <2>4. \E s \in {t, h} : c.trigger = s.pad.trigger /\ \A o \in {t, h} : s.pad.trigger >= o.pad.trigger
    BY <1>1, <2>1 DEF Combine
  <2>5. \E s \in {t, h} : /\ c.stick = s.pad.stick
                          /\ \A o \in {t, h} : Magnitude(s.pad.stick) >= Magnitude(o.pad.stick)
    BY <1>1, <2>1 DEF Combine, TakeFurtherStick
  <2> HIDE DEF c
  <2> QED BY <2>2, <2>3, <2>4, <2>5 DEF DrivenBy
<1>3. ASSUME NEW a \in Snapshots, a.connected, CombineSnapshots(t, h) = a.pad,
             {s \in {t, h} : s.connected} = {a}
      PROVE  DrivenBy(CombineSnapshots(t, h), t, h)
  <2>1. a.pad \in Pads
    BY <1>3, SnapshotPad
  <2>2. a.pad.trigger >= a.pad.trigger /\ Magnitude(a.pad.stick) >= Magnitude(a.pad.stick)
    BY <1>1, <2>1
  <2> QED BY <1>3, <2>2 DEF DrivenBy
<1>4. CASE t.connected /\ ~h.connected
  BY <1>3, <1>4 DEF CombineSnapshots
<1>5. CASE ~t.connected
  BY <1>3, <1>5 DEF CombineSnapshots
<1> QED BY <1>2, <1>4, <1>5

\* What the merger and the history hold.
MergerTypes ==
    /\ published \in BOOLEAN
    /\ packet \in Nat
    /\ published <=> packet # 0
    /\ published => last \in Merged
    /\ answer \in [Users -> Answers]
    /\ numbered \subseteq (Nat \X Merged)
    /\ changes \in 0..MaxChanges

\* Every step keeps what Merge reports a gamepad.
LEMMA NextKeepsMergerTypes ==
    ASSUME PollInv, MergerTypes, [Next]_vars
    PROVE  MergerTypes'
<1>1. ASSUME UNCHANGED <<mergerVars, historyVars, changes>> PROVE MergerTypes'
  BY <1>1 DEF mergerVars, historyVars, MergerTypes
<1>2. ASSUME NEW t \in Threads, Merge(t) PROVE MergerTypes'
  <2> DEFINE p == poll[t]
             pad == CombineSnapshots(p.title, p.host)
  <2>1. CASE p.title.connected \/ p.host.connected
    <3>1. p.user \in Users /\ p.title \in Snapshots /\ p.host \in Snapshots
      BY <1>2 DEF Merge, PollInv, PollStates
    <3>2. pad \in Merged
      BY <2>1, <3>1, MergesTyped
    <3>3. /\ Publish(pad) /\ changes' = changes
          /\ answer' = [answer EXCEPT ![p.user] = [packet |-> packet', pad |-> pad]]
          /\ numbered' = numbered \cup {<<packet', pad>>}
      BY <1>2, <2>1 DEF Merge
    <3> HIDE DEF pad, p
    <3>4. /\ published' /\ published' \in BOOLEAN /\ packet' \in Nat /\ packet' # 0
          /\ last' \in Merged
      <4>1. /\ published \in BOOLEAN /\ packet \in Nat /\ (published <=> packet # 0)
            /\ published => last \in Merged
        BY DEF MergerTypes
      <4>2. CASE ~published \/ pad # last
        <5>1. published' = TRUE /\ last' = pad /\ packet' = packet + 1
          BY <3>3, <4>2 DEF Publish
        <5> QED BY <3>2, <4>1, <5>1
      <4>3. CASE published /\ pad = last
        <5>1. published' = published /\ last' = last /\ packet' = packet
          BY <3>3, <4>3 DEF Publish, mergerVars
        <5> QED BY <4>1, <4>3, <5>1
      <4> QED BY <4>2, <4>3
    <3>5. [packet |-> packet', pad |-> pad] \in Answers
      BY <3>2, <3>4 DEF Answers
    <3> QED BY <3>1, <3>2, <3>3, <3>4, <3>5 DEF MergerTypes
  <2>2. CASE ~(p.title.connected \/ p.host.connected)
    BY <1>1, <1>2, <2>2 DEF Merge
  <2> QED BY <2>1, <2>2
<1>3. ASSUME NEW t \in Threads, NEW u \in Users, GetState(t, u) PROVE MergerTypes'
  BY <1>1, <1>3 DEF GetState
<1>4. ASSUME NEW t \in Threads, ReadTitle(t) \/ HostState(t) PROVE MergerTypes'
  BY <1>1, <1>4 DEF ReadTitle, HostState
<1>5. ASSUME NEW u \in Users, DeviceChanges(u) PROVE MergerTypes'
  BY <1>5, PadMergeAssumption DEF DeviceChanges, MergerTypes, mergerVars, historyVars
<1>6. CASE UNCHANGED vars
  BY <1>1, <1>6 DEF vars
<1> QED BY <1>2, <1>3, <1>4, <1>5, <1>6 DEF Next

\* A reading is among what its device showed during the call.
LEMMA NextKeepsReadings ==
    ASSUME PollInv, ReadInv, [Next]_vars
    PROVE  ReadInv'
<1>1. ASSUME NEW t \in Threads, NEW u \in Users, GetState(t, u) PROVE ReadInv'
  <2>1. [title |-> {title[u]}, host |-> {host[u]}]
            \in [title : SUBSET Snapshots, host : SUBSET Snapshots]
    BY DEF PollInv
  <2>2. shown' \in [Threads -> [title : SUBSET Snapshots, host : SUBSET Snapshots]]
    BY <1>1, <2>1 DEF GetState, ReadInv
  <2> QED BY <1>1, <2>2 DEF GetState, ReadInv, PollInv
<1>2. ASSUME NEW t \in Threads, ReadTitle(t) PROVE ReadInv'
  BY <1>2 DEF ReadTitle, ReadInv, PollInv
<1>3. ASSUME NEW t \in Threads, HostState(t) PROVE ReadInv'
  BY <1>3 DEF HostState, ReadInv, PollInv
<1>4. ASSUME NEW t \in Threads, Merge(t) PROVE ReadInv'
  <2>1. /\ poll'[t].at = "idle"
        /\ \A o \in Threads \ {t} : poll'[o] = poll[o] /\ shown'[o] = shown[o]
        /\ title' = title /\ host' = host
    BY <1>4 DEF Merge, Returned, PollInv, ReadInv
  <2>2. shown' \in [Threads -> [title : SUBSET Snapshots, host : SUBSET Snapshots]]
    BY <1>4 DEF Merge, ReadInv, NothingShown
  <2> QED BY <2>1, <2>2 DEF ReadInv
<1>5. ASSUME NEW u \in Users, DeviceChanges(u) PROVE ReadInv'
  <2>1. /\ poll' = poll /\ title' \in [Users -> Snapshots] /\ host' \in [Users -> Snapshots]
        /\ \A v \in Users \ {u} : title'[v] = title[v] /\ host'[v] = host[v]
    BY <1>5 DEF DeviceChanges, PollInv
  <2>2. shown' \in [Threads -> [title : SUBSET Snapshots, host : SUBSET Snapshots]]
    BY <1>5, <2>1 DEF DeviceChanges, ReadInv
  <2>3. \A t \in Threads : shown[t].title \subseteq shown'[t].title
                          /\ shown[t].host \subseteq shown'[t].host
    BY <1>5 DEF DeviceChanges
  <2>4. \A t \in Threads : poll[t].at # "idle" =>
            title'[poll[t].user] \in shown'[t].title /\ host'[poll[t].user] \in shown'[t].host
    <3> SUFFICES ASSUME NEW t \in Threads, poll[t].at # "idle"
                 PROVE  title'[poll[t].user] \in shown'[t].title /\ host'[poll[t].user] \in shown'[t].host
      OBVIOUS
    <3>1. poll[t].user \in Users
      BY DEF PollInv, PollStates
    <3>2. CASE poll[t].user = u
      BY <1>5, <3>2 DEF DeviceChanges
    <3>3. CASE poll[t].user # u
      BY <2>1, <2>3, <3>1, <3>3 DEF ReadInv
    <3> QED BY <3>2, <3>3
  <2> QED BY <2>1, <2>2, <2>3, <2>4 DEF ReadInv
<1>6. CASE UNCHANGED vars
  BY <1>6 DEF vars, ReadInv
<1> QED BY <1>1, <1>2, <1>3, <1>4, <1>5, <1>6 DEF Next

\* Every poll carries what the devices have reported.
LEMMA PollsHold == Spec => [](PollInv /\ ReadInv)
<1>1. Init => PollInv /\ ReadInv
  BY DEF Init, PollInv, ReadInv, Snapshots, Replies, Returned, PollStates, NothingShown
<1> QED BY <1>1, NextKeepsPolls, NextKeepsReadings, PTL DEF Spec

\* Nothing is merged at first.
LEMMA InitMerger == Init => MergerTypes
<1> SUFFICES ASSUME Init PROVE MergerTypes
  OBVIOUS
<1>1. 0 \in 0..MaxChanges
  BY PadMergeAssumption
<1>2. [packet |-> 0] \in Answers
  BY DEF Answers
<1>3. answer \in [Users -> Answers]
  BY <1>2 DEF Init
<1> QED BY <1>1, <1>3 DEF Init, MergerTypes

\* The merger's state stays well typed, whatever the devices report.
THEOREM PadTypeCorrect == Spec => []TypeOK
<1>1. PollInv /\ ReadInv /\ MergerTypes => TypeOK
  BY DEF PollInv, ReadInv, MergerTypes, TypeOK
<1> QED BY <1>1, InitMerger, NextKeepsMergerTypes, PollsHold, PTL DEF Spec

\* A packet number is never given with two pads, for any interleaving of polls.
THEOREM PacketsIdentifyPads == Spec => []SamePacketSamePad
<1>1. Init => NumberInv
  BY DEF Init, NumberInv, SamePacketSamePad
<1>2. NumberInv => SamePacketSamePad
  BY DEF NumberInv
<1> QED BY <1>1, <1>2, NextKeepsNumbers, PTL DEF Spec

\* What GetState returns is driven by two readings the devices gave during the
\* call, for any gamepads, any number of threads and whatever comes and goes.
THEOREM NoDeviceIsLost == Spec => EitherDeviceDrives
<1>1. ASSUME PollInv, ReadInv, Next, NEW t \in Threads, poll[t].at = "merge", poll'[t].at = "idle"
      PROVE  \E r \in shown[t].title, h \in shown[t].host :
                 /\ poll'[t].reply.connected <=> r.connected \/ h.connected
                 /\ poll'[t].reply.connected => DrivenBy(poll'[t].reply.pad, r, h)
  <2>1. Merge(t)
    <3>1. ASSUME NEW o \in Threads, Merge(o) PROVE o = t
      BY <1>1, <3>1 DEF Merge, PollInv
    <3>2. ASSUME NEW o \in Threads, ReadTitle(o) \/ HostState(o) \/ \E u \in Users : GetState(o, u)
          PROVE  FALSE
      BY <1>1, <3>2 DEF ReadTitle, HostState, GetState, PollInv
    <3>3. ASSUME NEW u \in Users, DeviceChanges(u) PROVE FALSE
      BY <1>1, <3>3 DEF DeviceChanges
    <3> QED BY <1>1, <3>1, <3>2, <3>3 DEF Next
  <2> DEFINE r == poll[t].title
             h == poll[t].host
             on == r.connected \/ h.connected
             made == CombineSnapshots(r, h)
  <2>2. r \in Snapshots /\ h \in Snapshots /\ r \in shown[t].title /\ h \in shown[t].host
    BY <1>1 DEF PollInv, ReadInv, PollStates
  <2>3. poll'[t].reply = IF on THEN Snapshot(made) ELSE Absent
    BY <1>1, <2>1 DEF Merge, Returned, PollInv
  <2>4. CASE on
    <3>1. DrivenBy(made, r, h)
      BY <2>2, <2>4, ReadingsDrive
    <3>2. poll'[t].reply.connected /\ poll'[t].reply.pad = made
      BY <2>3, <2>4 DEF Snapshot
    <3> QED BY <2>2, <2>4, <3>1, <3>2
  <2>5. CASE ~on
    BY <2>2, <2>3, <2>5 DEF Absent
  <2> QED BY <2>4, <2>5
<1>2. PollInv /\ ReadInv /\ [Next]_vars =>
        [\A t \in Threads : poll[t].at = "merge" /\ poll'[t].at = "idle" =>
           \E r \in shown[t].title, h \in shown[t].host :
               /\ poll'[t].reply.connected <=> r.connected \/ h.connected
               /\ poll'[t].reply.connected => DrivenBy(poll'[t].reply.pad, r, h)]_vars
  BY <1>1
<1> QED BY <1>2, PollsHold, PTL DEF Spec, EitherDeviceDrives

\* The user was last told what the merger holds.
AnswerInv ==
    \A u \in Users : answer[u].packet # 0 =>
        published /\ answer[u].packet = packet /\ answer[u].pad = last

\* While one user is polled, no other poll moves the number behind the answer:
\* each merge finds in last_ the pad of the answer before it.
LEMMA MergeTracks ==
    ASSUME \A u, v \in Users : u = v, PollInv, MergerTypes, AnswerInv,
           NEW t \in Threads, Merge(t)
    PROVE  /\ AnswerInv'
           /\ \A u \in Users : answer[u].packet # 0 =>
                 (answer'[u].packet # answer[u].packet <=> answer'[u].pad # answer[u].pad)
<1> DEFINE p == poll[t]
           pad == CombineSnapshots(p.title, p.host)
<1>1. CASE ~(p.title.connected \/ p.host.connected)
  BY <1>1 DEF Merge, mergerVars, historyVars, AnswerInv
<1>2. CASE p.title.connected \/ p.host.connected
  <2>1. p.user \in Users
    BY DEF Merge, PollInv, PollStates
  <2>2. Publish(pad) /\ answer' = [answer EXCEPT ![p.user] = [packet |-> packet', pad |-> pad]]
    BY <1>2 DEF Merge
  <2> HIDE DEF pad, p
  <2>3. \A u \in Users : answer'[u] = [packet |-> packet', pad |-> pad]
    BY <2>1, <2>2 DEF MergerTypes
  <2>4. published' /\ last' = pad /\ packet \in Nat
        /\ (published => (packet' # packet <=> pad # last))
    BY <2>2 DEF Publish, mergerVars, MergerTypes
  <2> QED
    BY <2>3, <2>4 DEF AnswerInv
<1> QED
  BY <1>1, <1>2

\* No other step answers a poll.
LEMMA NextTracks ==
    ASSUME \A u, v \in Users : u = v, PollInv, MergerTypes, AnswerInv, [Next]_vars
    PROVE  /\ AnswerInv'
           /\ \A u \in Users : answer[u].packet # 0 =>
                 (answer'[u].packet # answer[u].packet <=> answer'[u].pad # answer[u].pad)
<1>1. CASE UNCHANGED <<mergerVars, historyVars>>
  BY <1>1 DEF mergerVars, historyVars, AnswerInv
<1>2. CASE \E t \in Threads : Merge(t)
  BY <1>2, MergeTracks
<1>3. CASE UNCHANGED vars
  BY <1>1, <1>3 DEF vars
<1>4. CASE \E t \in Threads : ReadTitle(t) \/ HostState(t) \/ \E u \in Users : GetState(t, u)
  BY <1>1, <1>4 DEF ReadTitle, HostState, GetState
<1>5. CASE \E u \in Users : DeviceChanges(u)
  BY <1>1, <1>5 DEF DeviceChanges
<1> QED
  BY <1>2, <1>3, <1>4, <1>5 DEF Next

\* For a single user, the number moves exactly with the state, whatever the
\* polls' interleaving; a second user's polls would move it between the answers.
THEOREM PacketsTrackTheState ==
    (\A u, v \in Users : u = v) => (Spec => PacketTracksState)
<1> SUFFICES ASSUME \A u, v \in Users : u = v PROVE Spec => PacketTracksState
  OBVIOUS
<1>1. Init => MergerTypes /\ AnswerInv
  BY InitMerger DEF Init, AnswerInv
<1>2. PollInv /\ MergerTypes /\ AnswerInv /\ [Next]_vars
      => MergerTypes' /\ AnswerInv' /\ \A u \in Users : answer[u].packet # 0 =>
             (answer'[u].packet # answer[u].packet <=> answer'[u].pad # answer[u].pad)
  BY NextTracks, NextKeepsMergerTypes
<1>3. Spec => [](MergerTypes /\ AnswerInv)
  BY <1>1, <1>2, PollsHold, PTL DEF Spec
<1> QED
  BY <1>2, <1>3, PollsHold, PTL DEF Spec, PacketTracksState
=============================================================================
