------------------------- MODULE DesktopInputProofs -------------------------
(***************************************************************************)
(* Pointer travel is handed over exactly once and no key or button sticks, *)
(* for any number of guest threads, of key words and of pointer motions.   *)
(***************************************************************************)
EXTENDS DesktopInput, SequenceTheorems, TLAPS

\* The counters are functions on the axes, so that the sum is one of numbers.
CountInv ==
    /\ travel \in [Axes -> Nat]
    /\ moved \in [Axes -> Nat]
    /\ discarded \in [Axes -> Nat]
    /\ delivered \in [Axes -> Nat]
    /\ TravelDeliveredOnce

\* The handlers that add travel: one fetch_add, one unit more moved.
LEMMA MoveKeepsCount ==
    ASSUME CountInv, NEW a \in Axes, OnMouseMove(a)
    PROVE  CountInv'
BY DEF CountInv, TravelDeliveredOnce, OnMouseMove, AddPointerTravel, readVars

\* The store that drops an axis accounts for what it drops.
LEMMA StoreKeepsCount ==
    ASSUME CountInv, Store
    PROVE  CountInv'
<1> DEFINE part == Head(stores)
<1>1. moved' = moved /\ delivered' = delivered
  BY DEF Store, readVars
<1>2. CASE part \in Axes
  <2>1. /\ travel' = [travel EXCEPT ![part] = 0]
        /\ discarded' = [discarded EXCEPT ![part] = @ + travel[part]]
    BY <1>2 DEF Store
  <2> HIDE DEF part
  <2> QED BY <1>1, <1>2, <2>1 DEF CountInv, TravelDeliveredOnce
<1>3. CASE part \notin Axes
  <2>1. UNCHANGED <<travel, discarded>>
    BY <1>3 DEF Store
  <2> QED BY <1>1, <2>1 DEF CountInv, TravelDeliveredOnce
<1> QED BY <1>2, <1>3

\* The exchange in TakeSnapshot takes the axis and leaves zero in one step.
LEMMA ConsumeKeepsCount ==
    ASSUME CountInv, NEW t \in Readers, NEW a \in Axes, ConsumeTravel(t, a)
    PROVE  CountInv'
BY DEF CountInv, TravelDeliveredOnce, ConsumeTravel, uiVars

\* No other step touches a counter.
LEMMA OthersKeepCount ==
    ASSUME CountInv, UNCHANGED <<travel, moved, discarded, delivered>>
    PROVE  CountInv'
BY DEF CountInv, TravelDeliveredOnce

\* The account of the travel is kept in every reachable state.
LEMMA CountHolds == Spec => []CountInv
<1>1. Init => CountInv
  BY DEF Init, CountInv, TravelDeliveredOnce, Axes
<1>2. CountInv /\ [Next]_vars => CountInv'
  <2> SUFFICES ASSUME CountInv, [Next]_vars PROVE CountInv'
    OBVIOUS
  <2>1. CASE UNCHANGED vars
    BY <2>1, OthersKeepCount DEF vars, stateVars, uiVars, readVars
  <2>2. ASSUME NEW w \in Held, NEW down \in BOOLEAN, SetKey(w, down) PROVE CountInv'
    BY <2>2, OthersKeepCount DEF SetKey, readVars
  <2>3. CASE OnMouseDown \/ OnMouseUp
    BY <2>3, OthersKeepCount DEF OnMouseDown, OnMouseUp, readVars
  <2>4. CASE OnLostFocus \/ RegainFocus
    BY <2>4, OthersKeepCount DEF OnLostFocus, RegainFocus, stateVars, readVars
  <2>5. ASSUME NEW w \in Held, UnseenRelease(w) PROVE CountInv'
    BY <2>5, OthersKeepCount DEF UnseenRelease, stateVars, readVars
  <2>6. ASSUME NEW t \in Readers, TakeSnapshot(t) PROVE CountInv'
    BY <2>6, OthersKeepCount DEF TakeSnapshot, stateVars, uiVars
  <2>7. ASSUME NEW t \in Readers, NEW part \in Parts, ReadLevel(t, part) PROVE CountInv'
    BY <2>7, OthersKeepCount DEF ReadLevel, stateVars, uiVars
  <2> QED
    BY <2>1, <2>2, <2>3, <2>4, <2>5, <2>6, <2>7, MoveKeepsCount, StoreKeepsCount,
       ConsumeKeepsCount DEF Next, Window
<1> QED BY <1>1, <1>2, PTL DEF Spec

\* No travel is lost or reported twice: what the pointer moved is what waits in
\* the atomics, what releases threw away and what snapshots have reported.
THEOREM TravelAccounted == Spec => []TravelDeliveredOnce
<1>1. CountInv => TravelDeliveredOnce
  BY DEF CountInv
<1> QED BY <1>1, CountHolds, PTL

-----------------------------------------------------------------------------
(* What a release leaves behind *)

\* The handler that is releasing will still store to part.
ToStore(s, part) == \E i \in 1..Len(s) : s[i] = part

\* While the window has the focus no release is under way; while it has not,
\* whatever is still set is about to be cleared.
ReleaseInv ==
    /\ held \in [Held -> BOOLEAN]
    /\ phys \in [Held -> BOOLEAN]
    /\ travel \in [Axes -> Nat]
    /\ captured \in BOOLEAN
    /\ grabbed \in BOOLEAN
    /\ focus \in BOOLEAN
    /\ stores \in Seq(Parts)
    /\ focus => /\ stores = <<>>
                /\ \A w \in Held : held[w] => phys[w]
                /\ captured = grabbed
                /\ ~captured => \A a \in Axes : travel[a] = 0
    /\ ~focus => /\ ~grabbed
                 /\ \A w \in Held : held[w] => ToStore(stores, w)
                 /\ captured => ToStore(stores, "captured")
                 /\ \A a \in Axes : travel[a] # 0 => ToStore(stores, a)

\* A handler that has returned stores nothing more.
LEMMA NothingToStore ==
    ASSUME NEW part
    PROVE  ~ToStore(<<>>, part)
BY EmptySeq DEF ToStore

\* Losing the focus clears every key word, the buttons and the pointer.
LEMMA ReleaseCoversAll ==
    ASSUME NEW part \in Parts
    PROVE  /\ Release \o ReleaseAll \in Seq(Parts)
           /\ ToStore(Release \o ReleaseAll, part)
<1>1. Words \in Seq(Held) /\ Len(Words) \in Nat /\ DOMAIN Words = 1..Len(Words)
  <2>1. Words \in Seq(STRING)
    BY DesktopInputAssumption
  <2>2. Len(Words) \in Nat /\ DOMAIN Words = 1..Len(Words) /\ Words \in [1..Len(Words) -> STRING]
    BY <2>1, LenProperties
  <2>3. Words \in [1..Len(Words) -> Held]
    BY <2>2 DEF Held
  <2> QED BY <2>2, <2>3, IsASeq
<1>2. \A i \in 1..Len(Words) : Words[i] \in Parts
  BY <1>1 DEF Held, Parts
<1>3. Words \in Seq(Parts)
  <2>1. Words \in [1..Len(Words) -> Parts]
    BY <1>1, <1>2, LenProperties
  <2> QED BY <1>1, <2>1, IsASeq
<1>4. SetPointerUncaptured \in Seq(Parts) /\ Len(SetPointerUncaptured) = 3
      /\ SetPointerUncaptured[1] = "captured" /\ SetPointerUncaptured[2] = "dx"
      /\ SetPointerUncaptured[3] = "dy"
  BY DEF SetPointerUncaptured, Parts, Axes
<1> HIDE DEF SetPointerUncaptured
<1>5. /\ ReleaseAll \in Seq(Parts) /\ Len(ReleaseAll) = Len(Words) + 3
      /\ \A i \in 1..Len(Words) : ReleaseAll[i] = Words[i]
      /\ \A k \in 1..3 : ReleaseAll[Len(Words) + k] = SetPointerUncaptured[k]
  <2>1. /\ ReleaseAll \in Seq(Parts) /\ Len(ReleaseAll) = Len(Words) + 3
        /\ \A i \in 1..(Len(Words) + 3) :
              ReleaseAll[i] = IF i <= Len(Words) THEN Words[i]
                              ELSE SetPointerUncaptured[i - Len(Words)]
    <3>1. /\ ReleaseAll \in Seq(Parts)
          /\ Len(ReleaseAll) = Len(Words) + Len(SetPointerUncaptured)
          /\ \A i \in 1..(Len(Words) + Len(SetPointerUncaptured)) :
                ReleaseAll[i] = IF i <= Len(Words) THEN Words[i]
                                ELSE SetPointerUncaptured[i - Len(Words)]
      BY <1>3, <1>4, ConcatProperties DEF ReleaseAll
    <3> QED BY <1>4, <3>1
  <2>2. \A k \in 1..3 : Len(Words) + k \in 1..(Len(Words) + 3)
                        /\ ~(Len(Words) + k <= Len(Words)) /\ Len(Words) + k - Len(Words) = k
    BY <1>1
  <2>3. \A i \in 1..Len(Words) : i \in 1..(Len(Words) + 3) /\ i <= Len(Words)
    BY <1>1
  <2> QED BY <2>1, <2>2, <2>3
<1>6. \E i \in 1..Len(ReleaseAll) : ReleaseAll[i] = part
  <2>1. CASE part \in Held
    <3>1. PICK i \in 1..Len(Words) : Words[i] = part
      BY <1>1, <2>1 DEF Held
    <3> QED BY <1>1, <1>5, <3>1
  <2>2. CASE part \in Axes \cup {"captured"}
    <3>1. PICK k \in 1..3 : SetPointerUncaptured[k] = part
      BY <1>4, <2>2 DEF Axes
    <3>2. Len(Words) + k \in 1..Len(ReleaseAll)
      BY <1>1, <1>5
    <3> QED BY <1>5, <3>1, <3>2
  <2> QED BY <2>1, <2>2 DEF Parts
<1>7. Release \in Seq(Parts) /\ Len(Release) \in Nat
  BY <1>4, EmptySeq, LenProperties DEF Release
<1>8. /\ Release \o ReleaseAll \in Seq(Parts)
      /\ Len(Release \o ReleaseAll) = Len(Release) + Len(ReleaseAll)
      /\ \A i \in 1..(Len(Release) + Len(ReleaseAll)) :
            (Release \o ReleaseAll)[i] = IF i <= Len(Release) THEN Release[i]
                                         ELSE ReleaseAll[i - Len(Release)]
  BY <1>5, <1>7, ConcatProperties
<1>9. PICK i \in 1..Len(ReleaseAll) : ReleaseAll[i] = part
  BY <1>6
<1>10. Len(Release) + i \in 1..(Len(Release) + Len(ReleaseAll))
       /\ ~(Len(Release) + i <= Len(Release)) /\ Len(Release) + i - Len(Release) = i
  BY <1>1, <1>5, <1>7, <1>9
<1> QED BY <1>8, <1>9, <1>10 DEF ToStore

\* One store clears one part and leaves the rest to be cleared.
LEMMA StoreKeepsRelease ==
    ASSUME ReleaseInv, Store
    PROVE  ReleaseInv'
<1> DEFINE part == Head(stores)
<1>1. stores # <<>> /\ stores \in Seq(Parts) /\ ~focus /\ focus' = focus
      /\ grabbed' = grabbed /\ phys' = phys /\ stores' = Tail(stores)
  BY DEF Store, ReleaseInv
<1>2. /\ Len(stores) \in Nat /\ part \in Parts /\ part = stores[1]
      /\ stores' \in Seq(Parts) /\ Len(stores') = Len(stores) - 1
      /\ \A i \in 1..Len(stores') : stores'[i] = stores[i + 1]
  BY <1>1, HeadTailProperties, LenProperties
<1> HIDE DEF part
<1>3. ASSUME NEW x, ToStore(stores, x), x # part PROVE ToStore(stores', x)
  <2>1. PICK i \in 1..Len(stores) : stores[i] = x
    BY <1>3 DEF ToStore
  <2>2. i # 1
    BY <1>2, <1>3, <2>1
  <2>3. i - 1 \in 1..Len(stores') /\ (i - 1) + 1 = i
    BY <1>2, <2>1, <2>2
  <2> QED BY <1>2, <2>1, <2>3 DEF ToStore
<1>4. /\ held' = IF part \in Held THEN [held EXCEPT ![part] = FALSE] ELSE held
      /\ captured' = IF part = "captured" THEN FALSE ELSE captured
      /\ travel' = IF part \in Axes THEN [travel EXCEPT ![part] = 0] ELSE travel
  BY DEF Store, part
<1>5. held' \in [Held -> BOOLEAN] /\ \A w \in Held : held'[w] => held[w] /\ w # part
  BY <1>4 DEF ReleaseInv
<1>6. captured' \in BOOLEAN /\ (captured' => captured /\ part # "captured")
  BY <1>4 DEF ReleaseInv
<1>7. travel' \in [Axes -> Nat] /\ \A a \in Axes : travel'[a] # 0 => travel[a] # 0 /\ a # part
  BY <1>4 DEF ReleaseInv
<1> QED BY <1>1, <1>2, <1>3, <1>5, <1>6, <1>7 DEF ReleaseInv

\* Every step keeps the release invariant.
LEMMA NextKeepsRelease ==
    ASSUME ReleaseInv, [Next]_vars
    PROVE  ReleaseInv'
<1>1. CASE UNCHANGED vars
  BY <1>1 DEF vars, stateVars, uiVars, ReleaseInv
<1>2. ASSUME NEW w \in Held, NEW down \in BOOLEAN, SetKey(w, down) PROVE ReleaseInv'
  BY <1>2 DEF SetKey, Event, ReleaseInv
<1>3. CASE OnMouseDown
  <2>1. /\ focus /\ stores = <<>> /\ "mouse" \in Held
        /\ phys' = [phys EXCEPT !["mouse"] = TRUE] /\ UNCHANGED <<travel, stores, focus>>
    BY <1>3, DesktopInputAssumption DEF OnMouseDown, Event
  <2>2. /\ phys' \in [Held -> BOOLEAN] /\ phys'["mouse"]
        /\ \A w \in Held : phys[w] => phys'[w]
    BY <2>1 DEF ReleaseInv
  <2>3. held' \in {held, [held EXCEPT !["mouse"] = TRUE]}
        /\ \/ UNCHANGED <<captured, grabbed>>
           \/ captured' = TRUE /\ grabbed' = TRUE
    BY <1>3 DEF OnMouseDown, Capture
  <2>4. held' \in [Held -> BOOLEAN] /\ \A w \in Held : held'[w] => phys'[w]
    BY <2>1, <2>2, <2>3 DEF ReleaseInv
  <2>5. /\ captured' \in BOOLEAN /\ grabbed' \in BOOLEAN /\ captured' = grabbed'
        /\ ~captured' => \A a \in Axes : travel'[a] = 0
    <3>1. /\ captured \in BOOLEAN /\ grabbed \in BOOLEAN /\ captured = grabbed
          /\ ~captured => \A a \in Axes : travel[a] = 0
      BY <2>1 DEF ReleaseInv
    <3>2. CASE captured' = captured /\ grabbed' = grabbed
      <4>1. travel' = travel
        BY <2>1
      <4> QED BY <3>1, <3>2, <4>1, Zenon
    <3>3. CASE captured' = TRUE /\ grabbed' = TRUE
      BY <3>3, Zenon
    <3> QED BY <2>3, <3>2, <3>3
  <2>6. focus' /\ stores' = <<>> /\ stores' \in Seq(Parts) /\ travel' \in [Axes -> Nat]
        /\ focus' \in BOOLEAN
    BY <2>1 DEF ReleaseInv
  <2> QED BY <2>2, <2>4, <2>5, <2>6 DEF ReleaseInv
<1>4. CASE OnMouseUp
  BY <1>4, DesktopInputAssumption DEF OnMouseUp, Event, ReleaseInv
<1>5. ASSUME NEW a \in Axes, OnMouseMove(a) PROVE ReleaseInv'
  <2>1. focus /\ grabbed /\ captured /\ stores = <<>>
    BY <1>5 DEF OnMouseMove, Event, ReleaseInv
  <2>2. travel' \in [Axes -> Nat] /\ UNCHANGED <<held, captured, grabbed, stores, focus, phys>>
    BY <1>5 DEF OnMouseMove, AddPointerTravel, ReleaseInv
  <2> QED BY <2>1, <2>2 DEF ReleaseInv
<1>6. CASE OnLostFocus
  <2>1. /\ focus' = FALSE /\ grabbed' = FALSE /\ stores' = Release \o ReleaseAll
        /\ UNCHANGED <<held, travel, captured, phys>>
    BY <1>6 DEF OnLostFocus, stateVars
  <2>2. stores' \in Seq(Parts) /\ \A part \in Parts : ToStore(stores', part)
    <3>1. Parts # {}
      BY DEF Parts
    <3> QED BY <2>1, <3>1, ReleaseCoversAll
  <2>3. Held \subseteq Parts /\ Axes \subseteq Parts /\ "captured" \in Parts
    BY DEF Parts
  <2> QED BY <2>1, <2>2, <2>3 DEF ReleaseInv
<1>7. CASE Store
  BY <1>7, StoreKeepsRelease
<1>8. CASE RegainFocus
  <2>1. stores = <<>> /\ ~focus /\ focus' = TRUE /\ UNCHANGED <<held, travel, captured, grabbed, stores, phys>>
    BY <1>8 DEF RegainFocus, stateVars
  <2>2. (\A w \in Held : ~held[w]) /\ ~captured /\ \A a \in Axes : travel[a] = 0
    BY <2>1, NothingToStore DEF ReleaseInv
  <2> QED BY <2>1, <2>2 DEF ReleaseInv
<1>9. ASSUME NEW w \in Held, UnseenRelease(w) PROVE ReleaseInv'
  BY <1>9 DEF UnseenRelease, stateVars, ReleaseInv
<1>10. ASSUME NEW t \in Readers, TakeSnapshot(t) PROVE ReleaseInv'
  BY <1>10 DEF TakeSnapshot, stateVars, uiVars, ReleaseInv
<1>11. ASSUME NEW t \in Readers, NEW part \in Parts, ReadLevel(t, part) PROVE ReleaseInv'
  BY <1>11 DEF ReadLevel, stateVars, uiVars, ReleaseInv
<1>12. ASSUME NEW t \in Readers, NEW a \in Axes, ConsumeTravel(t, a) PROVE ReleaseInv'
  BY <1>12 DEF ConsumeTravel, uiVars, ReleaseInv
<1> QED
  BY <1>1, <1>2, <1>3, <1>4, <1>5, <1>6, <1>7, <1>8, <1>9, <1>10, <1>11, <1>12
     DEF Next, Window

\* The release invariant holds in every reachable state.
LEMMA ReleaseHolds == Spec => []ReleaseInv
<1>1. Init => ReleaseInv
  <2> SUFFICES ASSUME Init PROVE ReleaseInv
    OBVIOUS
  <2>1. stores \in Seq(Parts)
    BY EmptySeq DEF Init
  <2>2. held \in [Held -> BOOLEAN] /\ phys \in [Held -> BOOLEAN] /\ travel \in [Axes -> Nat]
    BY DEF Init
  <2> QED BY <2>1, <2>2 DEF Init, ReleaseInv
<1> QED BY <1>1, NextKeepsRelease, PTL DEF Spec

\* No key or button sticks, for any set of keys: a window that has lost the
\* focus and returned from its handler reports nothing held.
THEOREM KeysNeverStick == Spec => []NoStuckKeys
<1>1. ReleaseInv => NoStuckKeys
  BY NothingToStore DEF ReleaseInv, NoStuckKeys
<1> QED BY <1>1, ReleaseHolds, PTL

\* The window and the shared state agree on the capture between events, and no
\* travel outlives it.
THEOREM CaptureKept == Spec => []CaptureAgrees
<1>1. ReleaseInv => CaptureAgrees
  BY NothingToStore DEF ReleaseInv, CaptureAgrees
<1> QED BY <1>1, ReleaseHolds, PTL

-----------------------------------------------------------------------------
(* Type correctness *)

\* What is not typed by the invariants above: the window's own flags, the bound
\* of the travel, and the snapshots under way.
SnapInv ==
    /\ haveLast \in BOOLEAN
    /\ moved \in [Axes -> 0..MaxMoves]
    /\ left \in [Readers -> SUBSET Parts]
    /\ snap \in [Readers -> Snapshots]

\* An account of naturals bounds each of its entries by the travel made.
LEMMA AccountBounds ==
    ASSUME CountInv, moved \in [Axes -> 0..MaxMoves], NEW a \in Axes
    PROVE  /\ travel[a] \in 0..MaxMoves
           /\ discarded[a] \in 0..MaxMoves
           /\ delivered[a] \in 0..MaxMoves
<1>1. moved[a] \in 0..MaxMoves /\ moved[a] = travel[a] + discarded[a] + delivered[a]
  BY DEF CountInv, TravelDeliveredOnce
<1>2. travel[a] \in Nat /\ discarded[a] \in Nat /\ delivered[a] \in Nat
  BY DEF CountInv
<1> QED BY <1>1, <1>2, DesktopInputAssumption

LEMMA NextKeepsSnaps ==
    ASSUME CountInv, ReleaseInv, SnapInv, [Next]_vars
    PROVE  SnapInv'
<1>1. CASE UNCHANGED vars
  BY <1>1 DEF vars, uiVars, readVars, SnapInv
<1>2. ASSUME NEW w \in Held, NEW down \in BOOLEAN, SetKey(w, down) PROVE SnapInv'
  BY <1>2 DEF SetKey, readVars, SnapInv
<1>3. CASE OnMouseDown
  BY <1>3 DEF OnMouseDown, Capture, readVars, SnapInv
<1>4. CASE OnMouseUp
  BY <1>4 DEF OnMouseUp, readVars, SnapInv
<1>5. ASSUME NEW a \in Axes, OnMouseMove(a) PROVE SnapInv'
  <2>1. haveLast' \in BOOLEAN /\ UNCHANGED <<left, snap>>
    BY <1>5 DEF OnMouseMove, readVars
  <2>2. moved' \in [Axes -> 0..MaxMoves]
    <3>1. CASE moved' = moved
      BY <3>1 DEF SnapInv
    <3>2. CASE moved[a] < MaxMoves /\ moved' = [moved EXCEPT ![a] = @ + 1]
      <4>1. moved[a] + 1 \in 0..MaxMoves
        BY <3>2, DesktopInputAssumption DEF SnapInv
      <4> QED BY <3>2, <4>1 DEF SnapInv
    <3> QED BY <1>5, <3>1, <3>2 DEF OnMouseMove, AddPointerTravel
  <2> QED BY <2>1, <2>2 DEF SnapInv
<1>6. CASE OnLostFocus
  BY <1>6 DEF OnLostFocus, readVars, SnapInv
<1>7. CASE Store
  BY <1>7 DEF Store, readVars, SnapInv
<1>8. CASE RegainFocus
  BY <1>8 DEF RegainFocus, readVars, SnapInv
<1>9. ASSUME NEW w \in Held, UnseenRelease(w) PROVE SnapInv'
  BY <1>9 DEF UnseenRelease, readVars, SnapInv
<1>10. ASSUME NEW t \in Readers, TakeSnapshot(t) PROVE SnapInv'
  <2>1. EmptySnapshot \in Snapshots
    BY DesktopInputAssumption DEF EmptySnapshot, Snapshots
  <2> QED BY <1>10, <2>1 DEF TakeSnapshot, uiVars, SnapInv
<1>11. ASSUME NEW t \in Readers, NEW part \in Parts, ReadLevel(t, part) PROVE SnapInv'
  <2>1. /\ UNCHANGED <<haveLast, moved>>
        /\ left' = [left EXCEPT ![t] = @ \ {part}]
        /\ part \in left[t] \ Axes
    BY <1>11 DEF ReadLevel, uiVars
  <2>2. snap' \in [Readers -> Snapshots]
    <3>1. CASE part = "captured"
      <4>1. snap' = [snap EXCEPT ![t].captured = captured]
        BY <1>11, <3>1 DEF ReadLevel
      <4> QED BY <4>1 DEF SnapInv, ReleaseInv, Snapshots
    <3>2. CASE part # "captured"
      <4>1. snap' = [snap EXCEPT ![t].held[part] = held[part]] /\ part \in Held
        BY <1>11, <2>1, <3>2 DEF ReadLevel, Parts
      <4>2. held[part] \in BOOLEAN
        BY <4>1 DEF ReleaseInv
      <4> QED BY <4>1, <4>2 DEF SnapInv, Snapshots
    <3> QED BY <3>1, <3>2
  <2> QED BY <2>1, <2>2 DEF SnapInv
<1>12. ASSUME NEW t \in Readers, NEW a \in Axes, ConsumeTravel(t, a) PROVE SnapInv'
  <2>1. /\ UNCHANGED <<haveLast, moved>>
        /\ left' = [left EXCEPT ![t] = @ \ {a}]
        /\ snap' = [snap EXCEPT ![t].travel[a] = travel[a]]
    BY <1>12 DEF ConsumeTravel, uiVars
  <2>2. travel[a] \in 0..MaxMoves
    BY AccountBounds DEF SnapInv
  <2> QED BY <2>1, <2>2 DEF SnapInv, Snapshots
<1> QED
  BY <1>1, <1>2, <1>3, <1>4, <1>5, <1>6, <1>7, <1>8, <1>9, <1>10, <1>11, <1>12
     DEF Next, Window

\* The input state, the window's flags and the snapshots stay well typed; in
\* particular no snapshot reports more travel than the pointer has made.
THEOREM InputTypeCorrect == Spec => []TypeOK
<1>1. Init => SnapInv
  <2> SUFFICES ASSUME Init PROVE SnapInv
    OBVIOUS
  <2>1. EmptySnapshot \in Snapshots
    BY DesktopInputAssumption DEF EmptySnapshot, Snapshots
  <2>2. haveLast = FALSE /\ moved = [a \in Axes |-> 0]
    BY DEF Init
  <2>3. left = [t \in Readers |-> {}] /\ snap = [t \in Readers |-> EmptySnapshot]
    BY DEF Init
  <2>4. 0 \in 0..MaxMoves
    BY DesktopInputAssumption
  <2> QED BY <2>1, <2>2, <2>3, <2>4 DEF SnapInv
<1>2. CountInv /\ ReleaseInv /\ SnapInv /\ [Next]_vars => SnapInv'
  BY NextKeepsSnaps
<1>3. CountInv /\ ReleaseInv /\ SnapInv => TypeOK
  BY AccountBounds DEF CountInv, ReleaseInv, SnapInv, TypeOK
<1> QED BY <1>1, <1>2, <1>3, CountHolds, ReleaseHolds, PTL DEF Spec
=============================================================================
