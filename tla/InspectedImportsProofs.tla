----------------------- MODULE InspectedImportsProofs -----------------------
(***************************************************************************)
(* From any XEX file and any manifest to the loaded module: what is        *)
(* reported, what is refused, and where each import of a loaded module     *)
(* leads, for any number of libraries, records and claims.                 *)
(***************************************************************************)
EXTENDS InspectedImports, FiniteSetTheorems, TLAPS

-----------------------------------------------------------------------------
(* Least elements and recursion on finite sets *)

\* Among finite sets one has no other inside it.
LEMMA SmallestSet ==
    ASSUME NEW S, NEW C, C \subseteq FiniteSubsetsOf(S), C # {}
    PROVE  \E c \in C : \A d \in C : d \subseteq c => d = c
<1> DEFINE R == StrictSubsetOrdering(S)
           F == FiniteSubsetsOf(S)
<1>1. IsWellFoundedOn(R, F)
  BY FS_StrictSubsetOrderingWellFounded
<1> HIDE DEF R, F
<1>2. PICK c \in C : \A d \in C : ~(<<d, c>> \in R)
  BY <1>1, WFMin DEF F
<1>3. ASSUME NEW d \in C, d \subseteq c, d # c PROVE FALSE
  <2>1. d \in SUBSET S /\ c \in SUBSET S
    BY DEF FiniteSubsetsOf
  <2>2. <<d, c>> \in R
    BY <1>3, <2>1 DEF R, StrictSubsetOrdering
  <2> QED
    BY <1>2, <2>2
<1> QED
  BY <1>2, <1>3

\* Numbers have a least one.
LEMMA LeastNat ==
    ASSUME NEW T, T \subseteq Nat, T # {}
    PROVE  \E k \in T : \A j \in T : k <= j
<1> DEFINE C == {0..k : k \in T}
<1>1. C \subseteq FiniteSubsetsOf(Nat) /\ C # {}
  <2>1. ASSUME NEW k \in T PROVE 0..k \in FiniteSubsetsOf(Nat)
    <3>1. k \in Int /\ IsFiniteSet(0..k) /\ 0..k \subseteq Nat
      BY FS_Interval
    <3> QED
      BY <3>1 DEF FiniteSubsetsOf
  <2> QED
    BY <2>1
<1> HIDE DEF C
<1>2. PICK c \in C : \A d \in C : d \subseteq c => d = c
  BY <1>1, SmallestSet
<1>3. PICK k \in T : c = 0..k
  BY DEF C
<1>4. ASSUME NEW j \in T, j < k PROVE FALSE
  <2>1. 0..j \in C /\ 0..j \subseteq 0..k /\ k \in 0..k /\ k \notin 0..j
    BY <1>4 DEF C
  <2> QED
    BY <1>2, <1>3, <2>1
<1> QED
  BY <1>4

\* g folds every subset of D, taking out the element picked from it last.
Folds(g, D, pick, base, step) ==
    g = [s \in SUBSET D |-> IF s = {} THEN base ELSE step[<<pick[s], g[s \ {pick[s]}]>>]]

\* There is only one.
LEMMA FoldUnique ==
    ASSUME NEW D, IsFiniteSet(D), NEW pick, \A s \in SUBSET D : s # {} => pick[s] \in s,
           NEW base, NEW step,
           NEW g, Folds(g, D, pick, base, step), NEW h, Folds(h, D, pick, base, step)
    PROVE  g = h
<1> DEFINE C == {s \in SUBSET D : g[s] # h[s]}
<1>1. SUFFICES ASSUME C # {} PROVE FALSE
  BY DEF Folds
<1>2. C \subseteq FiniteSubsetsOf(D)
  BY FS_Subset DEF FiniteSubsetsOf
<1> HIDE DEF C
<1>3. PICK s \in C : \A r \in C : r \subseteq s => r = s
  BY <1>1, <1>2, SmallestSet
<1>4. s \in SUBSET D /\ g[s] # h[s]
  BY <1>3 DEF C
<1>5. s # {}
  BY <1>4 DEF Folds
<1> DEFINE r == s \ {pick[s]}
<1>6. r \in SUBSET D /\ r \subseteq s /\ r # s
  BY <1>4, <1>5
<1>7. g[r] = h[r]
  BY <1>3, <1>6 DEF C
<1>8. g[s] = step[<<pick[s], g[r]>>] /\ h[s] = step[<<pick[s], h[r]>>]
  BY <1>4, <1>5 DEF Folds
<1> QED
  BY <1>4, <1>7, <1>8

\* And there is one: a recursive function on the subsets of a finite set exists.
LEMMA FoldExists ==
    ASSUME NEW D, IsFiniteSet(D), NEW pick, \A s \in SUBSET D : s # {} => pick[s] \in s,
           NEW base, NEW step
    PROVE  \E g : Folds(g, D, pick, base, step)
<1> DEFINE Has(s) == \E g : Folds(g, s, pick, base, step)
           C == {s \in SUBSET D : ~Has(s)}
           G(s) == CHOOSE g : Folds(g, s, pick, base, step)
<1>1. SUFFICES ASSUME C # {} PROVE FALSE
  OBVIOUS
<1>2. C \subseteq FiniteSubsetsOf(D)
  BY FS_Subset DEF FiniteSubsetsOf
<1> HIDE DEF C
<1>3. PICK s \in C : \A r \in C : r \subseteq s => r = s
  BY <1>1, <1>2, SmallestSet
<1>4. s \in SUBSET D /\ ~Has(s)
  BY <1>3 DEF C
<1>5. ASSUME NEW r \in SUBSET s, r # s PROVE Folds(G(r), r, pick, base, step)
  <2>1. Has(r)
    BY <1>3, <1>4, <1>5 DEF C
  <2> QED
    BY <2>1
<1>6. ASSUME NEW r \in SUBSET s, r # s, NEW q \in SUBSET r PROVE G(r)[q] = G(q)[q]
  <2>1. q \in SUBSET s /\ q # s /\ IsFiniteSet(q)
    BY <1>4, <1>6, FS_Subset
  <2>2. Folds(G(r), r, pick, base, step) /\ Folds(G(q), q, pick, base, step)
    BY <1>5, <1>6, <2>1
  <2>3. /\ \A p \in SUBSET r : p # {} => pick[p] \in p
        /\ \A p \in SUBSET q : p # {} => pick[p] \in p
    BY <1>4
  <2> HIDE DEF G
  <2>4. Folds([p \in SUBSET q |-> G(r)[p]], q, pick, base, step)
    BY <1>6, <2>2, <2>3 DEF Folds
  <2>5. [p \in SUBSET q |-> G(r)[p]] = G(q)
    BY <2>1, <2>2, <2>3, <2>4, FoldUnique
  <2>6. [p \in SUBSET q |-> G(r)[p]][q] = G(r)[q]
    OBVIOUS
  <2> QED
    BY <2>5, <2>6
<1> HIDE DEF G
<1> DEFINE last == s \ {pick[s]}
           g == [r \in SUBSET s |-> IF r # s THEN G(r)[r]
                                    ELSE IF s = {} THEN base ELSE step[<<pick[s], G(last)[last]>>]]
<1>7. ASSUME NEW r \in SUBSET s
      PROVE  g[r] = IF r = {} THEN base ELSE step[<<pick[r], g[r \ {pick[r]}]>>]
  <2> DEFINE q == r \ {pick[r]}
  <2>1. CASE r = {}
    <3>1. CASE r = s
      BY <2>1, <3>1
    <3>2. CASE r # s
      BY <1>5, <2>1, <3>2 DEF Folds
    <3> QED
      BY <3>1, <3>2
  <2>2. CASE r # {} /\ r # s
    <3>1. q \in SUBSET r /\ q \in SUBSET s /\ q # s
      BY <1>4, <2>2
    <3>2. Folds(G(r), r, pick, base, step)
      BY <1>5, <2>2
    <3>3. G(r)[r] = step[<<pick[r], G(r)[q]>>]
      BY <2>2, <3>2 DEF Folds
    <3>4. G(r)[q] = G(q)[q]
      BY <1>6, <2>2, <3>1
    <3>5. g[r] = G(r)[r] /\ g[q] = G(q)[q]
      BY <2>2, <3>1
    <3> QED
      BY <2>2, <3>3, <3>4, <3>5
  <2>3. CASE r # {} /\ r = s
    <3>1. last \in SUBSET s /\ last # s
      BY <1>4, <2>3
    <3>2. g[r] = step[<<pick[s], G(last)[last]>>] /\ g[last] = G(last)[last]
      BY <2>3, <3>1
    <3> QED
      BY <2>3, <3>2
  <2> QED
    BY <2>1, <2>2, <2>3
<1>8. g = [r \in SUBSET s |-> g[r]]
  OBVIOUS
<1> HIDE DEF g
<1>9. Folds(g, s, pick, base, step)
  BY <1>7, <1>8 DEF Folds
<1> QED
  BY <1>4, <1>9

\* A bounded set of numbers has a greatest one, which is its Max.
LEMMA GreatestNat ==
    ASSUME NEW n \in Nat, NEW T \in SUBSET (1..n), T # {}
    PROVE  Xex!Max(T) \in T /\ \A j \in T : j <= Xex!Max(T)
<1> DEFINE U == {n - t : t \in T}
<1>1. U \subseteq Nat /\ U # {}
  <2>1. \A t \in T : n - t \in Nat
    OBVIOUS
  <2> QED
    BY <2>1
<1>2. PICK k \in U : \A j \in U : k <= j
  BY <1>1, LeastNat
<1>3. PICK m \in T : k = n - m
  BY <1>2
<1>4. \A j \in T : m >= j
  <2>1. ASSUME NEW j \in T PROVE m >= j
    <3>1. n - j \in U
      OBVIOUS
    <3>2. n - m <= n - j /\ m \in 1..n /\ j \in 1..n
      BY <1>2, <1>3, <3>1
    <3> QED
      BY <3>2
  <2> QED
    BY <2>1
<1>5. m \in T /\ \A j \in T : m >= j
  BY <1>4
<1> HIDE DEF U
<1>6. Xex!Max(T) \in T /\ \A j \in T : Xex!Max(T) >= j
  BY <1>5 DEF Xex!Max
<1> QED
  BY <1>6

\* What holds of no element, and of a set once it does without its greatest
\* element, holds of every set of places.
LEMMA PlacesInduction ==
    ASSUME NEW n \in Nat, NEW V, {} \in V,
           \A s \in SUBSET (1..n) : s # {} /\ s \ {Xex!Max(s)} \in V => s \in V
    PROVE  SUBSET (1..n) \subseteq V
<1> DEFINE C == {s \in SUBSET (1..n) : s \notin V}
<1>1. SUFFICES ASSUME C # {} PROVE FALSE
  OBVIOUS
<1>2. C \subseteq FiniteSubsetsOf(1..n)
  <2>1. IsFiniteSet(1..n)
    <3>1. 1 \in Int /\ n \in Int
      OBVIOUS
    <3> QED
      BY <3>1, FS_Interval
  <2>2. ASSUME NEW s \in C PROVE IsFiniteSet(s) /\ s \in SUBSET (1..n)
    BY <2>1, FS_Subset
  <2> QED
    BY <2>2 DEF FiniteSubsetsOf
<1> HIDE DEF C
<1>3. PICK s \in C : \A r \in C : r \subseteq s => r = s
  BY <1>1, <1>2, SmallestSet
<1>4. s \in SUBSET (1..n) /\ s # {} /\ s \notin V
  BY <1>3 DEF C
<1> DEFINE m == Xex!Max(s)
           r == s \ {m}
<1>5. m \in s
  BY <1>4, GreatestNat
<1>6. r \in V => s \in V
  BY <1>4
<1> HIDE DEF m
<1>7. r \in SUBSET (1..n) /\ r \subseteq s /\ r # s
  BY <1>4, <1>5
<1>8. r \in V
  BY <1>3, <1>7 DEF C
<1> QED
  BY <1>4, <1>6, <1>8

-----------------------------------------------------------------------------
(* What ParseImports does to the copy of the image *)

Images == [Words -> Xex!Word]

\* A record as it was read, with the words it may rewrite inside the image.
Writable(r) ==
    /\ r.address \in Nat
    /\ r.word \in Xex!Word
    /\ Xex!TypeOf(r.word) = 0 => r.address \in Words
    /\ Xex!TypeOf(r.word) # 0 => Xex!Thunk(r.address) \subseteq Words

Touches(r, w) ==
    IF Xex!TypeOf(r.word) = 0 THEN w = r.address ELSE w \in Xex!Thunk(r.address)

\* What the record makes of a word it touches.
Made(r, w) ==
    IF Xex!TypeOf(r.word) = 0 THEN Xex!Swap(r.word)
    ELSE IF w = r.address + ThunkWords - 1 THEN Xex!Blr ELSE Xex!Nop

\* Words of the canonical stub are words; a record turned round is one.
LEMMA WordsStay ==
    /\ Xex!Nop \in Xex!Word /\ Xex!Blr \in Xex!Word
    /\ \A word \in Xex!Word : Xex!Swap(word) \in Xex!Word
BY DEF Xex!Nop, Xex!Blr, Xex!Word, Xex!Byte, Xex!Swap

\* One record rewrites the words it touches and no other.
LEMMA NormalizeMakes ==
    ASSUME NEW bytes \in Images, NEW r, Writable(r)
    PROVE  /\ Xex!Normalize(bytes, r) \in Images
           /\ \A w \in Words : Xex!Normalize(bytes, r)[w] = IF Touches(r, w) THEN Made(r, w) ELSE bytes[w]
<1>1. CASE Xex!TypeOf(r.word) = 0
  <2>1. Xex!Normalize(bytes, r) = [bytes EXCEPT ![r.address] = Xex!Swap(r.word)] /\ r.address \in Words
    BY <1>1 DEF Xex!Normalize, Xex!WriteU32Le, Writable
  <2>2. Xex!Swap(r.word) \in Xex!Word
    BY WordsStay DEF Writable
  <2> QED
    BY <1>1, <2>1, <2>2 DEF Images, Touches, Made
<1>2. CASE Xex!TypeOf(r.word) # 0
  <2>1. Xex!Normalize(bytes, r) = [w \in DOMAIN bytes \cup Xex!Thunk(r.address) |->
            IF w \notin Xex!Thunk(r.address) THEN bytes[w]
            ELSE IF w = r.address + ThunkWords - 1 THEN Xex!Blr ELSE Xex!Nop]
    BY <1>2 DEF Xex!Normalize, Xex!NormalizeFunctionStub
  <2>2. DOMAIN bytes \cup Xex!Thunk(r.address) = Words
    BY <1>2 DEF Images, Writable
  <2> QED
    BY <1>2, <2>1, <2>2, WordsStay DEF Images, Touches, Made
<1> QED
  BY <1>1, <1>2

\* The fold of the loop, as the function its definition chooses.
Steps(bytes, raw) ==
    CHOOSE f : f = [s \in SUBSET DOMAIN raw |->
        IF s = {} THEN bytes ELSE Xex!Normalize(f[s \ {Xex!Max(s)}], raw[Xex!Max(s)])]

LEMMA FoldIsSteps ==
    ASSUME NEW bytes, NEW raw
    PROVE  Xex!FoldLeft(Xex!Normalize, bytes, raw) = Steps(bytes, raw)[DOMAIN raw]
BY DEF Xex!FoldLeft, Xex!MapThenFoldSet, Steps

\* An image for every set of records, got from one for a smaller set.
Rewrites(h, bytes, raw) ==
    /\ \A s \in SUBSET DOMAIN raw : h[s] \in Images
    /\ h[{}] = bytes
    /\ \A s \in SUBSET DOMAIN raw : s # {} => h[s] = Xex!Normalize(h[s \ {Xex!Max(s)}], raw[Xex!Max(s)])

\* Such a function exists.
LEMMA StepsExist ==
    ASSUME NEW bytes \in Images, NEW n \in Nat, NEW raw, DOMAIN raw = 1..n,
           \A i \in 1..n : Writable(raw[i])
    PROVE  Rewrites(Steps(bytes, raw), bytes, raw)
<1> DEFINE D == 1..n
           pick == [s \in SUBSET D |-> Xex!Max(s)]
           step == [p \in D \X Images |-> Xex!Normalize(p[2], raw[p[1]])]
<1>1. \A s \in SUBSET D : s # {} => pick[s] \in s
  BY GreatestNat
<1>2. IsFiniteSet(D)
  BY FS_Interval
<1>3. \A i \in D, b \in Images : step[<<i, b>>] = Xex!Normalize(b, raw[i]) /\ step[<<i, b>>] \in Images
  BY NormalizeMakes
<1> HIDE DEF step
<1>4. PICK g : Folds(g, D, pick, bytes, step)
  BY <1>1, <1>2, FoldExists
<1>5. \A s \in SUBSET D : g[s] = IF s = {} THEN bytes ELSE step[<<Xex!Max(s), g[s \ {Xex!Max(s)}]>>]
  BY <1>4 DEF Folds
<1> HIDE DEF pick
<1>6. \A s \in SUBSET D : g[s] \in Images
  <2> DEFINE V == {s \in SUBSET D : g[s] \in Images}
  <2>1. {} \in V
    BY <1>5
  <2>2. ASSUME NEW s \in SUBSET D, s # {}, s \ {Xex!Max(s)} \in V PROVE s \in V
    <3>1. Xex!Max(s) \in D /\ g[s \ {Xex!Max(s)}] \in Images
      BY <2>2, GreatestNat
    <3> QED
      BY <1>3, <1>5, <2>2, <3>1
  <2> HIDE DEF V
  <2>3. SUBSET D \subseteq V
    BY <2>1, <2>2, PlacesInduction
  <2> QED
    BY <2>3 DEF V
<1>7. ASSUME NEW s \in SUBSET D, s # {}
      PROVE  step[<<Xex!Max(s), g[s \ {Xex!Max(s)}]>>] = Xex!Normalize(g[s \ {Xex!Max(s)}], raw[Xex!Max(s)])
  <2>1. Xex!Max(s) \in D /\ s \ {Xex!Max(s)} \in SUBSET D
    BY <1>7, GreatestNat
  <2> QED
    BY <1>3, <1>6, <2>1
<1>8. g = [s \in SUBSET DOMAIN raw |->
        IF s = {} THEN bytes ELSE Xex!Normalize(g[s \ {Xex!Max(s)}], raw[Xex!Max(s)])]
  BY <1>4, <1>5, <1>7 DEF Folds
<1>9. Steps(bytes, raw) = [s \in SUBSET DOMAIN raw |->
        IF s = {} THEN bytes
        ELSE Xex!Normalize(Steps(bytes, raw)[s \ {Xex!Max(s)}], raw[Xex!Max(s)])]
  BY <1>8 DEF Steps
<1> DEFINE h == Steps(bytes, raw)
<1> HIDE DEF h
<1>10. h[{}] = bytes
  BY <1>9 DEF h
<1>11. \A s \in SUBSET D : s # {} => h[s] = Xex!Normalize(h[s \ {Xex!Max(s)}], raw[Xex!Max(s)])
  BY <1>9 DEF h
<1>12. \A s \in SUBSET D : h[s] \in Images
  <2> DEFINE V == {s \in SUBSET D : h[s] \in Images}
  <2>1. {} \in V
    BY <1>10
  <2>2. ASSUME NEW s \in SUBSET D, s # {}, s \ {Xex!Max(s)} \in V PROVE s \in V
    <3>1. Xex!Max(s) \in D /\ h[s \ {Xex!Max(s)}] \in Images
      BY <2>2, GreatestNat
    <3>2. Writable(raw[Xex!Max(s)])
      BY <3>1
    <3>3. Xex!Normalize(h[s \ {Xex!Max(s)}], raw[Xex!Max(s)]) \in Images
      BY <3>1, <3>2, NormalizeMakes
    <3> QED
      BY <1>11, <2>2, <3>3
  <2> HIDE DEF V
  <2>3. SUBSET D \subseteq V
    BY <2>1, <2>2, PlacesInduction
  <2> QED
    BY <2>3 DEF V
<1> QED
  BY <1>10, <1>11, <1>12 DEF h, Rewrites

\* A library's records together rewrite the words that some of them touch, each
\* with what one of them makes of it.
LEMMA LibraryRewrites ==
    ASSUME NEW bytes \in Images, NEW n \in Nat, NEW raw, DOMAIN raw = 1..n,
           \A i \in 1..n : Writable(raw[i])
    PROVE  LET new == Xex!FoldLeft(Xex!Normalize, bytes, raw) IN
           /\ new \in Images
           /\ \A w \in Words :
                 \/ \E i \in 1..n : Touches(raw[i], w) /\ new[w] = Made(raw[i], w)
                 \/ (\A i \in 1..n : ~Touches(raw[i], w)) /\ new[w] = bytes[w]
<1>1. PICK h : h = Steps(bytes, raw) /\ Rewrites(h, bytes, raw)
  BY StepsExist
<1> DEFINE D == 1..n
           Done(s) == \A w \in Words :
                 \/ \E i \in s : Touches(raw[i], w) /\ h[s][w] = Made(raw[i], w)
                 \/ (\A i \in s : ~Touches(raw[i], w)) /\ h[s][w] = bytes[w]
           V == {s \in SUBSET D : Done(s)}
<1>2. {} \in V
  BY <1>1 DEF Rewrites
<1>3. ASSUME NEW s \in SUBSET D, s # {}, s \ {Xex!Max(s)} \in V PROVE s \in V
  <2> DEFINE m == Xex!Max(s)
             r == s \ {m}
  <2>1. m \in s /\ m \in D
    BY <1>3, GreatestNat
  <2>2. h[s] = Xex!Normalize(h[r], raw[m]) /\ Done(r)
    BY <1>1, <1>3 DEF Rewrites
  <2> HIDE DEF m
  <2>3. h[r] \in Images /\ Writable(raw[m])
    BY <1>1, <2>1 DEF Rewrites
  <2>4. \A w \in Words : h[s][w] = IF Touches(raw[m], w) THEN Made(raw[m], w) ELSE h[r][w]
    BY <2>2, <2>3, NormalizeMakes
  <2>5. ASSUME NEW w \in Words
        PROVE  \/ \E i \in s : Touches(raw[i], w) /\ h[s][w] = Made(raw[i], w)
               \/ (\A i \in s : ~Touches(raw[i], w)) /\ h[s][w] = bytes[w]
    <3>1. CASE Touches(raw[m], w)
      BY <2>1, <2>4, <3>1
    <3>2. CASE ~Touches(raw[m], w)
      <4>1. h[s][w] = h[r][w]
        BY <2>4, <3>2
      <4>2. CASE \E i \in r : Touches(raw[i], w) /\ h[r][w] = Made(raw[i], w)
        BY <4>1, <4>2
      <4>3. CASE (\A i \in r : ~Touches(raw[i], w)) /\ h[r][w] = bytes[w]
        BY <3>2, <4>1, <4>3
      <4> QED
        BY <2>2, <4>2, <4>3
    <3> QED
      BY <3>1, <3>2
  <2> QED
    BY <2>5
<1>4. Done(D) /\ h[D] \in Images
  <2> HIDE DEF V
  <2>1. SUBSET D \subseteq V
    BY <1>2, <1>3, PlacesInduction
  <2>2. D \in V
    BY <2>1
  <2> QED
    BY <1>1, <2>2 DEF V, Rewrites
<1> QED
  BY <1>1, <1>4, FoldIsSteps

-----------------------------------------------------------------------------
(* One library *)

\* The types of a file's parts.
LEMMA FileParts ==
    ASSUME NEW f \in Xex!XexFile
    PROVE  /\ f.image \in Images
           /\ f.size \in Nat /\ f.strings \in Nat /\ f.entry \in Int
           /\ \A k \in DOMAIN f.names : f.names[k].base \in Nat
           /\ Len(f.libraries) \in Nat /\ DOMAIN f.libraries = 1..Len(f.libraries)
           /\ \A k \in DOMAIN f.libraries :
                 /\ f.libraries[k].size \in Nat
                 /\ f.libraries[k].records \in Seq(Nat \cup {Xex!NoWord})
           /\ \A k \in DOMAIN f.sections : f.sections[k].offset \in Nat /\ f.sections[k].size \in Nat
<1> DEFINE Name == [base : Nat, words : Nat]
           Library == [size : Nat, name : Nat, records : Seq(Nat \cup {Xex!NoWord})]
           Section == [offset : Nat, size : Nat, code : BOOLEAN]
<1>1. /\ f.image \in [Xex!ImageRange -> Xex!Word]
      /\ f.size \in Nat /\ f.strings \in Nat /\ f.entry \in Int
      /\ f.names \in Seq(Name)
      /\ f.libraries \in Seq(Library)
      /\ f.sections \in Seq(Section)
  BY DEF Xex!XexFile
<1>2. \A m \in Name : m.base \in Nat
  OBVIOUS
<1>3. \A m \in Library : m.size \in Nat /\ m.records \in Seq(Nat \cup {Xex!NoWord})
  OBVIOUS
<1>4. \A m \in Section : m.offset \in Nat /\ m.size \in Nat
  OBVIOUS
<1>5. f.image \in Images
  BY <1>1 DEF Images, Words, Xex!ImageRange
<1> HIDE DEF Name, Library, Section
<1>6. \A k \in DOMAIN f.names : f.names[k] \in Name
  BY <1>1
<1>7. Len(f.libraries) \in Nat /\ DOMAIN f.libraries = 1..Len(f.libraries)
  BY <1>1
<1>8. \A k \in DOMAIN f.libraries : f.libraries[k] \in Library
  BY <1>1
<1>9. \A k \in DOMAIN f.sections : f.sections[k] \in Section
  BY <1>1
<1> QED
  BY <1>1, <1>2, <1>3, <1>4, <1>5, <1>6, <1>7, <1>8, <1>9

\* The records of the library that ParseImports comes to, when none is refused.
Accepted(n, raw) ==
    /\ n \in Nat /\ DOMAIN raw = 1..n
    /\ library \in DOMAIN file.libraries /\ DOMAIN file.libraries[library].records = 1..n
    /\ \A i \in 1..n :
          /\ raw[i].address = file.libraries[library].records[i]
          /\ raw[i].address \in Words
          /\ raw[i].word = image[raw[i].address]
          /\ raw[i].word \in Xex!Word
          /\ Xex!TypeOf(raw[i].word) \in {0, 1}
    /\ \A i \in 1..n : Xex!TypeOf(raw[i].word) = 1 =>
          /\ i - 1 \in 1..n
          /\ Xex!TypeOf(raw[i - 1].word) = 0
          /\ Xex!OrdinalOf(raw[i - 1].word) = Xex!OrdinalOf(raw[i].word)
          /\ Xex!Thunk(raw[i].address) \subseteq Words

\* A record read from the image is one of its words.
LEMMA Accepts ==
    ASSUME file \in Xex!XexFile, library \in DOMAIN file.libraries, image \in Images,
           Xex!RecordsReadable(file.libraries[library]),
           Xex!Paired(Xex!RawImports(file.libraries[library]))
    PROVE  Accepted(Len(file.libraries[library].records), Xex!RawImports(file.libraries[library]))
<1> DEFINE l == file.libraries[library]
           n == Len(l.records)
           raw == Xex!RawImports(l)
<1>1. l.records \in Seq(Nat \cup {Xex!NoWord})
  BY FileParts
<1>2. n \in Nat /\ DOMAIN l.records = 1..n
  BY <1>1
<1> HIDE DEF l, n
<1>3. DOMAIN raw = 1..n /\ \A i \in 1..n : raw[i] = [address |-> l.records[i], word |-> image[l.records[i]]]
  BY <1>2 DEF Xex!RawImports
<1>4. ImageWords \in Nat /\ ThunkWords \in Nat \ {0}
  BY ImportBindingAssumption
<1>5. ASSUME NEW i \in 1..n
      PROVE  /\ raw[i].address = l.records[i]
             /\ raw[i].address \in Words
             /\ raw[i].word = image[raw[i].address]
             /\ raw[i].word \in Xex!Word
             /\ Xex!TypeOf(raw[i].word) \in {0, 1}
  <2>1. l.records[i] \in Nat \cup {Xex!NoWord}
    BY <1>1, <1>2
  <2>2. Xex!InImage(l.records[i], 1) /\ Xex!TypeOf(image[l.records[i]]) \in {0, 1}
    BY <1>2 DEF l, Xex!RecordsReadable
  <2>3. l.records[i] \in Words
    BY <1>4, <2>1, <2>2 DEF Xex!InImage, Xex!NoWord, Words
  <2>4. image[l.records[i]] \in Xex!Word
    BY <2>3 DEF Images
  <2> QED
    BY <1>3, <2>2, <2>3, <2>4
<1>6. ASSUME NEW i \in 1..n, Xex!TypeOf(raw[i].word) = 1
      PROVE  /\ i - 1 \in 1..n
             /\ Xex!TypeOf(raw[i - 1].word) = 0
             /\ Xex!OrdinalOf(raw[i - 1].word) = Xex!OrdinalOf(raw[i].word)
             /\ Xex!Thunk(raw[i].address) \subseteq Words
  <2> HIDE DEF raw
  <2>1. /\ i > 1
        /\ Xex!TypeOf(raw[i - 1].word) = 0
        /\ Xex!OrdinalOf(raw[i - 1].word) = Xex!OrdinalOf(raw[i].word)
        /\ Xex!InImage(raw[i].address, ThunkWords)
    BY <1>3, <1>6 DEF Xex!Paired, raw, l
  <2>2. raw[i].address \in Words
    BY <1>5
  <2>3. Xex!Thunk(raw[i].address) \subseteq Words
    BY <1>4, <2>1, <2>2 DEF Xex!InImage, Xex!Thunk, Words
  <2> QED
    BY <1>2, <2>1, <2>3
<1> HIDE DEF raw
<1>7. Accepted(n, raw)
  BY <1>2, <1>3, <1>5, <1>6 DEF Accepted, l
<1> QED
  BY <1>7 DEF n, raw, l

\* m is the import whose variable record is raw[i].
ImportOf(m, n, raw, i) ==
    /\ m \in Requirement
    /\ m.record = raw[i].address
    /\ m.ordinal = Xex!OrdinalOf(raw[i].word)
    /\ m.kind = "Function" =>
          i + 1 \in 1..n /\ Xex!TypeOf(raw[i + 1].word) = 1 /\ m.address = raw[i + 1].address
    /\ m.kind = "Variable" => m.address = raw[i].address
    /\ i + 1 \in 1..n /\ Xex!TypeOf(raw[i + 1].word) = 1 => m.kind = "Function"

\* The import that a variable record makes is that record's, or its thunk's.
LEMMA ImportIs ==
    ASSUME NEW n, NEW raw, Accepted(n, raw), NEW l, l.name \in DOMAIN file.names, file \in Xex!XexFile,
           NEW i \in 1..n, Xex!TypeOf(raw[i].word) = 0, Len(raw) = n
    PROVE  ImportOf(Xex!Import(l, raw, i), n, raw, i)
<1>1. Len(raw) = n /\ n \in Nat
  BY DEF Accepted
<1>2. file.names[l.name].base \in Nat
  BY FileParts
<1>3. Words \subseteq Nat
  BY DEF Words
<1>4. Xex!OrdinalOf(raw[i].word) \in Nat
  <2>1. raw[i].word \in Xex!Word
    BY DEF Accepted
  <2> DEFINE word == raw[i].word
  <2>2. word[3] \in Xex!Byte /\ word[4] \in Xex!Byte
    BY <2>1 DEF Xex!Word
  <2> HIDE DEF word
  <2>3. \A a, b \in Xex!Byte : 256 * a + b \in Nat
    BY DEF Xex!Byte
  <2>4. 256 * word[3] + word[4] \in Nat
    BY <2>2, <2>3
  <2> QED
    BY <2>4 DEF word, Xex!OrdinalOf
<1>5. raw[i].address \in Nat /\ (i + 1 \in 1..n => raw[i + 1].address \in Nat)
  BY <1>3 DEF Accepted
<1> DEFINE isFunction == i < n /\ Xex!TypeOf(raw[i + 1].word) = 1
           m == [library |-> file.names[l.name].base,
                 ordinal |-> Xex!OrdinalOf(raw[i].word),
                 kind    |-> IF isFunction THEN "Function" ELSE "Variable",
                 address |-> IF isFunction THEN raw[i + 1].address ELSE raw[i].address,
                 record  |-> raw[i].address]
<1>6. Xex!Import(l, raw, i) = m
  BY <1>1 DEF Xex!Import
<1>7. isFunction => i + 1 \in 1..n
  BY <1>1
<1>8. m \in Requirement
  BY <1>2, <1>4, <1>5, <1>7 DEF Requirement, Kinds
<1>9. i + 1 \in 1..n => i < n
  BY <1>1
<1> QED
  BY <1>6, <1>7, <1>8, <1>9 DEF ImportOf

-----------------------------------------------------------------------------
(* What holds of an inspection at every point *)

\* The image is read, or made from one that was.
Reading == inspect \in {"importing", "imported", "done", "stated"}

\* w is listed by a library that has been read.
Listed(w) ==
    \E k \in DOMAIN file.libraries :
        k < library /\ \E i \in DOMAIN file.libraries[k].records : file.libraries[k].records[i] = w

RecordAt(w) == \E k \in DOMAIN imports : imports[k].record = w
ThunkAt(a) == \E k \in DOMAIN imports : imports[k].kind = "Function" /\ imports[k].address = a
InThunk(w) == \E a \in Words : ThunkAt(a) /\ w \in Xex!Thunk(a)
EndsThunk(w) == \E a \in Words : ThunkAt(a) /\ w = a + ThunkWords - 1

Stages ==
    /\ file \in Files
    /\ inspect \in {"none", "valid", "loaded", "importing"} => library = 1 /\ imports = <<>>
    /\ Reading => image \in Images
    /\ inspect = "importing" => image = file.image
    /\ layout.helpers # {} => inspect \in {"done", "stated"}

\* An import is made of a record that its place in the file lists.
ImportsListed ==
    /\ IsFiniteSet(DOMAIN imports)
    /\ \A k \in DOMAIN imports :
          /\ imports[k] \in Requirement
          /\ imports[k].record \in Words /\ imports[k].address \in Words
          /\ imports[k].kind = "Function" => Xex!Thunk(imports[k].address) \subseteq Words
          /\ \E l \in DOMAIN file.libraries : \E i \in DOMAIN file.libraries[l].records :
                l < library /\ k = <<l, i>>

\* Only listed records and stubs are rewritten ...
OthersKept ==
    Reading => \A w \in Words : image[w] \in {file.image[w], Xex!Nop, Xex!Blr} \/ Listed(w)

\* ... those of the imports reported.
ImportsKept ==
    Reading => \A w \in Words : image[w] = file.image[w] \/ RecordAt(w) \/ InThunk(w)

\* Of a stub only what is no record matters.
StubsMade ==
    Reading => \A w \in Words : InThunk(w) /\ ~RecordAt(w) => image[w] \in {Xex!Nop, Xex!Blr}

\* An import is reported as the loader's image has it.
AsLoaded(m) ==
    /\ Xex!TypeOf(file.image[m.record]) = 0
    /\ Xex!OrdinalOf(file.image[m.record]) = m.ordinal
    /\ m.kind = "Function" =>
          /\ Xex!TypeOf(file.image[m.address]) = 1
          /\ Xex!OrdinalOf(file.image[m.address]) = m.ordinal

ImportsMatch == Reading /\ Xex!RecordsDistinct => \A k \in DOMAIN imports : AsLoaded(imports[k])

Apart ==
    /\ \A a \in Words : ThunkAt(a) => \A w \in Xex!Thunk(a) : ~RecordAt(w)
    /\ \A a, b \in Words : ThunkAt(a) /\ ThunkAt(b) /\ a # b => Xex!Thunk(a) \cap Xex!Thunk(b) = {}

RewrittenOnce ==
    Reading /\ Xex!RecordsDistinct /\ Apart =>
        \A w \in Words : image[w] =
            IF RecordAt(w) THEN Xex!Swap(file.image[w])
            ELSE IF EndsThunk(w) THEN Xex!Blr
            ELSE IF InThunk(w) THEN Xex!Nop
            ELSE file.image[w]

XexInv ==
    /\ Xex!XexTypeOK
    /\ Stages
    /\ ImportsListed
    /\ OthersKept
    /\ ImportsKept
    /\ StubsMade
    /\ ImportsMatch
    /\ RewrittenOnce
    /\ HelpersOutsideStubs

\* What a turn of ParseImports' loop makes of the records raw of its library.
Parsed(n, raw) ==
    /\ inspect = "imported" /\ inspect' = "imported"
    /\ library' = library + 1 /\ file' = file /\ loaded' = loaded /\ layout' = layout
    /\ image' \in Images
    /\ \A w \in Words :
          \/ \E i \in 1..n : Touches(raw[i], w) /\ image'[w] = Made(raw[i], w)
          \/ (\A i \in 1..n : ~Touches(raw[i], w)) /\ image'[w] = image[w]
    /\ DOMAIN imports' = DOMAIN imports \cup {<<library, i>> : i \in {j \in 1..n : Xex!TypeOf(raw[j].word) = 0}}
    /\ \A k \in DOMAIN imports : imports'[k] = imports[k]
    /\ \A i \in 1..n : Xex!TypeOf(raw[i].word) = 0 => ImportOf(imports'[<<library, i>>], n, raw, i)

LEMMA LibraryStep ==
    ASSUME XexInv, Xex!ParseLibrary, inspect' # "refused"
    PROVE  \E n, raw : Accepted(n, raw) /\ Parsed(n, raw)
<1> DEFINE l == file.libraries[library]
           n == Len(l.records)
           raw == Xex!RawImports(l)
<1>1. /\ inspect = "imported" /\ library \in DOMAIN file.libraries
      /\ Xex!LibraryInBounds(l) /\ Xex!RecordsReadable(l) /\ Xex!Paired(raw)
      /\ image' = Xex!FoldLeft(Xex!Normalize, image, raw)
      /\ imports' = Xex!ParsedImports(l, raw)
      /\ library' = library + 1
      /\ inspect' = inspect /\ file' = file /\ loaded' = loaded /\ layout' = layout
  BY DEF Xex!ParseLibrary, Xex!RefuseLoaded
<1>2. file \in Xex!XexFile /\ image \in Images
  BY <1>1, InspectedAssumption DEF XexInv, Stages, Reading
<1>3. Accepted(n, raw)
  BY <1>1, <1>2, Accepts
<1>4. l.name \in DOMAIN file.names
  BY <1>1 DEF Xex!LibraryInBounds
<1> HIDE DEF l, n
<1>5. DOMAIN raw = 1..n /\ Len(raw) = n
  <2>1. n \in Nat /\ DOMAIN raw = 1..n
    BY <1>3 DEF Accepted
  <2>2. raw = [i \in 1..n |-> [address |-> l.records[i], word |-> image[l.records[i]]]]
    BY <2>1 DEF Xex!RawImports
  <2> HIDE DEF raw
  <2>3. Len(raw) = n
    BY <2>1, <2>2
  <2> QED
    BY <2>1, <2>3
<1> HIDE DEF raw
<1>6. \A i \in 1..n : Writable(raw[i])
  <2>1. ASSUME NEW i \in 1..n PROVE Writable(raw[i])
    <3>1. raw[i].address \in Words /\ raw[i].word \in Xex!Word /\ Xex!TypeOf(raw[i].word) \in {0, 1}
      BY <1>3 DEF Accepted
    <3>2. Xex!TypeOf(raw[i].word) = 1 => Xex!Thunk(raw[i].address) \subseteq Words
      BY <1>3 DEF Accepted
    <3>3. raw[i].address \in Nat
      BY <3>1 DEF Words
    <3> QED
      BY <3>1, <3>2, <3>3 DEF Writable
  <2> QED
    BY <2>1
<1>7. n \in Nat
  BY <1>3 DEF Accepted
<1>8. /\ image' \in Images
      /\ \A w \in Words :
            \/ \E i \in 1..n : Touches(raw[i], w) /\ image'[w] = Made(raw[i], w)
            \/ (\A i \in 1..n : ~Touches(raw[i], w)) /\ image'[w] = image[w]
  BY <1>1, <1>2, <1>5, <1>6, <1>7, LibraryRewrites
<1> DEFINE places == {<<library, i>> : i \in {j \in DOMAIN raw : Xex!TypeOf(raw[j].word) = 0}}
<1>9. imports' = [place \in DOMAIN imports \cup places |->
            IF place \in places THEN Xex!Import(l, raw, place[2]) ELSE imports[place]]
  BY <1>1 DEF Xex!ParsedImports
<1>10. places = {<<library, i>> : i \in {j \in 1..n : Xex!TypeOf(raw[j].word) = 0}}
  BY <1>5
<1>11. \A k \in DOMAIN imports : k \notin places
  <2>1. ASSUME NEW k \in DOMAIN imports PROVE k[1] # library
    <3>1. PICK m \in DOMAIN file.libraries :
            \E i \in DOMAIN file.libraries[m].records : m < library /\ k = <<m, i>>
      BY DEF XexInv, ImportsListed
    <3>2. m \in Int /\ library \in Int
      BY <1>1, <1>2, FileParts
    <3> QED
      BY <3>1, <3>2
  <2> QED
    BY <2>1
<1>12. ASSUME NEW i \in 1..n, Xex!TypeOf(raw[i].word) = 0
       PROVE  ImportOf(imports'[<<library, i>>], n, raw, i)
  <2>1. <<library, i>> \in places
    BY <1>10, <1>12
  <2>2. imports'[<<library, i>>] = Xex!Import(l, raw, i)
    BY <1>9, <2>1
  <2>3. ImportOf(Xex!Import(l, raw, i), n, raw, i)
    BY <1>2, <1>3, <1>4, <1>5, <1>12, ImportIs
  <2> QED
    BY <2>2, <2>3
<1>13. Parsed(n, raw)
  BY <1>1, <1>8, <1>9, <1>10, <1>11, <1>12 DEF Parsed
<1> QED
  BY <1>3, <1>13

\* No word of a stub passes for a record.
LEMMA StubsAreNoRecords ==
    Xex!TypeOf(Xex!Nop) \notin {0, 1} /\ Xex!TypeOf(Xex!Blr) \notin {0, 1}
BY DEF Xex!TypeOf, Xex!Nop, Xex!Blr

\* A library adds the records and thunks it lists to those reported.
LEMMA ImportsGrow ==
    ASSUME XexInv, NEW n, NEW raw, Accepted(n, raw), Parsed(n, raw)
    PROVE  /\ \A w : RecordAt(w)' <=> RecordAt(w) \/ \E i \in 1..n : Xex!TypeOf(raw[i].word) = 0 /\ raw[i].address = w
           /\ \A a : ThunkAt(a)' <=> ThunkAt(a) \/ \E i \in 1..n : Xex!TypeOf(raw[i].word) = 1 /\ raw[i].address = a
           /\ \A w : Listed(w) \/ (\E i \in 1..n : raw[i].address = w) => Listed(w)'
<1>1. ASSUME NEW k \in DOMAIN imports'
      PROVE  \/ k \in DOMAIN imports /\ imports'[k] = imports[k]
             \/ \E i \in 1..n : k = <<library, i>> /\ Xex!TypeOf(raw[i].word) = 0 /\ ImportOf(imports'[k], n, raw, i)
  BY DEF Parsed
<1>2. ASSUME NEW k \in DOMAIN imports PROVE k \in DOMAIN imports' /\ imports'[k] = imports[k]
  BY DEF Parsed
<1>3. ASSUME NEW i \in 1..n, Xex!TypeOf(raw[i].word) = 0
      PROVE  <<library, i>> \in DOMAIN imports' /\ ImportOf(imports'[<<library, i>>], n, raw, i)
  BY <1>3 DEF Parsed
<1>4. ASSUME NEW w
      PROVE  RecordAt(w)' <=> RecordAt(w) \/ \E i \in 1..n : Xex!TypeOf(raw[i].word) = 0 /\ raw[i].address = w
  <2>1. ASSUME NEW k \in DOMAIN imports', imports'[k].record = w
        PROVE  RecordAt(w) \/ \E i \in 1..n : Xex!TypeOf(raw[i].word) = 0 /\ raw[i].address = w
    BY <1>1, <2>1 DEF RecordAt, ImportOf
  <2>2. RecordAt(w) => RecordAt(w)'
    BY <1>2 DEF RecordAt
  <2>3. ASSUME NEW i \in 1..n, Xex!TypeOf(raw[i].word) = 0, raw[i].address = w PROVE RecordAt(w)'
    BY <1>3, <2>3 DEF RecordAt, ImportOf
  <2> QED
    BY <2>1, <2>2, <2>3 DEF RecordAt
<1>5. ASSUME NEW a
      PROVE  ThunkAt(a)' <=> ThunkAt(a) \/ \E i \in 1..n : Xex!TypeOf(raw[i].word) = 1 /\ raw[i].address = a
  <2>1. ASSUME NEW k \in DOMAIN imports', imports'[k].kind = "Function", imports'[k].address = a
        PROVE  ThunkAt(a) \/ \E i \in 1..n : Xex!TypeOf(raw[i].word) = 1 /\ raw[i].address = a
    BY <1>1, <2>1 DEF ThunkAt, ImportOf
  <2>2. ThunkAt(a) => ThunkAt(a)'
    BY <1>2 DEF ThunkAt
  <2>3. ASSUME NEW i \in 1..n, Xex!TypeOf(raw[i].word) = 1, raw[i].address = a PROVE ThunkAt(a)'
    <3>1. n \in Nat /\ i - 1 \in 1..n /\ Xex!TypeOf(raw[i - 1].word) = 0
      BY <2>3 DEF Accepted
    <3>2. PICK j \in 1..n : j = i - 1
      BY <3>1
    <3>3. j + 1 = i
      BY <3>1, <3>2
    <3>4. <<library, j>> \in DOMAIN imports' /\ ImportOf(imports'[<<library, j>>], n, raw, j)
      BY <1>3, <3>1, <3>2
    <3>5. imports'[<<library, j>>].kind = "Function" /\ imports'[<<library, j>>].address = raw[i].address
      BY <2>3, <3>3, <3>4 DEF ImportOf
    <3> QED
      BY <2>3, <3>4, <3>5 DEF ThunkAt
  <2> QED
    BY <2>1, <2>2, <2>3 DEF ThunkAt
<1>6. ASSUME NEW w, Listed(w) \/ (\E i \in 1..n : raw[i].address = w) PROVE Listed(w)'
  <2>1. library' = library + 1 /\ file' = file /\ library \in Int
    <3>1. file \in Xex!XexFile
      BY InspectedAssumption DEF XexInv, Stages
    <3> QED
      BY <3>1, FileParts DEF Parsed, XexInv, Xex!XexTypeOK
  <2>2. file \in Xex!XexFile
    BY InspectedAssumption DEF XexInv, Stages
  <2>3. CASE Listed(w)
    <3>1. \A k \in DOMAIN file.libraries : k < library => k < library + 1
      BY <2>1, <2>2, FileParts
    <3> QED
      BY <2>1, <2>3, <3>1 DEF Listed
  <2>4. CASE \E i \in 1..n : raw[i].address = w
    <3>1. library < library + 1
      BY <2>1
    <3>2. \A i \in 1..n : i \in DOMAIN file.libraries[library].records /\ raw[i].address = file.libraries[library].records[i]
      BY DEF Accepted
    <3>3. library \in DOMAIN file.libraries
      BY DEF Accepted
    <3> QED
      BY <2>1, <2>4, <3>1, <3>2, <3>3 DEF Listed
  <2> QED
    BY <1>6, <2>3, <2>4
<1> QED
  BY <1>4, <1>5, <1>6

\* The records of a library are still as the loader left them, if none is listed twice.
LEMMA ReadAsLoaded ==
    ASSUME XexInv, Xex!RecordsDistinct, inspect = "imported",
           NEW n, NEW raw, Accepted(n, raw), NEW i \in 1..n
    PROVE  raw[i].word = file.image[raw[i].address]
<1>1. /\ raw[i].address \in Words /\ raw[i].word = image[raw[i].address]
      /\ Xex!TypeOf(raw[i].word) \in {0, 1}
  BY DEF Accepted
<1>2. image[raw[i].address] \in {file.image[raw[i].address], Xex!Nop, Xex!Blr} \/ Listed(raw[i].address)
  BY <1>1 DEF XexInv, OthersKept, Reading
<1>3. ~Listed(raw[i].address)
  <2>1. ASSUME NEW k \in DOMAIN file.libraries, NEW j \in DOMAIN file.libraries[k].records,
               file.libraries[k].records[j] = raw[i].address
        PROVE  k = library
    <3>1. library \in DOMAIN file.libraries /\ i \in DOMAIN file.libraries[library].records
      BY DEF Accepted
    <3>2. file.libraries[library].records[i] = raw[i].address
      BY DEF Accepted
    <3> QED
      BY <2>1, <3>1, <3>2 DEF Xex!RecordsDistinct
  <2>2. library \in Int
    BY InspectedAssumption, FileParts DEF XexInv, Xex!XexTypeOK, Stages
  <2> QED
    BY <2>1, <2>2 DEF Listed
<1> QED
  BY <1>1, <1>2, <1>3, StubsAreNoRecords

\* The words a record touches are its own or its thunk's.
LEMMA TouchedWords ==
    ASSUME XexInv, NEW n, NEW raw, Accepted(n, raw), Parsed(n, raw), NEW i \in 1..n, NEW w, Touches(raw[i], w)
    PROVE  \/ /\ Listed(w)' /\ RecordAt(w)' /\ Xex!TypeOf(raw[i].word) = 0 /\ raw[i].address = w
              /\ Made(raw[i], w) = Xex!Swap(raw[i].word)
           \/ /\ Xex!TypeOf(raw[i].word) = 1 /\ raw[i].address \in Words /\ ThunkAt(raw[i].address)'
              /\ w \in Xex!Thunk(raw[i].address)
              /\ Made(raw[i], w) = IF w = raw[i].address + ThunkWords - 1 THEN Xex!Blr ELSE Xex!Nop
<1>1. Xex!TypeOf(raw[i].word) \in {0, 1} /\ raw[i].address \in Words
  BY DEF Accepted
<1>2. CASE Xex!TypeOf(raw[i].word) = 0
  BY <1>2, ImportsGrow DEF Touches, Made
<1>3. CASE Xex!TypeOf(raw[i].word) = 1
  BY <1>1, <1>3, ImportsGrow DEF Touches, Made
<1> QED
  BY <1>1, <1>2, <1>3

\* Nothing new is claimed of a word that no record touches.
LEMMA UntouchedWords ==
    ASSUME XexInv, NEW n, NEW raw, Accepted(n, raw), Parsed(n, raw),
           NEW w, \A i \in 1..n : ~Touches(raw[i], w)
    PROVE  /\ RecordAt(w)' <=> RecordAt(w)
           /\ InThunk(w)' <=> InThunk(w)
<1>1. RecordAt(w)' <=> RecordAt(w)
  <2>1. \A i \in 1..n : Xex!TypeOf(raw[i].word) = 0 => raw[i].address # w
    BY DEF Touches
  <2> QED
    BY <2>1, ImportsGrow
<1>2. ASSUME NEW a \in Words, w \in Xex!Thunk(a) PROVE ThunkAt(a)' <=> ThunkAt(a)
  <2>1. \A i \in 1..n : Xex!TypeOf(raw[i].word) = 1 => raw[i].address # a
    BY <1>2 DEF Touches
  <2> QED
    BY <2>1, ImportsGrow
<1>3. InThunk(w)' <=> \E a \in Words : ThunkAt(a)' /\ w \in Xex!Thunk(a)
  BY DEF InThunk
<1> QED
  BY <1>1, <1>2, <1>3 DEF InThunk

LEMMA ParseKeeps ==
    ASSUME XexInv, NEW n, NEW raw, Accepted(n, raw), Parsed(n, raw)
    PROVE  OthersKept' /\ ImportsKept' /\ StubsMade'
<1>1. Reading /\ file' = file
  BY DEF Parsed, Reading
<1>2. ASSUME NEW w \in Words
      PROVE  /\ image'[w] \in {file.image[w], Xex!Nop, Xex!Blr} \/ Listed(w)'
             /\ image'[w] = file.image[w] \/ RecordAt(w)' \/ InThunk(w)'
             /\ InThunk(w)' /\ ~RecordAt(w)' => image'[w] \in {Xex!Nop, Xex!Blr}
  <2>1. CASE \E i \in 1..n : Touches(raw[i], w) /\ image'[w] = Made(raw[i], w)
    <3>1. PICK i \in 1..n : Touches(raw[i], w) /\ image'[w] = Made(raw[i], w)
      BY <2>1
    <3>2. CASE Listed(w)' /\ RecordAt(w)'
      BY <3>2
    <3>3. CASE /\ raw[i].address \in Words /\ ThunkAt(raw[i].address)' /\ w \in Xex!Thunk(raw[i].address)
               /\ Made(raw[i], w) = IF w = raw[i].address + ThunkWords - 1 THEN Xex!Blr ELSE Xex!Nop
      <4>1. InThunk(w)'
        BY <3>3 DEF InThunk
      <4>2. image'[w] \in {Xex!Nop, Xex!Blr}
        BY <3>1, <3>3
      <4> QED
        BY <4>1, <4>2
    <3> QED
      BY <3>1, <3>2, <3>3, TouchedWords
  <2>2. CASE (\A i \in 1..n : ~Touches(raw[i], w)) /\ image'[w] = image[w]
    <3>1. /\ image[w] \in {file.image[w], Xex!Nop, Xex!Blr} \/ Listed(w)
          /\ image[w] = file.image[w] \/ RecordAt(w) \/ InThunk(w)
          /\ InThunk(w) /\ ~RecordAt(w) => image[w] \in {Xex!Nop, Xex!Blr}
      BY <1>1 DEF XexInv, OthersKept, ImportsKept, StubsMade
    <3>2. /\ RecordAt(w)' <=> RecordAt(w)
          /\ InThunk(w)' <=> InThunk(w)
      BY <2>2, UntouchedWords
    <3>3. Listed(w) => Listed(w)'
      BY ImportsGrow
    <3> QED
      BY <2>2, <3>1, <3>2, <3>3
  <2> QED
    BY <2>1, <2>2 DEF Parsed
<1>3. OthersKept'
  BY <1>1, <1>2 DEF OthersKept
<1>4. ImportsKept'
  BY <1>1, <1>2 DEF ImportsKept
<1>5. StubsMade'
  BY <1>2 DEF StubsMade
<1> QED
  BY <1>3, <1>4, <1>5

LEMMA ParseMatches ==
    ASSUME XexInv, NEW n, NEW raw, Accepted(n, raw), Parsed(n, raw)
    PROVE  ImportsMatch'
<1>1. file' = file /\ inspect = "imported"
  BY DEF Parsed
<1>2. SUFFICES ASSUME Xex!RecordsDistinct, NEW k \in DOMAIN imports' PROVE AsLoaded(imports'[k])
  BY <1>1 DEF ImportsMatch, Xex!RecordsDistinct, AsLoaded
<1>3. CASE k \in DOMAIN imports
  BY <1>1, <1>2, <1>3 DEF XexInv, ImportsMatch, Reading, Parsed
<1>4. CASE k \notin DOMAIN imports
  <2>1. PICK i \in 1..n : Xex!TypeOf(raw[i].word) = 0 /\ ImportOf(imports'[k], n, raw, i)
    BY <1>4 DEF Parsed
  <2> DEFINE m == imports'[k]
  <2>2. raw[i].word = file.image[raw[i].address]
    BY <1>1, <1>2, ReadAsLoaded
  <2>3. Xex!TypeOf(file.image[m.record]) = 0 /\ Xex!OrdinalOf(file.image[m.record]) = m.ordinal
    BY <2>1, <2>2 DEF ImportOf
  <2>4. ASSUME m.kind = "Function"
        PROVE  Xex!TypeOf(file.image[m.address]) = 1 /\ Xex!OrdinalOf(file.image[m.address]) = m.ordinal
    <3>1. i + 1 \in 1..n /\ Xex!TypeOf(raw[i + 1].word) = 1 /\ m.address = raw[i + 1].address
      BY <2>1, <2>4 DEF ImportOf
    <3>2. raw[i + 1].word = file.image[m.address]
      BY <1>1, <1>2, <3>1, ReadAsLoaded
    <3>3. Xex!OrdinalOf(raw[i].word) = Xex!OrdinalOf(raw[i + 1].word)
      <4>1. (i + 1) - 1 = i
        BY DEF Accepted
      <4> QED
        BY <3>1, <4>1 DEF Accepted
    <3> QED
      BY <2>1, <3>1, <3>2, <3>3 DEF ImportOf
  <2> QED
    BY <2>3, <2>4 DEF AsLoaded
<1> QED
  BY <1>3, <1>4

\* Under the conditions of RewrittenOnce a word belongs to one record or one thunk.
LEMMA ParseRewritesOnce ==
    ASSUME XexInv, NEW n, NEW raw, Accepted(n, raw), Parsed(n, raw)
    PROVE  RewrittenOnce'
<1>1. file' = file /\ inspect = "imported"
  BY DEF Parsed
<1> DEFINE Form(w) == IF RecordAt(w)' THEN Xex!Swap(file.image[w])
                      ELSE IF EndsThunk(w)' THEN Xex!Blr
                      ELSE IF InThunk(w)' THEN Xex!Nop
                      ELSE file.image[w]
<1>2. SUFFICES ASSUME Xex!RecordsDistinct, Apart', NEW w \in Words PROVE image'[w] = Form(w)
  BY <1>1 DEF RewrittenOnce, Xex!RecordsDistinct
<1> HIDE DEF Form
<1>3. ThunkWords \in Nat \ {0} /\ Words \subseteq Int
  BY ImportBindingAssumption DEF Words
<1>4. Apart
  <2>1. \A a : ThunkAt(a) => ThunkAt(a)'
    BY ImportsGrow
  <2>2. \A v : RecordAt(v) => RecordAt(v)'
    BY ImportsGrow
  <2>3. ASSUME NEW a \in Words, ThunkAt(a), NEW v \in Xex!Thunk(a) PROVE ~RecordAt(v)
    BY <1>2, <2>1, <2>2, <2>3 DEF Apart
  <2>4. ASSUME NEW a \in Words, NEW b \in Words, ThunkAt(a), ThunkAt(b), a # b
        PROVE  Xex!Thunk(a) \cap Xex!Thunk(b) = {}
    BY <1>2, <2>1, <2>4 DEF Apart
  <2> QED
    BY <2>3, <2>4 DEF Apart
<1>5. \A a \in Words : a + ThunkWords - 1 \in Xex!Thunk(a)
  BY <1>3 DEF Xex!Thunk
<1>6. CASE \E i \in 1..n : Touches(raw[i], w) /\ image'[w] = Made(raw[i], w)
  <2>1. PICK i \in 1..n : Touches(raw[i], w) /\ image'[w] = Made(raw[i], w)
    BY <1>6
  <2>2. CASE /\ RecordAt(w)' /\ Xex!TypeOf(raw[i].word) = 0 /\ raw[i].address = w
             /\ Made(raw[i], w) = Xex!Swap(raw[i].word)
    <3>1. raw[i].word = file.image[w]
      BY <1>1, <1>2, <2>2, ReadAsLoaded
    <3> QED
      BY <2>1, <2>2, <3>1 DEF Form
  <2>3. CASE /\ raw[i].address \in Words /\ ThunkAt(raw[i].address)' /\ w \in Xex!Thunk(raw[i].address)
             /\ Made(raw[i], w) = IF w = raw[i].address + ThunkWords - 1 THEN Xex!Blr ELSE Xex!Nop
    <3> DEFINE a == raw[i].address
    <3>1. ~RecordAt(w)'
      BY <1>2, <2>3 DEF Apart
    <3>2. InThunk(w)'
      BY <2>3 DEF InThunk
    <3>3. EndsThunk(w)' <=> w = a + ThunkWords - 1
      <4>1. ASSUME EndsThunk(w)' PROVE w = a + ThunkWords - 1
        <5>1. PICK b \in Words : ThunkAt(b)' /\ w = b + ThunkWords - 1
          BY <4>1 DEF EndsThunk
        <5>2. w \in Xex!Thunk(b)
          BY <1>5, <5>1
        <5>3. b = a
          BY <1>2, <2>3, <5>1, <5>2 DEF Apart
        <5> QED
          BY <5>1, <5>3
      <4> QED
        BY <2>3, <4>1 DEF EndsThunk
    <3> QED
      BY <2>1, <2>3, <3>1, <3>2, <3>3 DEF Form
  <2> QED
    BY <2>1, <2>2, <2>3, TouchedWords
<1>7. CASE (\A i \in 1..n : ~Touches(raw[i], w)) /\ image'[w] = image[w]
  <2>1. /\ RecordAt(w)' <=> RecordAt(w)
        /\ InThunk(w)' <=> InThunk(w)
    BY <1>7, UntouchedWords
  <2>2. EndsThunk(w)' <=> EndsThunk(w)
    <3>1. ASSUME NEW a \in Words, w = a + ThunkWords - 1 PROVE ThunkAt(a)' <=> ThunkAt(a)
      <4>1. w \in Xex!Thunk(a)
        BY <1>5, <3>1
      <4>2. \A i \in 1..n : Xex!TypeOf(raw[i].word) = 1 => raw[i].address # a
        BY <1>7, <4>1 DEF Touches
      <4> QED
        BY <4>2, ImportsGrow
    <3>2. EndsThunk(w)' <=> \E a \in Words : ThunkAt(a)' /\ w = a + ThunkWords - 1
      BY DEF EndsThunk
    <3> QED
      BY <3>1, <3>2 DEF EndsThunk
  <2>3. image[w] = IF RecordAt(w) THEN Xex!Swap(file.image[w])
                   ELSE IF EndsThunk(w) THEN Xex!Blr
                   ELSE IF InThunk(w) THEN Xex!Nop
                   ELSE file.image[w]
    BY <1>1, <1>2, <1>4 DEF XexInv, RewrittenOnce, Reading
  <2> QED
    BY <1>7, <2>1, <2>2, <2>3 DEF Form
<1> QED
  BY <1>6, <1>7 DEF Parsed

\* Places stay places of the file, finitely many.
LEMMA ParseLists ==
    ASSUME XexInv, NEW n, NEW raw, Accepted(n, raw), Parsed(n, raw)
    PROVE  ImportsListed'
<1>1. file' = file /\ library' = library + 1 /\ library \in DOMAIN file.libraries /\ n \in Nat
      /\ DOMAIN file.libraries[library].records = 1..n
  BY DEF Parsed, Accepted
<1>2. DOMAIN file.libraries \subseteq Int
  BY InspectedAssumption, FileParts DEF XexInv, Stages
<1>3. IsFiniteSet(DOMAIN imports')
  <2> DEFINE T == {j \in 1..n : Xex!TypeOf(raw[j].word) = 0}
             S == {<<library, i>> : i \in T}
  <2>1. IsFiniteSet(1..n)
    <3>1. 1 \in Int /\ n \in Int
      BY <1>1
    <3> QED
      BY <3>1, FS_Interval
  <2>2. IsFiniteSet(T)
    BY <2>1, FS_Subset
  <2> HIDE DEF T
  <2>3. IsFiniteSet(S)
    <3> DEFINE f == [i \in T |-> <<library, i>>]
    <3>1. f \in Surjection(T, S)
      BY DEF Surjection
    <3> QED
      BY <2>2, <3>1, FS_Surjection
  <2>4. IsFiniteSet(DOMAIN imports)
    BY DEF XexInv, ImportsListed
  <2>5. DOMAIN imports' = DOMAIN imports \cup S
    BY DEF Parsed, T
  <2> HIDE DEF S
  <2> QED
    BY <2>3, <2>4, <2>5, FS_Union
<1>4. ASSUME NEW k \in DOMAIN imports'
      PROVE  /\ imports'[k] \in Requirement
             /\ imports'[k].record \in Words /\ imports'[k].address \in Words
             /\ imports'[k].kind = "Function" => Xex!Thunk(imports'[k].address) \subseteq Words
             /\ \E l \in DOMAIN file.libraries : \E i \in DOMAIN file.libraries[l].records :
                   l < library + 1 /\ k = <<l, i>>
  <2>1. CASE k \in DOMAIN imports
    <3>1. imports'[k] = imports[k]
      BY <2>1 DEF Parsed
    <3>2. PICK l \in DOMAIN file.libraries :
              \E i \in DOMAIN file.libraries[l].records : l < library /\ k = <<l, i>>
      BY <2>1 DEF XexInv, ImportsListed
    <3>3. l < library + 1
      BY <1>1, <1>2, <3>2
    <3>4. /\ imports[k] \in Requirement
          /\ imports[k].record \in Words /\ imports[k].address \in Words
          /\ imports[k].kind = "Function" => Xex!Thunk(imports[k].address) \subseteq Words
      BY <2>1 DEF XexInv, ImportsListed
    <3> QED
      BY <3>1, <3>2, <3>3, <3>4
  <2>2. CASE k \notin DOMAIN imports
    <3>1. PICK i \in 1..n :
              Xex!TypeOf(raw[i].word) = 0 /\ k = <<library, i>> /\ ImportOf(imports'[k], n, raw, i)
      BY <2>2 DEF Parsed
    <3> DEFINE m == imports'[k]
    <3>2. library < library + 1
      BY <1>1, <1>2
    <3>3. m \in Requirement /\ m.kind \in {"Function", "Variable"} /\ m.record = raw[i].address
      BY <3>1 DEF ImportOf, Requirement, Kinds
    <3>4. raw[i].address \in Words
      BY DEF Accepted
    <3>5. m.kind = "Function" => m.address \in Words /\ Xex!Thunk(m.address) \subseteq Words
      BY <3>1 DEF ImportOf, Accepted
    <3>6. m.kind = "Variable" => m.address \in Words
      BY <3>1, <3>4 DEF ImportOf
    <3> HIDE DEF m
    <3>7. \E l \in DOMAIN file.libraries : \E j \in DOMAIN file.libraries[l].records :
              l < library + 1 /\ k = <<l, j>>
      BY <1>1, <3>1, <3>2
    <3> QED
      BY <3>3, <3>4, <3>5, <3>6, <3>7 DEF m
  <2> QED
    BY <2>1, <2>2
<1> QED
  BY <1>1, <1>3, <1>4 DEF ImportsListed

-----------------------------------------------------------------------------
(* The other steps of an inspection *)

\* The properties' sets, of the words they hold.
LEMMA ReportedSets ==
    ASSUME ImportsListed
    PROVE  /\ \A t \in Xex!FunctionThunks : \E a \in Words : ThunkAt(a) /\ t = Xex!Thunk(a) /\ t \subseteq Words
           /\ \A a : ThunkAt(a) => Xex!Thunk(a) \in Xex!FunctionThunks
           /\ \A w : w \in Xex!VariableRecords <=> RecordAt(w)
<1>1. \A m : m \in Xex!Range(imports) <=> \E k \in DOMAIN imports : m = imports[k]
  BY DEF Xex!Range
<1>2. ASSUME NEW t \in Xex!FunctionThunks
      PROVE  \E a \in Words : ThunkAt(a) /\ t = Xex!Thunk(a) /\ t \subseteq Words
  <2>1. PICK m \in Xex!Range(imports) : m.kind = "Function" /\ t = Xex!Thunk(m.address)
    BY DEF Xex!FunctionThunks
  <2>2. PICK k \in DOMAIN imports : m = imports[k]
    BY <1>1
  <2> QED
    BY <2>1, <2>2 DEF ImportsListed, ThunkAt
<1>3. ASSUME NEW a, ThunkAt(a) PROVE Xex!Thunk(a) \in Xex!FunctionThunks
  <2>1. PICK k \in DOMAIN imports : imports[k].kind = "Function" /\ imports[k].address = a
    BY <1>3 DEF ThunkAt
  <2>2. imports[k] \in Xex!Range(imports)
    BY <1>1
  <2> QED
    BY <2>1, <2>2 DEF Xex!FunctionThunks
<1>4. \A w : w \in Xex!VariableRecords <=> RecordAt(w)
  BY <1>1 DEF Xex!VariableRecords, RecordAt
<1> QED
  BY <1>2, <1>3, <1>4

\* A step that reads no word and reports no import.
LEMMA Unread ==
    ASSUME XexInv, UNCHANGED <<file, image, library, imports>>, Reading' => Reading,
           Xex!XexTypeOK', Stages', HelpersOutsideStubs'
    PROVE  XexInv'
<1>1. ImportsListed'
  BY DEF XexInv, ImportsListed
<1>2. OthersKept'
  BY DEF XexInv, OthersKept, Listed
<1>3. ImportsKept' /\ StubsMade'
  BY DEF XexInv, ImportsKept, StubsMade, RecordAt, InThunk, ThunkAt
<1>4. ImportsMatch'
  BY DEF XexInv, ImportsMatch, AsLoaded, Xex!RecordsDistinct
<1>5. RewrittenOnce'
  <2>1. Apart' => Apart
    BY DEF Apart, ThunkAt, RecordAt
  <2>2. Xex!RecordsDistinct' => Xex!RecordsDistinct
    BY DEF Xex!RecordsDistinct
  <2>3. \A w : RecordAt(w)' = RecordAt(w) /\ EndsThunk(w)' = EndsThunk(w) /\ InThunk(w)' = InThunk(w)
    BY DEF RecordAt, EndsThunk, InThunk, ThunkAt
  <2> QED
    BY <2>1, <2>2, <2>3 DEF XexInv, RewrittenOnce
<1> QED
  BY <1>1, <1>2, <1>3, <1>4, <1>5 DEF XexInv

\* Without imports there is nothing to say of them.
LEMMA NothingRead ==
    imports = <<>> /\ Xex!XexTypeOK /\ Stages /\ (Reading => image = file.image) => XexInv
<1> SUFFICES ASSUME imports = <<>>, Xex!XexTypeOK, Stages, Reading => image = file.image
             PROVE  XexInv
  OBVIOUS
<1>1. DOMAIN imports = {}
  OBVIOUS
<1>2. ImportsListed
  BY <1>1, FS_EmptySet DEF ImportsListed
<1>3. \A w : ~RecordAt(w) /\ ~ThunkAt(w)
  BY <1>1 DEF RecordAt, ThunkAt
<1>4. \A w : ~InThunk(w) /\ ~EndsThunk(w)
  BY <1>3 DEF InThunk, EndsThunk
<1>5. OthersKept /\ ImportsKept /\ StubsMade /\ ImportsMatch
  BY <1>1, <1>4 DEF OthersKept, ImportsKept, StubsMade, ImportsMatch
<1>6. RewrittenOnce
  BY <1>3, <1>4 DEF RewrittenOnce
<1>7. HelpersOutsideStubs
  <2>1. Xex!FunctionThunks = {}
    BY <1>2, <1>3, ReportedSets
  <2> QED
    BY <2>1 DEF HelpersOutsideStubs, Xex!HelpersOutsideStubs
<1> QED
  BY <1>2, <1>5, <1>6, <1>7 DEF XexInv

\* The helpers are looked for after the stubs are made, and no helper holds an
\* instruction of a stub.
LEMMA ScanMissesStubs ==
    ASSUME XexInv, Reading, layout'.helpers = Xex!ScanXexHelpers, UNCHANGED imports
    PROVE  HelpersOutsideStubs'
<1>1. ASSUME NEW h \in Xex!ScanXexHelpers, NEW t \in Xex!FunctionThunks,
             NEW w \in h[2]..(h[2] + Len(Helpers[h[1]]) - 1), w \in t, w \notin Xex!VariableRecords
      PROVE  FALSE
  <2> DEFINE pattern == Helpers[h[1]]
             i == w - h[2] + 1
  <2>1. h[1] \in DOMAIN Helpers /\ h[2] \in Xex!ImageRange /\ Xex!Matches(pattern, h[2])
    BY DEF Xex!ScanXexHelpers
  <2>2. pattern \in Seq(Xex!Word \ {Xex!Nop, Xex!Blr})
    BY <2>1, InspectedAssumption
  <2>3. h[2] \in Int
    BY <2>1 DEF Xex!ImageRange
  <2>4. image[h[2] + i - 1] = pattern[i] /\ i \in DOMAIN pattern
    <3> HIDE DEF pattern
    <3>1. Len(pattern) \in Nat /\ DOMAIN pattern = 1..Len(pattern)
      BY <2>2
    <3>2. i \in DOMAIN pattern
      BY <1>1, <2>3, <3>1 DEF pattern
    <3> QED
      BY <2>1, <3>2 DEF Xex!Matches
  <2>5. pattern[i] \notin {Xex!Nop, Xex!Blr}
    <3> HIDE DEF pattern, i
    <3> QED
      BY <2>2, <2>4
  <2>6. h[2] + i - 1 = w
    BY <2>3
  <2>7. ImportsListed
    BY DEF XexInv
  <2>8. ~RecordAt(w) /\ w \in Words /\ InThunk(w)
    BY <1>1, <2>7, ReportedSets DEF InThunk
  <2>9. image[w] \in {Xex!Nop, Xex!Blr}
    BY <2>8 DEF XexInv, StubsMade
  <2> QED
    BY <2>4, <2>5, <2>6, <2>9
<1> QED
  BY <1>1 DEF HelpersOutsideStubs, Xex!HelpersOutsideStubs, Xex!FunctionThunks, Xex!VariableRecords

LEMMA RefusalSteps ==
    ASSUME XexInv, inspect \notin {"done", "stated"}, Xex!RefuseLoaded
    PROVE  XexInv'
<1>1. /\ inspect' = "refused" /\ loaded' = FALSE
      /\ UNCHANGED <<file, image, cursor, library, imports, layout>>
  BY DEF Xex!RefuseLoaded
<1>2. ~Reading'
  BY <1>1 DEF Reading
<1>3. Xex!XexTypeOK'
  BY <1>1 DEF XexInv, Xex!XexTypeOK
<1>4. Stages'
  BY <1>1, <1>2 DEF XexInv, Stages
<1>5. HelpersOutsideStubs'
  BY <1>1 DEF XexInv, HelpersOutsideStubs, Xex!HelpersOutsideStubs, Xex!FunctionThunks, Xex!VariableRecords
<1> QED
  BY <1>1, <1>2, <1>3, <1>4, <1>5, Unread

LEMMA HeaderSteps ==
    ASSUME XexInv, Xex!ValidateHeader \/ Xex!LoadXex
    PROVE  XexInv'
<1>1. /\ inspect \in {"none", "valid"} /\ inspect' \in {"valid", "loaded", "refused"}
      /\ UNCHANGED <<file, image, cursor, library, imports, layout>>
      /\ loaded' <=> inspect' = "loaded"
  <2>1. CASE Xex!ValidateHeader
    BY <2>1 DEF Xex!ValidateHeader, XexInv, Xex!XexTypeOK
  <2>2. CASE Xex!LoadXex
    BY <2>2 DEF Xex!LoadXex
  <2> QED
    BY <2>1, <2>2
<1>2. ~Reading'
  BY <1>1 DEF Reading
<1>3. Xex!XexTypeOK'
  BY <1>1 DEF XexInv, Xex!XexTypeOK
<1>4. Stages'
  BY <1>1, <1>2 DEF XexInv, Stages
<1>5. HelpersOutsideStubs'
  BY <1>1 DEF XexInv, HelpersOutsideStubs, Xex!HelpersOutsideStubs, Xex!FunctionThunks, Xex!VariableRecords
<1> QED
  BY <1>1, <1>2, <1>3, <1>4, <1>5, Unread

LEMMA CopySteps ==
    ASSUME XexInv, Xex!CopyImage
    PROVE  XexInv'
<1>1. CASE Xex!RefuseLoaded
  BY <1>1, RefusalSteps DEF Xex!CopyImage
<1>2. CASE /\ inspect' = "importing" /\ image' = file.image
           /\ UNCHANGED <<file, loaded, cursor, library, imports, layout>>
  <2>1. inspect = "loaded"
    BY DEF Xex!CopyImage
  <2>2. imports' = <<>> /\ (Reading' => image' = file'.image)
    BY <1>2, <2>1 DEF XexInv, Stages
  <2>3. file.image \in Images
    BY InspectedAssumption, FileParts DEF XexInv, Stages
  <2>4. Xex!XexTypeOK'
    BY <1>2, <2>1, <2>3 DEF XexInv, Xex!XexTypeOK, Images, Words, Xex!ImageRange
  <2>5. Stages'
    BY <1>2, <2>1, <2>3 DEF XexInv, Stages
  <2>6. (imports = <<>> /\ Xex!XexTypeOK /\ Stages /\ (Reading => image = file.image))' => XexInv'
    BY NothingRead, PTL
  <2> QED
    BY <2>2, <2>4, <2>5, <2>6
<1> QED
  BY <1>1, <1>2 DEF Xex!CopyImage

LEMMA BeginSteps ==
    ASSUME XexInv, Xex!BeginImports
    PROVE  XexInv'
<1>1. inspect = "importing"
  BY DEF Xex!BeginImports
<1>2. CASE Xex!RefuseLoaded
  BY <1>1, <1>2, RefusalSteps
<1>3. CASE /\ file.strings <= file.size
           /\ cursor' = file.strings /\ inspect' = "imported"
           /\ UNCHANGED <<file, loaded, image, library, imports, layout>>
  <2>1. file.strings \in Nat /\ file.size \in Nat
    BY InspectedAssumption, FileParts DEF XexInv, Stages
  <2>2. cursor' \in 0..file.size
    BY <1>3, <2>1
  <2>3. Xex!XexTypeOK'
    BY <1>1, <1>3, <2>2 DEF XexInv, Xex!XexTypeOK
  <2>4. Stages' /\ (Reading' => Reading)
    BY <1>1, <1>3 DEF XexInv, Stages, Reading
  <2>5. HelpersOutsideStubs'
    BY <1>3 DEF XexInv, HelpersOutsideStubs, Xex!HelpersOutsideStubs, Xex!FunctionThunks, Xex!VariableRecords
  <2> QED
    BY <1>3, <2>3, <2>4, <2>5, Unread
<1> QED
  BY <1>2, <1>3 DEF Xex!BeginImports

LEMMA ParseSteps ==
    ASSUME XexInv, Xex!ParseLibrary
    PROVE  XexInv'
<1>1. inspect = "imported"
  BY DEF Xex!ParseLibrary
<1>2. CASE inspect' = "refused"
  <2>1. Xex!RefuseLoaded
    BY <1>1, <1>2 DEF Xex!ParseLibrary
  <2> QED
    BY <1>1, <2>1, RefusalSteps
<1>3. CASE inspect' # "refused"
  <2>1. PICK n, raw : Accepted(n, raw) /\ Parsed(n, raw)
    BY <1>3, LibraryStep
  <2>2. OthersKept' /\ ImportsKept' /\ StubsMade' /\ ImportsMatch' /\ RewrittenOnce' /\ ImportsListed'
    BY <2>1, ParseKeeps, ParseMatches, ParseRewritesOnce, ParseLists
  <2>3. /\ inspect' = "imported" /\ library' = library + 1 /\ file' = file /\ loaded' = loaded
        /\ layout' = layout /\ image' \in Images /\ library \in DOMAIN file.libraries
    BY <2>1 DEF Parsed, Accepted
  <2>4. file \in Xex!XexFile
    BY InspectedAssumption DEF XexInv, Stages
  <2> DEFINE l == file.libraries[library]
  <2>5. cursor' = cursor + l.size /\ l.size <= file.size - cursor
    BY <1>3 DEF Xex!ParseLibrary, Xex!LibraryInBounds, Xex!RefuseLoaded
  <2>6. l.size \in Nat /\ file.size \in Nat /\ cursor \in 0..file.size
    BY <2>3, <2>4, FileParts DEF XexInv, Xex!XexTypeOK
  <2> HIDE DEF l
  <2>7. cursor' \in 0..file.size
    BY <2>5, <2>6
  <2>8. library' \in 1..(Len(file.libraries) + 1)
    <3>1. Len(file.libraries) \in Nat /\ library \in 1..Len(file.libraries)
      BY <2>3, <2>4, FileParts
    <3> QED
      BY <2>3, <3>1
  <2>9. \A k \in DOMAIN imports' : imports'[k].record \in Xex!ImageRange /\ imports'[k].address \in Xex!ImageRange
    BY <2>2 DEF ImportsListed, Words, Xex!ImageRange
  <2>10. image' \in [Xex!ImageRange -> Xex!Word]
    BY <2>3 DEF Images, Words, Xex!ImageRange
  <2>11. Xex!XexTypeOK'
    BY <1>1, <2>3, <2>7, <2>8, <2>9, <2>10 DEF XexInv, Xex!XexTypeOK
  <2>12. Stages'
    BY <1>1, <2>3 DEF XexInv, Stages
  <2>13. HelpersOutsideStubs'
    <3>1. layout'.helpers = {}
      BY <1>1, <2>3 DEF XexInv, Stages
    <3> QED
      BY <3>1 DEF HelpersOutsideStubs, Xex!HelpersOutsideStubs
  <2> QED
    BY <2>2, <2>11, <2>12, <2>13 DEF XexInv
<1> QED
  BY <1>2, <1>3

\* The code range spans its sections, all of them inside the image.
LEMMA CodeRange ==
    ASSUME file \in Xex!XexFile, Xex!Describable
    PROVE  Xex!CodeBegin <= Xex!CodeEnd /\ Xex!CodeEnd <= ImageWords
<1> DEFINE S == Xex!CodeSections
           Begins == {s.offset : s \in S}
           Ends == {s.offset + s.size : s \in S}
<1>1. \A s : s \in Xex!Range(file.sections) <=> \E k \in DOMAIN file.sections : s = file.sections[k]
  BY DEF Xex!Range
<1>2. /\ \A s \in S : s \in Xex!Range(file.sections) /\ s.size # 0
      /\ S # {}
      /\ \A s \in Xex!Range(file.sections) : s.offset + s.size <= ImageWords
      /\ file.entry \in Xex!CodeBegin..(Xex!CodeEnd - 1)
  BY DEF Xex!Describable, Xex!CodeSections
<1>3. ASSUME NEW s \in S PROVE s.offset \in Nat /\ s.size \in Nat \ {0} /\ s.offset + s.size \in 1..ImageWords
  <2>1. PICK k \in DOMAIN file.sections : s = file.sections[k]
    BY <1>1, <1>2
  <2>2. s.offset \in Nat /\ s.size \in Nat /\ s.size # 0 /\ s.offset + s.size <= ImageWords
    BY <1>2, <2>1, FileParts
  <2>3. ImageWords \in Nat
    BY ImportBindingAssumption
  <2> QED
    BY <2>2, <2>3
<1>4. Begins \subseteq Nat /\ Begins # {} /\ Ends \in SUBSET (1..ImageWords) /\ Ends # {}
  BY <1>2, <1>3
<1>5. Xex!CodeBegin = Xex!Min(Begins) /\ Xex!CodeEnd = Xex!Max(Ends)
  BY DEF Xex!CodeBegin, Xex!CodeEnd
<1> HIDE DEF Begins, Ends
<1>6. Xex!Max(Ends) \in 1..ImageWords
  <2>1. ImageWords \in Nat
    BY ImportBindingAssumption
  <2> QED
    BY <1>4, <2>1, GreatestNat
<1>7. Xex!Min(Begins) \in Nat
  <2>1. PICK b \in Begins : \A c \in Begins : b <= c
    BY <1>4, LeastNat
  <2> QED
    BY <1>4, <2>1 DEF Xex!Min
<1>8. file.entry \in Int
  BY FileParts
<1> QED
  BY <1>2, <1>5, <1>6, <1>7, <1>8

LEMMA DescribeSteps ==
    ASSUME XexInv, Xex!Describe
    PROVE  XexInv'
<1>1. inspect = "imported"
  BY DEF Xex!Describe
<1>2. CASE Xex!RefuseLoaded
  BY <1>1, <1>2, RefusalSteps
<1>3. CASE /\ Xex!Describable
           /\ inspect' = "done" /\ loaded' = FALSE
           /\ layout' = [begin |-> Xex!CodeBegin, end |-> Xex!CodeEnd, helpers |-> Xex!ScanXexHelpers]
           /\ UNCHANGED <<file, image, cursor, library, imports>>
  <2>1. file \in Xex!XexFile
    BY InspectedAssumption DEF XexInv, Stages
  <2>2. layout'.begin <= layout'.end /\ layout'.end <= ImageWords /\ layout'.helpers = Xex!ScanXexHelpers
    BY <1>3, <2>1, CodeRange
  <2>3. Xex!XexTypeOK'
    BY <1>1, <1>3, <2>2 DEF XexInv, Xex!XexTypeOK
  <2>4. Stages' /\ Reading
    BY <1>1, <1>3 DEF XexInv, Stages, Reading
  <2>5. HelpersOutsideStubs'
    BY <1>3, <2>2, <2>4, ScanMissesStubs
  <2> QED
    BY <1>3, <2>3, <2>4, <2>5, Unread
<1> QED
  BY <1>2, <1>3 DEF Xex!Describe

\* The inspection's own steps.
LEMMA InspectSteps ==
    ASSUME XexInv, Xex!InspectXex
    PROVE  XexInv'
BY HeaderSteps, CopySteps, BeginSteps, ParseSteps, DescribeSteps DEF Xex!InspectXex

\* Stating the manifest, and what becomes of it, leave the inspection as it is.
LEMMA OtherSteps ==
    ASSUME XexInv, StateManifest \/ UNCHANGED inspectVars
    PROVE  XexInv'
<1>1. /\ UNCHANGED <<file, loaded, image, cursor, library, imports, layout>>
      /\ inspect' = inspect \/ (inspect = "done" /\ inspect' = "stated")
  BY DEF StateManifest, inspectVars
<1>2. Xex!XexTypeOK'
  BY <1>1 DEF XexInv, Xex!XexTypeOK
<1>3. Stages' /\ (Reading' => Reading)
  BY <1>1 DEF XexInv, Stages, Reading
<1>4. HelpersOutsideStubs'
  BY <1>1 DEF XexInv, HelpersOutsideStubs, Xex!HelpersOutsideStubs, Xex!FunctionThunks, Xex!VariableRecords
<1> QED
  BY <1>1, <1>2, <1>3, <1>4, Unread

\* Nothing is read at first.
LEMMA InspectInit == InspectedInit => XexInv
<1> SUFFICES ASSUME InspectedInit PROVE XexInv
  OBVIOUS
<1>1. /\ file \in Files /\ inspect \in {"none", "unused"} /\ loaded = FALSE /\ image = <<>> /\ cursor = 0
      /\ library = 1 /\ imports = <<>> /\ layout = Xex!NoLayout
  BY InspectedAssumption DEF InspectedInit, Xex!XexInit, Xex!Unopened
<1>2. ~Reading /\ layout.helpers = {} /\ layout.begin = 0 /\ layout.end = 0
  BY <1>1 DEF Reading, Xex!NoLayout
<1>3. file.size \in Nat /\ Len(file.libraries) \in Nat
  BY <1>1, InspectedAssumption, FileParts
<1>4. 0 \in 0..file.size /\ 1 \in 1..(Len(file.libraries) + 1) /\ 0 <= ImageWords
  BY <1>3, ImportBindingAssumption
<1>5. DOMAIN imports = {}
  BY <1>1
<1>6. Xex!XexTypeOK
  BY <1>1, <1>2, <1>4, <1>5 DEF Xex!XexTypeOK
<1>7. Stages
  BY <1>1, <1>2 DEF Stages
<1> QED
  BY <1>1, <1>2, <1>6, <1>7, NothingRead

\* The inspection is as described at every point of the composed system.
THEOREM InspectionInvariant == InspectedSpec => []XexInv
<1>1. XexInv /\ [InspectedNext]_allVars => XexInv'
  <2> SUFFICES ASSUME XexInv, [InspectedNext]_allVars PROVE XexInv'
    OBVIOUS
  <2>1. CASE Xex!InspectXex
    BY <2>1, InspectSteps
  <2>2. CASE StateManifest \/ UNCHANGED inspectVars
    BY <2>2, OtherSteps
  <2> QED
    BY <2>1, <2>2 DEF InspectedNext, allVars
<1> QED
  BY <1>1, InspectInit, PTL DEF InspectedSpec

\* Every import an inspection reports is what the loader's image says at its
\* addresses (docs/project-state.md:260).
THEOREM ReportsAreTrue == InspectedSpec => []ReportsMatchLoader
<1>1. XexInv => ReportsMatchLoader
  <2> SUFFICES ASSUME XexInv, inspect = "done", Xex!RecordsDistinct, NEW m \in Xex!Range(imports)
               PROVE  AsLoaded(m)
    BY DEF ReportsMatchLoader, Xex!ReportsMatchLoader, AsLoaded
  <2>1. PICK k \in DOMAIN imports : m = imports[k]
    BY DEF Xex!Range
  <2> QED
    BY <2>1 DEF XexInv, ImportsMatch, Reading
<1> QED
  BY <1>1, InspectionInvariant, PTL

\* The copy of the image differs from the loader's in import words only, each
\* rewritten once.
THEOREM ImportsRewrittenOnce == InspectedSpec => []NormalizedOnce
<1>1. XexInv => NormalizedOnce
  <2> SUFFICES ASSUME XexInv, inspect = "done", Xex!RecordsDistinct,
                      \A t \in Xex!FunctionThunks : t \cap Xex!VariableRecords = {},
                      \A t, u \in Xex!FunctionThunks : t # u => t \cap u = {}
               PROVE  image = [w \in Xex!ImageRange |->
                          IF w \in Xex!VariableRecords THEN Xex!Swap(file.image[w])
                          ELSE IF \E t \in Xex!FunctionThunks : w = Xex!Max(t) THEN Xex!Blr
                          ELSE IF \E t \in Xex!FunctionThunks : w \in t THEN Xex!Nop
                          ELSE file.image[w]]
    BY DEF NormalizedOnce, Xex!NormalizedOnce
  <2>1. ImportsListed
    BY DEF XexInv
  <2>2. ThunkWords \in Nat \ {0} /\ Words \subseteq Int
    BY ImportBindingAssumption DEF Words
  <2>3. ASSUME NEW a \in Words
        PROVE  /\ a + ThunkWords - 1 \in Xex!Thunk(a)
               /\ Xex!Max(Xex!Thunk(a)) = a + ThunkWords - 1
               /\ \A b \in Words : Xex!Thunk(a) = Xex!Thunk(b) => a = b
    <3>1. a + ThunkWords - 1 \in Xex!Thunk(a) /\ a \in Xex!Thunk(a) /\ \A v \in Xex!Thunk(a) : v \in Int /\ a <= v /\ v <= a + ThunkWords - 1
      BY <2>2 DEF Xex!Thunk
    <3>2. \A b \in Words : b \in Xex!Thunk(b) /\ \A v \in Xex!Thunk(b) : b <= v
      BY <2>2 DEF Xex!Thunk
    <3>3. \A b \in Words : Xex!Thunk(a) = Xex!Thunk(b) => a = b
      BY <2>2, <3>1, <3>2
    <3>4. Xex!Max(Xex!Thunk(a)) \in Xex!Thunk(a) /\ \A v \in Xex!Thunk(a) : Xex!Max(Xex!Thunk(a)) >= v
      <4> DEFINE T == Xex!Thunk(a)
      <4>1. a + ThunkWords - 1 \in T /\ \A v \in T : a + ThunkWords - 1 >= v
        BY <2>2, <3>1
      <4> HIDE DEF T
      <4>2. Xex!Max(T) \in T /\ \A v \in T : Xex!Max(T) >= v
        BY <4>1 DEF Xex!Max
      <4> QED
        BY <4>2 DEF T
    <3> QED
      BY <2>2, <3>1, <3>3, <3>4
  <2>4. Apart
    <3>1. ASSUME NEW a \in Words, ThunkAt(a), NEW w \in Xex!Thunk(a) PROVE ~RecordAt(w)
      BY <2>1, <3>1, ReportedSets
    <3>2. ASSUME NEW a \in Words, NEW b \in Words, ThunkAt(a), ThunkAt(b), a # b
          PROVE  Xex!Thunk(a) \cap Xex!Thunk(b) = {}
      BY <2>1, <2>3, <3>2, ReportedSets
    <3> QED
      BY <3>1, <3>2 DEF Apart
  <2>5. ASSUME NEW w \in Words
        PROVE  /\ w \in Xex!VariableRecords <=> RecordAt(w)
               /\ (\E t \in Xex!FunctionThunks : w = Xex!Max(t)) <=> EndsThunk(w)
               /\ (\E t \in Xex!FunctionThunks : w \in t) <=> InThunk(w)
    <3>1. w \in Xex!VariableRecords <=> RecordAt(w)
      BY <2>1, ReportedSets
    <3>2. (\E t \in Xex!FunctionThunks : w = Xex!Max(t)) <=> EndsThunk(w)
      BY <2>1, <2>3, ReportedSets DEF EndsThunk
    <3>3. (\E t \in Xex!FunctionThunks : w \in t) <=> InThunk(w)
      BY <2>1, ReportedSets DEF InThunk
    <3> QED
      BY <3>1, <3>2, <3>3
  <2>6. image \in Images /\ Xex!ImageRange = Words
    BY DEF XexInv, Stages, Reading, Xex!ImageRange, Words
  <2>7. ASSUME NEW w \in Words
        PROVE  image[w] = IF w \in Xex!VariableRecords THEN Xex!Swap(file.image[w])
                          ELSE IF \E t \in Xex!FunctionThunks : w = Xex!Max(t) THEN Xex!Blr
                          ELSE IF \E t \in Xex!FunctionThunks : w \in t THEN Xex!Nop
                          ELSE file.image[w]
    <3>1. image[w] = IF RecordAt(w) THEN Xex!Swap(file.image[w])
                     ELSE IF EndsThunk(w) THEN Xex!Blr
                     ELSE IF InThunk(w) THEN Xex!Nop
                     ELSE file.image[w]
      BY <2>4 DEF XexInv, RewrittenOnce, Reading
    <3> QED
      BY <2>5, <3>1
  <2> QED
    BY <2>6, <2>7 DEF Images
<1> QED
  BY <1>1, InspectionInvariant, PTL

\* The helpers are read after the stubs are made.
THEOREM NoHelperInStubs == InspectedSpec => []HelpersOutsideStubs
<1>1. XexInv => HelpersOutsideStubs
  BY DEF XexInv
<1> QED
  BY <1>1, InspectionInvariant, PTL

-----------------------------------------------------------------------------
(* The export tables of a valid manifest *)

LEMMA RequirementParts ==
    ASSUME manifest \in Seq(Requirement), NEW i \in Imports
    PROVE  /\ i \in Nat \ {0} /\ i \in 1..Len(manifest) /\ Len(manifest) \in Nat
           /\ manifest[i] \in Requirement
           /\ manifest[i].library \in Nat /\ manifest[i].ordinal \in Nat /\ manifest[i].kind \in Kinds
           /\ manifest[i].address \in Nat /\ manifest[i].record \in Nat
<1>1. i \in Nat \ {0} /\ i \in 1..Len(manifest) /\ Len(manifest) \in Nat /\ manifest[i] \in Requirement
  BY DEF Imports
<1> QED
  BY <1>1 DEF Requirement

\* ValidateModule compares neighbours; the whole manifest is in order.
LEMMA WhollySorted ==
    ASSUME NEW m \in Seq(Requirement), ValidManifest(m)
    PROVE  \A i, j \in DOMAIN m : i < j => ImportLess(m[i], m[j])
<1>1. Len(m) \in Nat /\ DOMAIN m = 1..Len(m)
  OBVIOUS
<1>2. \A k \in DOMAIN m : m[k].library \in Nat /\ m[k].ordinal \in Nat
  <2>1. \A k \in DOMAIN m : m[k] \in Requirement
    BY <1>1
  <2> QED
    BY <2>1 DEF Requirement
<1>3. SUFFICES ASSUME NEW i \in DOMAIN m,
                      NEW T, T = {j \in DOMAIN m : i < j /\ ~ImportLess(m[i], m[j])}, T # {}
               PROVE  FALSE
  <2>1. \A i \in DOMAIN m : {j \in DOMAIN m : i < j /\ ~ImportLess(m[i], m[j])} = {}
    BY <1>3
  <2> QED
    BY <2>1
<1>4. PICK j \in T : \A k \in T : j <= k
  <2>1. T \subseteq Nat
    BY <1>1, <1>3
  <2> QED
    BY <1>3, <2>1, LeastNat
<1>5. j \in DOMAIN m /\ i < j /\ ~ImportLess(m[i], m[j])
  BY <1>3
<1>6. j - 1 \in DOMAIN m /\ j \in 2..Len(m) /\ j - 1 \notin T /\ (i < j - 1 \/ i = j - 1)
  BY <1>1, <1>3, <1>4, <1>5
<1>7. ImportLess(m[j - 1], m[j])
  BY <1>6 DEF ValidManifest
<1>8. i < j - 1
  BY <1>5, <1>6, <1>7
<1>9. ImportLess(m[i], m[j - 1])
  BY <1>3, <1>6, <1>8
<1>10. ImportLess(m[i], m[j])
  BY <1>2, <1>5, <1>6, <1>7, <1>9 DEF ImportLess
<1> QED
  BY <1>5, <1>10

\* A valid manifest keeps the imports of a library together.
LEMMA LibrariesTogether ==
    ASSUME manifest \in Seq(Requirement), ValidManifest(manifest),
           NEW i \in Imports, NEW j \in Imports, manifest[i].library = manifest[j].library,
           NEW k \in Imports, i <= k, k <= j
    PROVE  manifest[k].library = manifest[i].library
<1>1. \A h \in Imports : h \in Int /\ manifest[h].library \in Nat /\ manifest[h].ordinal \in Nat
  BY RequirementParts
<1>2. i < k => ImportLess(manifest[i], manifest[k])
  BY WhollySorted DEF Imports
<1>3. k < j => ImportLess(manifest[k], manifest[j])
  BY WhollySorted DEF Imports
<1>4. (i = k \/ i < k) /\ (k = j \/ k < j)
  BY <1>1
<1>5. CASE i = k \/ k = j
  BY <1>5
<1>6. CASE i < k /\ k < j
  <2>1. manifest[i].library <= manifest[k].library
    BY <1>1, <1>2, <1>6 DEF ImportLess
  <2>2. manifest[k].library <= manifest[j].library
    BY <1>1, <1>3, <1>6 DEF ImportLess
  <2> QED
    BY <1>1, <2>1, <2>2
<1> QED
  BY <1>4, <1>5, <1>6

\* So that no library starts two tables.
LEMMA OneStart ==
    ASSUME manifest \in Seq(Requirement), ValidManifest(manifest),
           NEW t \in Imports, NEW u \in Imports, StartsTable(t), StartsTable(u),
           manifest[t].library = manifest[u].library
    PROVE  t = u
<1>1. \A a, b \in Imports : a < b /\ manifest[a].library = manifest[b].library => ~StartsTable(b)
  <2> SUFFICES ASSUME NEW a \in Imports, NEW b \in Imports, a < b,
                      manifest[a].library = manifest[b].library
               PROVE  ~StartsTable(b)
    OBVIOUS
  <2>1. b - 1 \in Imports /\ a <= b - 1 /\ b - 1 <= b /\ b # 1
    BY DEF Imports
  <2>2. manifest[b - 1].library = manifest[a].library
    BY <2>1, LibrariesTogether
  <2> QED
    BY <2>1, <2>2 DEF StartsTable
<1>2. t < u \/ u < t \/ t = u
  BY DEF Imports
<1> QED
  BY <1>1, <1>2

\* Every import lies in the table that its library's first import starts.
LEMMA TableFound ==
    ASSUME manifest \in Seq(Requirement), ValidManifest(manifest), NEW i \in Imports
    PROVE  \E t \in Imports :
              t <= i /\ StartsTable(t) /\ manifest[t].library = manifest[i].library /\ i \in TableOf(t)
<1> DEFINE T == {t \in Imports : manifest[t].library = manifest[i].library}
<1>1. Imports \subseteq Nat \ {0}
  BY DEF Imports
<1>2. PICK t \in T : \A u \in T : t <= u
  <2>1. T \subseteq Nat /\ i \in T
    BY <1>1
  <2> HIDE DEF T
  <2> QED
    BY <2>1, LeastNat
<1>3. t \in Imports /\ t <= i /\ manifest[t].library = manifest[i].library
  BY <1>2
<1>4. StartsTable(t)
  <2>1. CASE t = 1
    BY <2>1 DEF StartsTable
  <2>2. CASE t # 1
    <3>1. t - 1 \in Imports /\ ~(t <= t - 1)
      BY <1>1, <1>3, <2>2 DEF Imports
    <3> QED
      BY <1>2, <1>3, <3>1 DEF StartsTable
  <2> QED
    BY <2>1, <2>2
<1>5. ASSUME NEW j \in (t + 1)..i PROVE ~StartsTable(j)
  <2>1. j \in Imports /\ j - 1 \in Imports /\ t <= j /\ j <= i /\ t <= j - 1 /\ j - 1 <= i /\ j # 1
    BY <1>1, <1>3, <1>5 DEF Imports
  <2>2. manifest[j].library = manifest[t].library /\ manifest[j - 1].library = manifest[t].library
    BY <1>3, <2>1, LibrariesTogether
  <2> QED
    BY <2>1, <2>2 DEF StartsTable
<1> QED
  BY <1>3, <1>4, <1>5 DEF TableOf

\* A table holds imports of one library.
LEMMA TableOfLibrary ==
    ASSUME manifest \in Seq(Requirement), NEW t \in Imports, NEW k \in TableOf(t)
    PROVE  manifest[k].library = manifest[t].library
<1> DEFINE T == {j \in t..k : manifest[j].library # manifest[t].library}
<1>1. Imports \subseteq Nat \ {0} /\ k \in Imports /\ t <= k /\ \A j \in (t + 1)..k : ~StartsTable(j)
  BY DEF Imports, TableOf
<1>2. ASSUME T # {} PROVE FALSE
  <2>1. PICK j \in T : \A h \in T : j <= h
    <3>1. T \subseteq Nat
      BY <1>1
    <3> HIDE DEF T
    <3> QED
      BY <1>2, <3>1, LeastNat
  <2>2. j \in (t + 1)..k /\ j - 1 \in t..k /\ ~(j <= j - 1)
    BY <1>1, <2>1
  <2>3. manifest[j - 1].library = manifest[t].library
    BY <2>1, <2>2
  <2> QED
    BY <1>1, <2>1, <2>2, <2>3 DEF StartsTable
<1>3. k \in t..k
  BY <1>1
<1> QED
  BY <1>2, <1>3

\* The resolver, asked for an import once its table is registered, finds that
\* import and no other.
LEMMA LookupFinds ==
    ASSUME manifest \in Seq(Requirement), ValidManifest(manifest), NEW i \in Imports,
           NEW registered, registered = {t \in Imports : t <= i /\ StartsTable(t)}
    PROVE  Lookup(registered, manifest[i].library, ExportOrdinal(i)) = i
<1>1. ExportOrdinal(i) = manifest[i].ordinal
  <2>1. manifest[i].ordinal <= MaxOrdinal /\ manifest[i].ordinal \in Nat
    BY RequirementParts DEF ValidManifest, OrdinalFits, Imports
  <2>2. MaxOrdinal \in Nat
    BY ImportBindingAssumption
  <2>3. \A a, b \in Nat : a <= b => a % (b + 1) = a
    OBVIOUS
  <2> QED
    BY <2>1, <2>2, <2>3 DEF ExportOrdinal
<1>2. PICK t \in Imports :
          t <= i /\ StartsTable(t) /\ manifest[t].library = manifest[i].library /\ i \in TableOf(t)
  BY TableFound
<1> DEFINE ofLibrary == {u \in registered : manifest[u].library = manifest[i].library}
<1>3. ofLibrary = {t}
  BY <1>2, OneStart
<1> DEFINE first == CHOOSE u \in ofLibrary : \A v \in ofLibrary : u <= v
           found == {k \in TableOf(first) : manifest[k].ordinal = ExportOrdinal(i)}
<1>4. first = t
  <2>1. t <= t
    BY <1>2 DEF Imports
  <2> HIDE DEF ofLibrary
  <2> QED
    BY <1>3, <2>1
<1>5. found = {i}
  <2>1. ASSUME NEW k \in TableOf(t), manifest[k].ordinal = manifest[i].ordinal PROVE k = i
    <3>1. k \in Imports /\ manifest[k].library = manifest[i].library
      BY <1>2, TableOfLibrary DEF TableOf
    <3>2. k < i \/ i < k \/ k = i
      BY <3>1 DEF Imports
    <3>3. \A a, b \in Imports : a < b => ImportLess(manifest[a], manifest[b])
      BY WhollySorted DEF Imports
    <3>4. manifest[i].ordinal \in Nat
      BY RequirementParts
    <3> QED
      BY <2>1, <3>1, <3>2, <3>3, <3>4 DEF ImportLess
  <2> QED
    BY <1>1, <1>2, <1>4, <2>1
<1> DEFINE answer == CHOOSE k \in found : \A h \in found : h <= k
<1>6. answer = i
  <2>1. i <= i
    BY DEF Imports
  <2> HIDE DEF found
  <2> QED
    BY <1>5, <2>1
<1>7. Lookup(registered, manifest[i].library, ExportOrdinal(i))
        = IF ofLibrary = {} \/ found = {} THEN 0 ELSE answer
  BY DEF Lookup
<1> HIDE DEF ofLibrary, found, answer
<1> QED
  BY <1>3, <1>5, <1>6, <1>7

-----------------------------------------------------------------------------
(* What holds of the binding at every point *)

Binding == [library : Nat, ordinal : Nat, kind : Kinds, handler : Handlers, resolver : BOOLEAN]

\* The table of claims is that of the last accepted resolution, and every binding
\* made so far calls what is due to it.
BindingsMade ==
    /\ claims = ClaimTable(accepted)
    /\ bindings \in Seq(Binding)
    /\ due \in Seq(Handlers)
    /\ \A i \in DOMAIN bindings : bindings[i].handler = due[i]

\* What LoadModule goes on with has been validated.
Validated ==
    phase \in {"valid", "attaching", "loaded", "failed"} =>
        ValidManifest(manifest) /\ ValidBindings(manifest, bindings)

\* Attach has come to next: each import before it is mapped to itself.
Attached ==
    /\ phase \notin {"attaching", "loaded", "failed"} => next = 1
    /\ phase = "loaded" => next \notin Imports
    /\ tables = {t \in Imports : t < next /\ StartsTable(t)}
    /\ \A i \in Imports : mapping[i] = IF i < next THEN i ELSE 0
    /\ \A i \in Imports : externs[i] = IF i < next /\ manifest[i].kind = "Function" THEN i ELSE 0

\* What it has written, no later import takes away.
MemoryWritten ==
    \A i \in Imports : i < next =>
        /\ \A w \in Written(manifest[i]) : memory[w] # 0
        /\ /\ manifest[i].kind = "Variable"
           /\ \A j \in Imports : manifest[j].kind = "Function" => manifest[i].record \notin Thunk(manifest[j])
           => memory[manifest[i].record] = i

\* The manifest an inspection has led to holds every import it reported.
ReportStated ==
    /\ inspect \notin {"stated", "unused"} => Fresh(<<>>)
    /\ inspect = "stated" => \A k \in DOMAIN imports : \E i \in Imports : manifest[i] = imports[k]

BindInv ==
    /\ TypeOK
    /\ BindingsMade
    /\ Validated
    /\ Attached
    /\ MemoryWritten

\* A table of claims holds exports under what they name.
LEMMA ClaimsTyped ==
    ASSUME NEW names \in SUBSET DOMAIN Exports
    PROVE  /\ DOMAIN ClaimTable(names) = {Identity(Exports[n]) : n \in names}
           /\ DOMAIN ClaimTable(names) \subseteq ExportIds
           /\ \A id \in DOMAIN ClaimTable(names) :
                 /\ ClaimTable(names)[id] = CHOOSE n \in names : Identity(Exports[n]) = id
                 /\ ClaimTable(names)[id] \in names
<1> DEFINE ids == {Identity(Exports[n]) : n \in names}
           Of(id) == CHOOSE n \in names : Identity(Exports[n]) = id
<1>1. ClaimTable(names) = [id \in ids |-> Of(id)]
  BY DEF ClaimTable
<1>2. \A id \in ids : Of(id) \in names
  OBVIOUS
<1>3. ids \subseteq ExportIds
  BY DEF ExportIds, Identity
<1> HIDE DEF Of
<1>4. DOMAIN ClaimTable(names) = ids /\ \A id \in ids : ClaimTable(names)[id] = Of(id)
  BY <1>1
<1> QED
  BY <1>2, <1>3, <1>4 DEF Of

\* Nothing is claimed in the table a resolution of nothing leaves.
LEMMA EmptyTable == ClaimTable({}) = <<>>
<1>1. {Identity(Exports[n]) : n \in {}} = {}
  OBVIOUS
<1> DEFINE f == ClaimTable({})
<1>2. f = [id \in {} |-> CHOOSE n \in {} : Identity(Exports[n]) = id]
  BY <1>1 DEF ClaimTable
<1>3. f = [id \in 1..0 |-> f[id]]
  BY <1>2
<1> QED
  BY <1>3

\* Before anything is bound or attached.
LEMMA FreshBinds == manifest \in Seq(Requirement) /\ Fresh(manifest) => BindInv
<1> SUFFICES ASSUME manifest \in Seq(Requirement), Fresh(manifest) PROVE BindInv
  OBVIOUS
<1>1. /\ phase = "composing" /\ claims = <<>> /\ accepted = {} /\ bindings = <<>> /\ due = <<>> /\ tables = {}
      /\ mapping = [i \in Imports |-> 0] /\ externs = [i \in Imports |-> 0]
      /\ memory = [w \in Words |-> 0] /\ next = 1
  BY DEF Fresh, Imports
<1>2. Len(manifest) \in Nat
  BY <1>1
<1>3. DOMAIN claims = {} /\ DOMAIN bindings = {} /\ Len(bindings) = 0 /\ DOMAIN due = {} /\ Len(due) = 0
  BY <1>1
<1>4. TypeOK
  BY <1>1, <1>2, <1>3 DEF TypeOK
<1>5. BindingsMade
  BY <1>1, <1>3, EmptyTable DEF BindingsMade
<1>7. Validated /\ MemoryWritten /\ Attached
  <2>1. \A i \in Imports : ~(i < 1)
    BY <1>1 DEF Imports
  <2> QED
    BY <1>1, <2>1 DEF Validated, MemoryWritten, Attached
<1> QED
  BY <1>4, <1>5, <1>7 DEF BindInv

\* A step of the claims and bindings leaves what is attached alone.
LEMMA AttachKept ==
    ASSUME BindInv, UNCHANGED <<phase, manifest, attachVars>>
    PROVE  Attached' /\ MemoryWritten'
<1>1. UNCHANGED <<phase, manifest, tables, mapping, externs, memory, next>>
  BY DEF attachVars
<1>2. \A i : StartsTable(i)' = StartsTable(i)
  BY <1>1 DEF StartsTable
<1>3. Attached'
  BY <1>1, <1>2 DEF BindInv, Attached, Imports
<1>4. MemoryWritten'
  BY <1>1 DEF BindInv, MemoryWritten, Imports
<1> QED
  BY <1>3, <1>4

\* Resolve and Clear change the table of claims and no binding.
LEMMA ClaimSteps ==
    ASSUME BindInv, Clear \/ \E n \in 0..MaxClaims : \E list \in [1..n -> Claims] : Resolve(list)
    PROVE  BindInv'
<1>1. phase = "composing" /\ UNCHANGED <<phase, manifest, bindings, due, attachVars>>
  BY DEF Clear, Resolve
<1>2. accepted' \subseteq DOMAIN Exports /\ claims' = ClaimTable(accepted')
  <2>1. CASE Clear
    BY <2>1, EmptyTable DEF Clear
  <2>2. ASSUME NEW n \in 0..MaxClaims, NEW list \in [1..n -> Claims], Resolve(list)
        PROVE  accepted' \subseteq DOMAIN Exports /\ claims' = ClaimTable(accepted')
    <3>1. CASE Acceptable(list)
      <4>1. Names(list) \subseteq DOMAIN Exports
        BY <3>1 DEF Acceptable, Claimable, Names
      <4> QED
        BY <2>2, <3>1, <4>1 DEF Resolve
    <3>2. CASE ~Acceptable(list)
      BY <2>2, <3>2 DEF Resolve, BindInv, BindingsMade, TypeOK
    <3> QED
      BY <3>1, <3>2
  <2> QED
    BY <2>1, <2>2
<1>3. Imports' = Imports
  BY <1>1 DEF Imports
<1>4. TypeOK'
  <2>1. UNCHANGED <<phase, manifest, bindings, due, tables, mapping, externs, memory, next>>
    BY <1>1 DEF attachVars
  <2>2. /\ DOMAIN claims' \subseteq ExportIds
        /\ \A id \in DOMAIN claims' : claims'[id] \in DOMAIN Exports
    BY <1>2, ClaimsTyped
  <2> QED
    BY <1>2, <1>3, <2>1, <2>2 DEF BindInv, TypeOK
<1>5. BindingsMade'
  BY <1>1, <1>2 DEF BindInv, BindingsMade
<1>6. Validated'
  BY <1>1 DEF Validated
<1>7. Attached' /\ MemoryWritten'
  BY <1>1, AttachKept
<1> QED
  BY <1>4, <1>5, <1>6, <1>7 DEF BindInv

\* What the embedder proposes is a binding.
LEMMA ProposedBinding ==
    ASSUME NEW q \in Requirement, NEW b \in Proposed(q)
    PROVE  b \in Binding
<1>1. q.library \in Nat /\ q.ordinal \in Nat /\ q.kind \in Kinds
  BY DEF Requirement
<1>2. {"default", "none"} \subseteq Handlers
  BY DEF Handlers
<1> DEFINE i == Intended(q)
<1>3. i \in Binding
  BY <1>1, <1>2 DEF Intended, Binding
<1>4. [i EXCEPT !.ordinal = @ + 1] \in Binding
  BY <1>3 DEF Binding
<1>5. \A k \in Kinds : [i EXCEPT !.kind = k] \in Binding
  BY <1>3 DEF Binding
<1>6. \A h \in {"default", "none"} : [i EXCEPT !.handler = h] \in Binding
  BY <1>2, <1>3 DEF Binding
<1> QED
  BY <1>3, <1>4, <1>5, <1>6 DEF Proposed

\* Apply, which looks in the table, gives a binding what is due to it.
LEMMA AppliedBinding ==
    ASSUME BindInv, NEW q \in Requirement, NEW b \in Binding
    PROVE  /\ Apply(q, b) \in Binding
           /\ Apply(q, b).handler = Due(q, b.handler)
           /\ Due(q, b.handler) \in Handlers
<1> DEFINE own == \E n \in accepted : Identity(Exports[n]) = Identity(q)
           mine == CHOOSE n \in accepted : Identity(Exports[n]) = Identity(q)
<1>1. accepted \in SUBSET DOMAIN Exports /\ claims = ClaimTable(accepted)
  BY DEF BindInv, TypeOK, BindingsMade
<1>2. DOMAIN claims = {Identity(Exports[n]) : n \in accepted}
      /\ \A id \in DOMAIN claims : claims[id] = CHOOSE n \in accepted : Identity(Exports[n]) = id
  BY <1>1, ClaimsTyped
<1>3. Claimed(q) <=> q.kind = "Function" /\ own
  <2>1. ASSUME NEW n \in accepted, Identity(Exports[n]) = Identity(q)
        PROVE  q.library \in KnownLibraries
    <3>1. Exports[n] \in [library : KnownLibraries, ordinal : Nat, kind : Kinds]
      BY <1>1, ImportBindingAssumption
    <3>2. Exports[n].library = q.library
      BY <2>1 DEF Identity
    <3> QED
      BY <3>1, <3>2
  <2>2. Identity(q) \in DOMAIN claims <=> own
    BY <1>2
  <2> QED
    BY <2>1, <2>2 DEF Claimed
<1>4. CASE Claimed(q)
  <2>1. claims[Identity(q)] = mine /\ own /\ q.kind = "Function"
    BY <1>2, <1>3, <1>4 DEF Claimed
  <2>2. mine \in accepted
    BY <2>1
  <2> HIDE DEF own, mine
  <2>3. mine \in Handlers
    BY <1>1, <2>2 DEF Handlers
  <2>4. Apply(q, b) = [b EXCEPT !.handler = mine]
    BY <1>4, <2>1 DEF Apply
  <2>5. Due(q, b.handler) = mine
    BY <2>1 DEF Due, own, mine
  <2> QED
    BY <2>3, <2>4, <2>5 DEF Binding
<1>5. CASE ~Claimed(q)
  <2>1. Apply(q, b) = b
    BY <1>5 DEF Apply
  <2>2. Due(q, b.handler) = b.handler
    BY <1>3, <1>5 DEF Due
  <2> QED
    BY <2>1, <2>2 DEF Binding
<1> QED
  BY <1>4, <1>5

\* A step of the walk leaves a binding for each import up to some point, which
\* calls what is due to it.
LEMMA BoundKept ==
    ASSUME BindInv, phase = "composing", UNCHANGED <<phase, manifest, claims, accepted, attachVars>>,
           bindings' \in Seq(Binding), due' \in Seq(Handlers),
           Len(bindings') <= Len(manifest), Len(due') = Len(bindings'),
           \A i \in DOMAIN bindings' : bindings'[i].handler = due'[i]
    PROVE  BindInv'
<1>1. BindingsMade'
  BY DEF BindInv, BindingsMade
<1>2. TypeOK'
  <2>1. UNCHANGED <<phase, manifest, claims, accepted, tables, mapping, externs, memory, next>>
    BY DEF attachVars
  <2>2. \A i \in DOMAIN bindings' : bindings'[i].handler \in Handlers
    <3>1. \A i \in DOMAIN bindings' : bindings'[i] \in Binding
      OBVIOUS
    <3> QED
      BY <3>1 DEF Binding
  <2> QED
    BY <2>1, <2>2 DEF BindInv, TypeOK, Imports
<1>3. Validated'
  BY DEF Validated
<1>4. Attached' /\ MemoryWritten'
  BY AttachKept
<1> QED
  BY <1>1, <1>2, <1>3, <1>4 DEF BindInv

\* The walk binds the next import.
LEMMA WalkSteps ==
    ASSUME BindInv, Len(bindings) < Len(manifest),
           NEW b \in Proposed(manifest[Len(bindings) + 1]), BindNext(b)
    PROVE  BindInv'
<1> DEFINE n == Len(bindings)
           q == manifest[n + 1]
           made == Apply(q, b)
           owed == Due(q, b.handler)
<1>1. /\ manifest \in Seq(Requirement) /\ bindings \in Seq(Binding) /\ due \in Seq(Handlers)
      /\ Len(due) = n /\ \A i \in DOMAIN bindings : bindings[i].handler = due[i]
  BY DEF BindInv, TypeOK, BindingsMade
<1>2. n \in Nat /\ Len(manifest) \in Nat /\ DOMAIN bindings = 1..n /\ n + 1 \in Imports
  BY <1>1 DEF Imports
<1>3. q \in Requirement
  BY <1>1, <1>2 DEF Imports
<1>4. /\ phase = "composing" /\ bindings' = Append(bindings, made) /\ due' = Append(due, owed)
      /\ UNCHANGED <<phase, manifest, claims, accepted, attachVars>>
  BY DEF BindNext
<1>5. made \in Binding /\ made.handler = owed /\ owed \in Handlers
  BY <1>3, ProposedBinding, AppliedBinding
<1> HIDE DEF made, owed
<1>6. /\ bindings' \in Seq(Binding) /\ Len(bindings') = n + 1 /\ DOMAIN bindings' = 1..(n + 1)
      /\ due' \in Seq(Handlers) /\ Len(due') = n + 1
      /\ \A i \in 1..n : bindings'[i] = bindings[i] /\ due'[i] = due[i]
      /\ bindings'[n + 1] = made /\ due'[n + 1] = owed
  BY <1>1, <1>4, <1>5
<1>7. \A i \in DOMAIN bindings' : bindings'[i].handler = due'[i]
  <2>1. \A i \in 1..(n + 1) : i \in 1..n \/ i = n + 1
    BY <1>2
  <2> QED
    BY <1>1, <1>2, <1>5, <1>6, <2>1
<1>8. Len(bindings') <= Len(manifest)
  BY <1>2, <1>6
<1> QED
  BY <1>4, <1>6, <1>7, <1>8, BoundKept

\* A further Apply changes one binding and what is due to it.
LEMMA ApplyAgainSteps ==
    ASSUME BindInv, NEW k \in DOMAIN bindings, ApplyAgain(k)
    PROVE  BindInv'
<1> DEFINE made == Apply(manifest[k], bindings[k])
           owed == Due(manifest[k], due[k])
<1>1. /\ manifest \in Seq(Requirement) /\ bindings \in Seq(Binding) /\ due \in Seq(Handlers)
      /\ Len(bindings) <= Len(manifest) /\ Len(due) = Len(bindings)
      /\ \A i \in DOMAIN bindings : bindings[i].handler = due[i]
  BY DEF BindInv, TypeOK, BindingsMade
<1>2. /\ phase = "composing" /\ bindings' = [bindings EXCEPT ![k] = made]
      /\ due' = [due EXCEPT ![k] = owed]
      /\ UNCHANGED <<phase, manifest, claims, accepted, attachVars>>
  BY DEF ApplyAgain
<1>3. manifest[k] \in Requirement /\ bindings[k] \in Binding /\ bindings[k].handler = due[k]
  BY <1>1
<1>4. made \in Binding /\ made.handler = owed /\ owed \in Handlers
  BY <1>3, AppliedBinding
<1> HIDE DEF made, owed
<1>5. /\ bindings' \in Seq(Binding) /\ Len(bindings') = Len(bindings) /\ DOMAIN bindings' = DOMAIN bindings
      /\ due' \in Seq(Handlers) /\ Len(due') = Len(due) /\ DOMAIN due = DOMAIN bindings
      /\ \A i \in DOMAIN bindings : bindings'[i] = IF i = k THEN made ELSE bindings[i]
      /\ \A i \in DOMAIN bindings : due'[i] = IF i = k THEN owed ELSE due[i]
  BY <1>1, <1>2, <1>4
<1>6. \A i \in DOMAIN bindings' : bindings'[i].handler = due'[i]
  BY <1>1, <1>4, <1>5
<1> QED
  BY <1>1, <1>2, <1>5, <1>6, BoundKept

\* What comes before and after Attach's loop moves the phase only.
LEMMA PhaseSteps ==
    ASSUME BindInv, Submit \/ Validate \/ CreateTables \/ AttachFails \/ FinishAttach
    PROVE  BindInv'
<1>1. UNCHANGED <<manifest, claims, bindings, accepted, due, tables, mapping, externs, memory, next>>
  BY DEF Submit, Validate, CreateTables, AttachFails, FinishAttach, composeVars, attachVars
<1>2. \/ phase = "composing" /\ phase' = "submitted"
      \/ phase = "submitted" /\ phase' = "refused"
      \/ phase = "submitted" /\ phase' = "valid" /\ ValidManifest(manifest) /\ ValidBindings(manifest, bindings)
      \/ phase = "valid" /\ phase' \in {"attaching", "refused"}
      \/ phase = "attaching" /\ phase' = "failed"
      \/ phase = "attaching" /\ phase' = "loaded" /\ next \notin Imports
  BY DEF Submit, Validate, CreateTables, AttachFails, FinishAttach
<1>3. TypeOK'
  BY <1>1, <1>2 DEF BindInv, TypeOK, Imports
<1>4. BindingsMade'
  BY <1>1 DEF BindInv, BindingsMade
<1>6. Validated'
  BY <1>1, <1>2 DEF BindInv, Validated
<1>7. Attached'
  BY <1>1, <1>2 DEF BindInv, Attached, Imports, StartsTable
<1>8. MemoryWritten'
  BY <1>1 DEF BindInv, MemoryWritten, Imports
<1> QED
  BY <1>3, <1>4, <1>6, <1>7, <1>8 DEF BindInv

\* One turn of Attach's loop, as a whole: the import next is mapped to itself and
\* its words are written.
LEMMA AttachTurn ==
    ASSUME BindInv, AttachNext
    PROVE  /\ phase = "attaching" /\ next \in Imports /\ next' = next + 1
           /\ UNCHANGED <<phase, manifest, claims, bindings, accepted, due>>
           /\ ValidManifest(manifest)
           /\ tables' = {t \in Imports : t < next + 1 /\ StartsTable(t)}
           /\ mapping' = [mapping EXCEPT ![next] = next]
           /\ externs' = IF manifest[next].kind = "Function" THEN [externs EXCEPT ![next] = next] ELSE externs
           /\ Written(manifest[next]) \subseteq Words
           /\ memory' = [w \in Words |-> IF w \in Written(manifest[next]) THEN next ELSE memory[w]]
<1> DEFINE i == next
           r == manifest[i]
           registered == IF StartsTable(i) THEN tables \cup {i} ELSE tables
           export == Lookup(registered, r.library, ExportOrdinal(i))
           mapped == IF export = 0 THEN mapping ELSE [mapping EXCEPT ![export] = i]
<1>1. /\ phase = "attaching" /\ i \in Imports /\ next' = i + 1
      /\ tables' = registered /\ mapping' = mapped
      /\ externs' = IF r.kind = "Function" THEN [externs EXCEPT ![i] = mapped[i]] ELSE externs
      /\ memory' = [w \in Words \cup Written(r) |->
                      IF w \notin Written(r) THEN memory[w]
                      ELSE IF r.kind = "Function" THEN i ELSE mapped[i]]
      /\ UNCHANGED <<phase, manifest, composeVars>>
  BY DEF AttachNext
<1>2. UNCHANGED <<claims, bindings, accepted, due>>
  BY <1>1 DEF composeVars
<1>3. manifest \in Seq(Requirement) /\ ValidManifest(manifest) /\ mapping \in [Imports -> {0} \cup Imports]
  BY <1>1 DEF BindInv, TypeOK, Validated
<1>4. \A t \in Imports : t \in Nat \ {0}
  BY <1>3, RequirementParts
<1>5. registered = {t \in Imports : t < i + 1 /\ StartsTable(t)}
  <2>1. tables = {t \in Imports : t < i /\ StartsTable(t)}
    BY DEF BindInv, Attached
  <2>2. \A t \in Imports : t < i + 1 <=> t < i \/ t = i
    BY <1>1, <1>4
  <2> QED
    BY <1>1, <2>1, <2>2
<1>6. registered = {t \in Imports : t <= i /\ StartsTable(t)}
  <2>1. \A t \in Imports : t < i + 1 <=> t <= i
    BY <1>1, <1>4
  <2> QED
    BY <1>5, <2>1
<1> HIDE DEF registered
<1>7. export = i
  BY <1>1, <1>3, <1>6, LookupFinds
<1> HIDE DEF export
<1>8. mapped = [mapping EXCEPT ![i] = i] /\ mapped[i] = i
  BY <1>1, <1>3, <1>4, <1>7
<1> HIDE DEF mapped
<1>9. Written(r) \subseteq Words
  <2>1. Placed(r) /\ r.kind \in Kinds /\ r.address \in Nat /\ r.record \in Nat
    BY <1>1, <1>3, RequirementParts DEF ValidManifest, Imports
  <2>2. ThunkWords \in Nat \ {0} /\ CodeWords \in 0..ImageWords /\ ImageWords \in Nat
    BY ImportBindingAssumption
  <2>3. CASE r.kind = "Function"
    <3>1. r.address + ThunkWords <= CodeWords
      BY <2>1, <2>3 DEF Placed
    <3>2. Thunk(r) \subseteq Words
      BY <2>1, <2>2, <3>1 DEF Thunk, Words
    <3> QED
      BY <2>3, <3>2 DEF Written
  <2>4. CASE r.kind = "Variable"
    <3>1. r.record < ImageWords
      BY <2>1 DEF Placed
    <3>2. r.record \in Words
      BY <2>1, <2>2, <3>1 DEF Words
    <3> QED
      BY <2>4, <3>2 DEF Written
  <2> QED
    BY <2>1, <2>3, <2>4 DEF Kinds
<1>10. memory' = [w \in Words |-> IF w \in Written(r) THEN i ELSE memory[w]]
  <2>1. Words \cup Written(r) = Words
    BY <1>9
  <2> QED
    BY <1>1, <1>8, <2>1
<1> QED
  BY <1>1, <1>2, <1>3, <1>5, <1>8, <1>9, <1>10

LEMMA AttachSteps ==
    ASSUME BindInv, AttachNext
    PROVE  BindInv'
<1> DEFINE i == next
<1>1. /\ phase = "attaching" /\ i \in Imports /\ next' = i + 1
      /\ UNCHANGED <<phase, manifest, claims, bindings, accepted, due>>
      /\ ValidManifest(manifest)
      /\ tables' = {t \in Imports : t < i + 1 /\ StartsTable(t)}
      /\ mapping' = [mapping EXCEPT ![i] = i]
      /\ externs' = IF manifest[i].kind = "Function" THEN [externs EXCEPT ![i] = i] ELSE externs
      /\ Written(manifest[i]) \subseteq Words
      /\ memory' = [w \in Words |-> IF w \in Written(manifest[i]) THEN i ELSE memory[w]]
  BY AttachTurn
<1>2. /\ manifest \in Seq(Requirement)
      /\ mapping \in [Imports -> {0} \cup Imports] /\ externs \in [Imports -> {0} \cup Imports]
      /\ memory \in [Words -> {0} \cup Imports]
      /\ Imports' = Imports
  BY <1>1 DEF BindInv, TypeOK, Imports
<1>3. \A t \in Imports : t \in Nat \ {0} /\ t \in 1..Len(manifest) /\ Len(manifest) \in Nat
  BY <1>2, RequirementParts
<1>4. \A t \in Imports : t < i + 1 <=> t < i \/ t = i
  BY <1>1, <1>3
<1>5. TypeOK'
  <2>1. next' \in 1..(Len(manifest) + 1)
    BY <1>1, <1>3
  <2>2. tables' \subseteq Imports
    BY <1>1
  <2>3. /\ mapping' \in [Imports -> {0} \cup Imports] /\ externs' \in [Imports -> {0} \cup Imports]
        /\ memory' \in [Words -> {0} \cup Imports]
    BY <1>1, <1>2
  <2> QED
    BY <1>1, <1>2, <2>1, <2>2, <2>3 DEF BindInv, TypeOK
<1>6. BindingsMade'
  BY <1>1 DEF BindInv, BindingsMade
<1>8. Validated'
  BY <1>1 DEF BindInv, Validated
<1>9. Attached'
  <2>1. ASSUME NEW t \in Imports
        PROVE  /\ mapping'[t] = IF t < i + 1 THEN t ELSE 0
               /\ externs'[t] = IF t < i + 1 /\ manifest[t].kind = "Function" THEN t ELSE 0
    <3>1. mapping[t] = (IF t < i THEN t ELSE 0)
          /\ externs[t] = IF t < i /\ manifest[t].kind = "Function" THEN t ELSE 0
      BY DEF BindInv, Attached
    <3>2. CASE t = i
      <4>1. t < i + 1 /\ mapping'[t] = t
        BY <1>1, <1>2, <1>4, <3>2
      <4>2. CASE manifest[t].kind = "Function"
        BY <1>1, <1>2, <3>2, <4>1, <4>2
      <4>3. CASE manifest[t].kind # "Function"
        BY <1>1, <3>1, <3>2, <4>1, <4>3
      <4> QED
        BY <4>1, <4>2, <4>3
    <3>3. CASE t # i
      BY <1>1, <1>2, <1>4, <3>1, <3>3
    <3> QED
      BY <3>2, <3>3
  <2>2. \A t : StartsTable(t)' = StartsTable(t)
    BY <1>1 DEF StartsTable
  <2> QED
    BY <1>1, <1>2, <2>1, <2>2 DEF Attached
<1>10. MemoryWritten'
  <2>1. ASSUME NEW t \in Imports, t < i + 1, NEW w \in Written(manifest[t]) PROVE memory'[w] # 0
    <3>1. CASE w \in Written(manifest[i])
      BY <1>1, <1>3, <3>1
    <3>2. CASE w \notin Written(manifest[i])
      <4>1. t < i /\ memory[w] # 0
        BY <1>4, <2>1, <3>2 DEF BindInv, MemoryWritten
      <4>2. CASE w \in Words
        BY <1>1, <3>2, <4>1, <4>2
      <4>3. w \in Words
        <5>1. Placed(manifest[t]) /\ manifest[t].kind \in Kinds /\ manifest[t].address \in Nat /\ manifest[t].record \in Nat
          BY <1>1, <1>2, RequirementParts DEF ValidManifest, Imports
        <5>2. ThunkWords \in Nat \ {0} /\ CodeWords \in 0..ImageWords /\ ImageWords \in Nat
          BY ImportBindingAssumption
        <5>3. CASE manifest[t].kind = "Function"
          BY <2>1, <5>1, <5>2, <5>3 DEF Placed, Written, Thunk, Words
        <5>4. CASE manifest[t].kind = "Variable"
          BY <2>1, <5>1, <5>2, <5>4 DEF Placed, Written, Words
        <5> QED
          BY <5>1, <5>3, <5>4 DEF Kinds
      <4> QED
        BY <4>2, <4>3
    <3> QED
      BY <3>1, <3>2
  <2>2. ASSUME NEW t \in Imports, t < i + 1, manifest[t].kind = "Variable",
               \A j \in Imports : manifest[j].kind = "Function" => manifest[t].record \notin Thunk(manifest[j])
        PROVE  memory'[manifest[t].record] = t
    <3> DEFINE w == manifest[t].record
    <3>1. CASE t = i
      <4>1. w \in Written(manifest[i])
        BY <2>2, <3>1 DEF Written
      <4> QED
        BY <1>1, <3>1, <4>1
    <3>2. CASE t # i
      <4>1. t < i /\ memory[w] = t
        BY <1>4, <2>2, <3>2 DEF BindInv, MemoryWritten
      <4>2. w \notin Written(manifest[i])
        <5>1. w # manifest[i].record
          BY <1>1, <3>2 DEF ValidManifest, NoAddressConflict, Imports
        <5>2. manifest[i].kind = "Function" => w \notin Thunk(manifest[i])
          BY <1>1, <2>2
        <5> QED
          BY <5>1, <5>2 DEF Written
      <4>3. w \in Words
        <5>1. manifest[t].record < ImageWords /\ manifest[t].record \in Nat /\ ImageWords \in Nat
          BY <1>1, <1>2, RequirementParts, ImportBindingAssumption DEF ValidManifest, Placed, Imports
        <5> QED
          BY <5>1 DEF Words
      <4> QED
        BY <1>1, <4>1, <4>2, <4>3
    <3> QED
      BY <3>1, <3>2
  <2> QED
    BY <1>1, <1>2, <2>1, <2>2 DEF MemoryWritten
<1> QED
  BY <1>5, <1>6, <1>8, <1>9, <1>10 DEF BindInv

\* The binding's own steps.
LEMMA BindingSteps ==
    ASSUME BindInv, [Next]_vars
    PROVE  BindInv'
<1>1. CASE UNCHANGED vars
  <2>1. UNCHANGED <<phase, manifest, claims, bindings, accepted, due, tables, mapping, externs, memory, next>>
    BY <1>1 DEF vars, composeVars, attachVars
  <2>2. TypeOK' /\ Validated'
    BY <2>1 DEF BindInv, TypeOK, Validated, Imports
  <2>3. BindingsMade'
    BY <2>1 DEF BindInv, BindingsMade
  <2>4. Attached' /\ MemoryWritten'
    BY <2>1, AttachKept DEF attachVars
  <2> QED
    BY <2>2, <2>3, <2>4 DEF BindInv
<1>2. CASE Clear \/ \E n \in 0..MaxClaims : \E list \in [1..n -> Claims] : Resolve(list)
  BY <1>2, ClaimSteps
<1>3. CASE /\ Len(bindings) < Len(manifest)
           /\ \E b \in Proposed(manifest[Len(bindings) + 1]) : BindNext(b)
  BY <1>3, WalkSteps
<1>4. CASE Submit \/ Validate \/ CreateTables \/ AttachFails \/ FinishAttach
  BY <1>4, PhaseSteps
<1>5. CASE AttachNext
  BY <1>5, AttachSteps
<1>6. CASE \E k \in DOMAIN bindings : ApplyAgain(k)
  BY <1>6, ApplyAgainSteps
<1> QED
  BY <1>1, <1>2, <1>3, <1>4, <1>5, <1>6 DEF Next

-----------------------------------------------------------------------------
(* From the file to the loaded module *)

\* No step but StateManifest touches the manifest.
LEMMA ManifestKept ==
    ASSUME [Next]_vars
    PROVE  manifest' = manifest
BY DEF Next, vars, Clear, Resolve, BindNext, ApplyAgain, Submit, Validate, CreateTables, AttachNext, AttachFails, FinishAttach

\* The embedder states a finite report, every import of it once.
LEMMA StateSteps ==
    ASSUME XexInv, ReportStated, StateManifest
    PROVE  BindInv' /\ ReportStated'
<1> DEFINE n == Cardinality(DOMAIN imports)
<1>1. PICK order \in Bijection(1..n, DOMAIN imports) :
          LET m == [i \in DOMAIN order |-> imports[order[i]]] IN
          /\ manifest' = m
          /\ mapping' = [i \in DOMAIN m |-> 0]
          /\ externs' = [i \in DOMAIN m |-> 0]
  BY DEF StateManifest
<1>2. /\ inspect = "done" /\ inspect' = "stated"
      /\ UNCHANGED <<phase, claims, bindings, accepted, due, tables, memory, next, imports>>
  BY DEF StateManifest, composeVars
<1>3. n \in Nat
  BY FS_CardinalityType DEF XexInv, ImportsListed
<1>4. order \in [1..n -> DOMAIN imports] /\ \A k \in DOMAIN imports : \E i \in 1..n : order[i] = k
  BY <1>1 DEF Bijection, Surjection
<1> DEFINE m == [i \in 1..n |-> imports[order[i]]]
<1>5. manifest' = m /\ mapping' = [i \in DOMAIN m |-> 0] /\ externs' = [i \in DOMAIN m |-> 0]
  BY <1>1, <1>4
<1> HIDE DEF n
<1>6. m \in Seq(Requirement)
  <2>1. \A i \in 1..n : imports[order[i]] \in Requirement
    BY <1>4 DEF XexInv, ImportsListed
  <2>2. m \in [1..n -> Requirement]
    BY <2>1
  <2> HIDE DEF m
  <2> QED
    BY <1>3, <2>2
<1>7. (manifest \in Seq(Requirement) /\ Fresh(manifest))'
  <2>1. Fresh(<<>>)
    BY <1>2 DEF ReportStated
  <2>2. /\ phase = "composing" /\ claims = <<>> /\ accepted = {} /\ bindings = <<>> /\ due = <<>> /\ tables = {}
        /\ memory = [w \in Words |-> 0] /\ next = 1
    BY <2>1 DEF Fresh
  <2> HIDE DEF m
  <2> QED
    BY <1>2, <1>5, <1>6, <2>2 DEF Fresh
<1>8. (manifest \in Seq(Requirement) /\ Fresh(manifest))' => BindInv'
  BY FreshBinds, PTL
<1>9. ReportStated'
  <2>1. ASSUME NEW k \in DOMAIN imports' PROVE \E i \in Imports' : manifest'[i] = imports'[k]
    <3>1. PICK i \in 1..n : order[i] = k
      BY <1>2, <1>4
    <3>2. i \in DOMAIN m /\ m[i] = imports[k]
      BY <3>1
    <3> HIDE DEF m
    <3> QED
      BY <1>2, <1>5, <3>2 DEF Imports
  <2> QED
    BY <1>2, <2>1 DEF ReportStated
<1> QED
  BY <1>7, <1>8, <1>9

\* The binding is as described at every point of the composed system.
THEOREM BindingInvariant == InspectedSpec => [](BindInv /\ ReportStated)
<1>1. InspectedInit => BindInv /\ ReportStated
  <2> SUFFICES ASSUME InspectedInit PROVE BindInv /\ ReportStated
    OBVIOUS
  <2>1. <<>> \in Seq(Requirement)
    OBVIOUS
  <2>2. manifest \in Seq(Requirement) /\ Fresh(manifest)
    <3>1. PICK m \in Seq(Requirement) : Fresh(m)
      BY <2>1, ImportBindingAssumption DEF InspectedInit, Init
    <3> QED
      BY <3>1 DEF Fresh
  <2>3. CASE Xex!XexInit /\ Fresh(<<>>)
    BY <2>2, <2>3, FreshBinds DEF ReportStated, Xex!XexInit, Xex!Unopened
  <2>4. CASE Xex!Unopened("unused")
    BY <2>2, <2>4, FreshBinds DEF ReportStated, Xex!Unopened
  <2> QED
    BY <2>3, <2>4 DEF InspectedInit
<1>2. XexInv /\ BindInv /\ ReportStated /\ [InspectedNext]_allVars => (BindInv /\ ReportStated)'
  <2> SUFFICES ASSUME XexInv, BindInv, ReportStated, [InspectedNext]_allVars
               PROVE  BindInv' /\ ReportStated'
    OBVIOUS
  <2>1. CASE Xex!InspectXex /\ UNCHANGED vars
    <3>1. BindInv'
      BY <2>1, BindingSteps
    <3>2. inspect \notin {"stated", "unused"} /\ inspect' # "stated"
      BY <2>1 DEF Xex!InspectXex, Xex!ValidateHeader, Xex!LoadXex, Xex!CopyImage, Xex!BeginImports,
                  Xex!ParseLibrary, Xex!Describe, Xex!RefuseLoaded
    <3>3. Fresh(<<>>)'
      BY <2>1, <3>2 DEF ReportStated, Fresh, vars, composeVars, attachVars
    <3> QED
      BY <3>1, <3>2, <3>3 DEF ReportStated
  <2>2. CASE StateManifest
    BY <2>2, StateSteps
  <2>3. CASE inspect \in {"stated", "unused"} /\ [Next]_vars /\ UNCHANGED inspectVars
    <3>1. BindInv'
      BY <2>3, BindingSteps
    <3>2. manifest' = manifest
      BY <2>3, ManifestKept
    <3>3. inspect' = inspect /\ imports' = imports
      BY <2>3 DEF inspectVars
    <3> QED
      BY <2>3, <3>1, <3>2, <3>3 DEF ReportStated, Imports
  <2>4. CASE UNCHANGED allVars
    <3>1. UNCHANGED vars /\ UNCHANGED inspectVars
      BY <2>4 DEF allVars
    <3>2. BindInv'
      BY <3>1, BindingSteps
    <3>3. Fresh(<<>>)' = Fresh(<<>>) /\ manifest' = manifest /\ inspect' = inspect /\ imports' = imports
      BY <3>1 DEF Fresh, vars, composeVars, attachVars, inspectVars
    <3> QED
      BY <3>2, <3>3 DEF ReportStated, Imports
  <2> QED
    BY <2>1, <2>2, <2>3, <2>4 DEF InspectedNext
<1> QED
  BY <1>1, <1>2, InspectionInvariant, PTL DEF InspectedSpec

\* The types of both parts.
THEOREM InspectedTypes == InspectedSpec => []InspectedTypeOK
<1>1. XexInv /\ BindInv => InspectedTypeOK
  BY DEF InspectedTypeOK, XexInv, BindInv
<1> QED
  BY <1>1, InspectionInvariant, BindingInvariant, PTL

\* The resolver is never given two tables of one library.
THEOREM TablesAreDistinct == InspectedSpec => []OneTablePerLibrary
<1>1. BindInv => OneTablePerLibrary
  <2> SUFFICES ASSUME BindInv, NEW t \in tables, NEW u \in tables, manifest[t].library = manifest[u].library
               PROVE  t = u
    BY DEF OneTablePerLibrary
  <2>1. tables = {k \in Imports : k < next /\ StartsTable(k)}
    BY DEF BindInv, Attached
  <2>2. manifest \in Seq(Requirement)
    BY DEF BindInv, TypeOK
  <2>3. next # 1
    <3>1. t < next /\ t \in Nat \ {0}
      BY <2>1, <2>2, RequirementParts
    <3> QED
      BY <3>1 DEF BindInv, TypeOK
  <2>4. ValidManifest(manifest)
    BY <2>3 DEF BindInv, Attached, Validated
  <2> QED
    BY <2>1, <2>2, <2>4, OneStart
<1> QED
  BY <1>1, BindingInvariant, PTL

\* All of a loaded module's imports are attached.
LEMMA AllAttached ==
    ASSUME BindInv, phase = "loaded", NEW i \in Imports
    PROVE  i < next /\ ValidManifest(manifest) /\ ValidBindings(manifest, bindings)
<1>1. manifest \in Seq(Requirement) /\ next \in 1..(Len(manifest) + 1) /\ next \notin Imports
  BY DEF BindInv, TypeOK, Attached
<1>2. Imports = 1..Len(manifest) /\ Len(manifest) \in Nat
  BY <1>1 DEF Imports
<1>3. i < next
  BY <1>1, <1>2
<1> QED
  BY <1>3 DEF BindInv, Validated

\* Every function import of a loaded module calls what was due to it: the service
\* that had claimed its export when Apply was called last, or else the handler
\* the embedder bound to it.
THEOREM ImportsCallTheirService == InspectedSpec => []ImportsReachTheirService
<1>1. BindInv => ImportsReachTheirService
  <2> SUFFICES ASSUME BindInv, phase = "loaded", NEW i \in Imports, manifest[i].kind = "Function"
               PROVE  externs[i] # 0 /\ bindings[externs[i]].handler = due[i]
    BY DEF ImportsReachTheirService
  <2>1. i < next /\ ValidBindings(manifest, bindings) /\ manifest \in Seq(Requirement)
    BY AllAttached DEF BindInv, TypeOK
  <2>2. externs[i] = i /\ i # 0
    BY <2>1, RequirementParts DEF BindInv, Attached
  <2>3. i \in DOMAIN bindings
    <3>1. bindings \in Seq(Binding)
      BY DEF BindInv, BindingsMade
    <3> QED
      BY <2>1, <3>1 DEF ValidBindings, Imports
  <2> QED
    BY <2>2, <2>3 DEF BindInv, BindingsMade
<1> QED
  BY <1>1, BindingInvariant, PTL

\* Every variable's record holds its own value, outside thunks.
THEOREM VariablesHoldTheirValue == InspectedSpec => []RecordsHoldTheirValue
<1>1. BindInv => RecordsHoldTheirValue
  BY AllAttached DEF RecordsHoldTheirValue, BindInv, MemoryWritten
<1> QED
  BY <1>1, BindingInvariant, PTL

\* Every word that the inspection has made a stub, attaching makes a call again.
THEOREM StubsAreReplaced == InspectedSpec => []NoStubLeftBehind
<1>1. XexInv /\ BindInv /\ ReportStated => NoStubLeftBehind
  <2> SUFFICES ASSUME XexInv, BindInv, ReportStated, phase = "loaded", inspect = "stated",
                      NEW w \in Words \ Xex!VariableRecords, image[w] # file.image[w]
               PROVE  memory[w] # 0
    BY DEF NoStubLeftBehind
  <2>1. ImportsListed
    BY DEF XexInv
  <2>2. ~RecordAt(w)
    BY <2>1, ReportedSets
  <2>3. InThunk(w)
    BY <2>2 DEF XexInv, ImportsKept, Reading
  <2>4. PICK k \in DOMAIN imports : imports[k].kind = "Function" /\ w \in Xex!Thunk(imports[k].address)
    BY <2>3 DEF InThunk, ThunkAt
  <2>5. PICK i \in Imports : manifest[i] = imports[k]
    BY DEF ReportStated
  <2>6. w \in Written(manifest[i])
    BY <2>4, <2>5 DEF Written, Thunk, Xex!Thunk
  <2>7. i < next
    BY AllAttached
  <2> QED
    BY <2>6, <2>7 DEF BindInv, MemoryWritten
<1> QED
  BY <1>1, InspectionInvariant, BindingInvariant, PTL
=============================================================================
