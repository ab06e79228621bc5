-------------------------- MODULE GuestCallsProofs --------------------------
(***************************************************************************)
(* Theorems about GuestCalls, for any number of functions, any layout on   *)
(* pages, any budgets and any nesting depth.  First, how the budget scopes *)
(* and call frames of GuestExecutionBudgetScope and GuestCallFrame nest on *)
(* the host call stack, and the lemmas that say what each operation of     *)
(* GuestCalls on the stack does to that nesting; then the types, the       *)
(* override table and the executable writes; last, that whatever fails     *)
(* below a host call fails the host call, and machine code that a write    *)
(* has outdated runs no further.                                           *)
(***************************************************************************)
EXTENDS GuestCalls, SequenceTheorems, TLAPS

-----------------------------------------------------------------------------
(* Nesting *)

IsExec(s, i) == s[i].kind = "exec"

\* The exec at i runs a body and saved the scope it replaced: the exec next
\* below it, or none.
ScopeOK(s, i) ==
    /\ i < Len(s) /\ s[i + 1].kind = "guest"
    /\ s[i].prev < i
    /\ s[i].prev = 0 => s[i].psp = 0
    /\ s[i].prev # 0 => IsExec(s, s[i].prev) /\ s[i].psp = s[s[i].prev].psp + 1
    /\ \A j \in 1..(i - 1) : IsExec(s, j) => j <= s[i].prev /\ s[j].psp < s[i].psp

\* a is the innermost exec of s, or 0, and p counts the call frames pushed.
Scoped(s, a, p) ==
    /\ s \in Seq(Frames)
    /\ a \in 0..Len(s)
    /\ a # 0 => IsExec(s, a) /\ p = s[a].psp + 1
    /\ a = 0 => p = 0
    /\ \A i \in 1..Len(s) : IsExec(s, i) => i <= a /\ ScopeOK(s, i)
    /\ \A i \in 1..Len(s) : s[i].kind = "guest" => \E j \in 1..(i - 1) : IsExec(s, j)

\* s and t have frames with the same kinds and saved scopes up to position n.
Agree(s, t, n) ==
    \A k \in 1..n : t[k].kind = s[k].kind /\ t[k].prev = s[k].prev /\ t[k].psp = s[k].psp

\* What the stack's type says of one frame.
LEMMA FrameFields ==
    ASSUME NEW s \in Seq(Frames)
    PROVE  /\ Len(s) \in Nat
           /\ \A i \in 1..Len(s) : s[i].prev \in Nat /\ s[i].psp \in Nat /\ s[i] \in Frames
<1>1. \A i \in 1..Len(s) : s[i] \in Frames
  BY ElementOfSeq
<1>2. \A f \in Frames : f.prev \in Nat /\ f.psp \in Nat
  BY DEF Frames
<1> QED BY <1>1, <1>2, LenProperties

\* The stack after its innermost activations have returned.
LEMMA PrefixOfStack ==
    ASSUME NEW s \in Seq(Frames), NEW n \in 0..Len(s)
    PROVE  /\ SubSeq(s, 1, n) \in Seq(Frames)
           /\ Len(SubSeq(s, 1, n)) = n
           /\ \A i \in 1..n : SubSeq(s, 1, n)[i] = s[i]
<1>1. Len(s) \in Nat /\ n \in Int
  BY FrameFields
<1>2. \A i \in 1..n : s[i] \in Frames
  BY <1>1, FrameFields
<1>3. /\ SubSeq(s, 1, n) \in Seq(Frames)
      /\ Len(SubSeq(s, 1, n)) = IF 1 <= n THEN n - 1 + 1 ELSE 0
      /\ \A i \in 1..(n - 1 + 1) : SubSeq(s, 1, n)[i] = s[1 + i - 1]
  BY <1>1, <1>2, SubSeqProperties
<1>4. n - 1 + 1 = n /\ \A i \in 1..n : 1 + i - 1 = i
  BY <1>1
<1>5. Len(SubSeq(s, 1, n)) = n
  BY <1>1, <1>3
<1> QED BY <1>3, <1>4, <1>5

\* What a scope saved depends on nothing above the guest function it entered.
LEMMA ScopePrefix ==
    ASSUME NEW s \in Seq(Frames), NEW t \in Seq(Frames), NEW i \in 1..Len(s), ScopeOK(s, i),
           i < Len(t), Agree(s, t, i + 1)
    PROVE  ScopeOK(t, i)
<1>1. Len(s) \in Nat /\ Len(t) \in Nat /\ i \in Nat
  BY FrameFields
<1>2. \A k \in 1..(i + 1) : t[k].kind = s[k].kind /\ t[k].prev = s[k].prev /\ t[k].psp = s[k].psp
  BY DEF Agree
<1>3. t[i].prev = s[i].prev /\ t[i].psp = s[i].psp /\ t[i + 1].kind = s[i + 1].kind
  BY <1>1, <1>2
<1>4. s[i].prev \in Nat
  BY FrameFields
<1>5. s[i].prev # 0 => s[i].prev \in 1..(i + 1)
  BY <1>1, <1>4 DEF ScopeOK
<1>6. t[i].prev # 0 => IsExec(t, t[i].prev) /\ t[i].psp = t[t[i].prev].psp + 1
  BY <1>2, <1>3, <1>5 DEF ScopeOK, IsExec
<1>7. \A j \in 1..(i - 1) : IsExec(t, j) => j <= t[i].prev /\ t[j].psp < t[i].psp
  <2> SUFFICES ASSUME NEW j \in 1..(i - 1), IsExec(t, j)
               PROVE  j <= t[i].prev /\ t[j].psp < t[i].psp
    OBVIOUS
  <2>1. j \in 1..(i + 1)
    BY <1>1
  <2>2. IsExec(s, j) /\ t[j].psp = s[j].psp
    BY <2>1, <1>2 DEF IsExec
  <2> QED BY <2>2, <1>3 DEF ScopeOK
<1> QED BY <1>3, <1>6, <1>7 DEF ScopeOK

\* A stack that agrees with s on a prefix that ends below no scope is scoped.
LEMMA ScopedPrefix ==
    ASSUME NEW s, NEW a, NEW p, Scoped(s, a, p), NEW t \in Seq(Frames), NEW n \in 0..Len(s),
           n <= Len(t), Agree(s, t, n), a < n \/ a = 0,
           \A i \in (n + 1)..Len(t) : /\ t[i].kind # "exec"
                                      /\ t[i].kind = "guest" => a # 0
    PROVE  Scoped(t, a, p)
<1>1. s \in Seq(Frames) /\ Len(s) \in Nat /\ Len(t) \in Nat /\ n \in Nat /\ a \in Nat
  BY FrameFields DEF Scoped
<1>2. \A k \in 1..n : k \in 1..Len(s) /\ k \in 1..Len(t)
                      /\ t[k].kind = s[k].kind /\ t[k].prev = s[k].prev /\ t[k].psp = s[k].psp
  BY <1>1 DEF Agree
<1>3. \A i \in 1..Len(t) : IsExec(t, i) => i \in 1..n
  BY <1>1 DEF IsExec
<1>4. ASSUME NEW i \in 1..Len(t), IsExec(t, i)
      PROVE  i <= a /\ ScopeOK(t, i)
  <2>1. i \in 1..n /\ i \in 1..Len(s) /\ IsExec(s, i)
    BY <1>2, <1>3, <1>4 DEF IsExec
  <2>2. i <= a /\ ScopeOK(s, i)
    BY <2>1 DEF Scoped
  <2>3. i + 1 <= n
    BY <2>1, <2>2, <1>1
  <2>4. Agree(s, t, i + 1) /\ i < Len(t)
    BY <2>3, <1>1, <1>2 DEF Agree
  <2> QED BY <2>1, <2>2, <2>4, <1>1, ScopePrefix
<1>5. a # 0 => a \in 1..n /\ IsExec(t, a) /\ p = t[a].psp + 1
  BY <1>1, <1>2 DEF Scoped, IsExec
<1>6. ASSUME NEW i \in 1..Len(t), t[i].kind = "guest"
      PROVE  \E j \in 1..(i - 1) : IsExec(t, j)
  <2>1. CASE i \in 1..n
    <3>1. PICK j \in 1..(i - 1) : IsExec(s, j)
      BY <1>2, <1>6, <2>1 DEF Scoped
    <3>2. j \in 1..n
      BY <2>1, <1>1
    <3> QED BY <3>1, <3>2, <1>2 DEF IsExec
  <2>2. CASE i \notin 1..n
    <3>1. a # 0 /\ i \in (n + 1)..Len(t)
      BY <2>2, <1>1, <1>6
    <3>2. a \in 1..(i - 1)
      BY <3>1, <1>1, <1>5
    <3> QED BY <3>1, <3>2, <1>5
  <2> QED BY <2>1, <2>2
<1>7. a \in 0..Len(t) /\ (a = 0 => p = 0)
  BY <1>1, <1>5 DEF Scoped
<1> QED BY <1>4, <1>5, <1>6, <1>7 DEF Scoped

\* The active exec runs a guest function, so it is never on top.
LEMMA ActiveHasGuest ==
    ASSUME NEW s, NEW a, NEW p, Scoped(s, a, p)
    PROVE  /\ s \in Seq(Frames) /\ Len(s) \in Nat /\ a \in Nat /\ p \in Nat
           /\ a # 0 => a \in 1..Len(s) /\ a < Len(s) /\ s[a + 1].kind = "guest"
<1>1. s \in Seq(Frames) /\ Len(s) \in Nat /\ a \in Nat
  BY FrameFields DEF Scoped
<1>2. ASSUME a # 0
      PROVE  a \in 1..Len(s) /\ a < Len(s) /\ s[a + 1].kind = "guest" /\ p \in Nat
  <2>1. a \in 1..Len(s) /\ IsExec(s, a) /\ p = s[a].psp + 1
    BY <1>1, <1>2 DEF Scoped
  <2>2. ScopeOK(s, a)
    BY <2>1 DEF Scoped
  <2> QED BY <1>1, <2>1, <2>2, FrameFields DEF ScopeOK
<1>3. a = 0 => p = 0
  BY DEF Scoped
<1> QED BY <1>1, <1>2, <1>3

\* Changing other fields of the frames keeps the scopes.
LEMMA ScopedSame ==
    ASSUME NEW s, NEW a, NEW p, Scoped(s, a, p), NEW t \in Seq(Frames),
           Len(t) = Len(s), Agree(s, t, Len(s))
    PROVE  Scoped(t, a, p)
<1>1. Len(s) \in Nat /\ a \in Nat /\ (a < Len(s) \/ a = 0)
  BY ActiveHasGuest
<1>2. Len(s) \in 0..Len(s) /\ (Len(s) + 1)..Len(t) = {}
  BY <1>1
<1> QED BY <1>1, <1>2, ScopedPrefix

\* A call, a handler, an import or a guest function inside a guest call.
LEMMA ScopedPush ==
    ASSUME NEW s, NEW a, NEW p, Scoped(s, a, p), NEW f \in Frames,
           f.kind # "exec", f.kind = "guest" => a # 0
    PROVE  Scoped(Append(s, f), a, p)
<1> DEFINE t == Append(s, f)
<1>1. s \in Seq(Frames) /\ Len(s) \in Nat /\ a \in Nat /\ (a < Len(s) \/ a = 0)
  BY ActiveHasGuest
<1>2. t \in Seq(Frames) /\ Len(t) = Len(s) + 1 /\ t[Len(s) + 1] = f
      /\ \A i \in 1..Len(s) : t[i] = s[i]
  BY <1>1, AppendProperties
<1> HIDE DEF t
<1>3. Agree(s, t, Len(s))
  BY <1>2 DEF Agree
<1>4. \A i \in (Len(s) + 1)..Len(t) : t[i] = f
  BY <1>1, <1>2
<1>5. Scoped(t, a, p)
  BY <1>1, <1>2, <1>3, <1>4, ScopedPrefix
<1> QED BY <1>5 DEF t

\* The innermost activation returns, and it is not the body of a guest call.
LEMMA ScopedPop ==
    ASSUME NEW s, NEW a, NEW p, Scoped(s, a, p), s # <<>>, a # Len(s) - 1 \/ a = 0
    PROVE  Scoped(SubSeq(s, 1, Len(s) - 1), a, p)
<1> DEFINE n == Len(s) - 1
           t == SubSeq(s, 1, n)
<1>1. s \in Seq(Frames) /\ Len(s) \in Nat /\ a \in Nat /\ (a < Len(s) \/ a = 0)
  BY ActiveHasGuest
<1>2. Len(s) # 0
  BY <1>1, EmptySeq
<1>3. n \in Nat /\ n \in 0..Len(s) /\ (a < n \/ a = 0)
  BY <1>1, <1>2
<1>5. t \in Seq(Frames) /\ Len(t) = n /\ \A i \in 1..n : t[i] = s[i]
  BY <1>1, <1>3, PrefixOfStack
<1> HIDE DEF n, t
<1>6. Agree(s, t, n) /\ (n + 1)..Len(t) = {}
  BY <1>3, <1>5 DEF Agree
<1>7. Scoped(t, a, p)
  BY <1>3, <1>5, <1>6, ScopedPrefix
<1> QED BY <1>7 DEF t, n

\* ExecuteGuestFunction enters: a budget scope, a call frame and the body.
LEMMA ScopedEnter ==
    ASSUME NEW s, NEW a, NEW p, Scoped(s, a, p), NEW e \in Frames, NEW g \in Frames,
           e.kind = "exec", e.prev = a, e.psp = p, g.kind = "guest"
    PROVE  Scoped(s \o <<e, g>>, Len(s) + 1, p + 1)
<1> DEFINE t == s \o <<e, g>>
           b == Len(s) + 1
<1>1. s \in Seq(Frames) /\ Len(s) \in Nat /\ a \in Nat /\ p \in Nat
      /\ (a # 0 => a \in 1..Len(s) /\ a < Len(s))
  BY ActiveHasGuest
<1>2. t \in Seq(Frames) /\ Len(t) = Len(s) + 2 /\ t[b] = e /\ t[b + 1] = g
      /\ \A i \in 1..Len(s) : t[i] = s[i]
  <2>1. <<e, g>> \in Seq(Frames) /\ Len(<<e, g>>) = 2
    OBVIOUS
  <2>2. /\ t \in Seq(Frames)
        /\ Len(t) = Len(s) + 2
        /\ \A i \in 1..(Len(s) + 2) : t[i] = IF i <= Len(s) THEN s[i] ELSE <<e, g>>[i - Len(s)]
    BY <1>1, <2>1, ConcatProperties
  <2>3. <<e, g>>[b - Len(s)] = e /\ <<e, g>>[b + 1 - Len(s)] = g
    BY <1>1
  <2> QED BY <1>1, <2>2, <2>3
<1> HIDE DEF t
<1>3. \A i \in 1..Len(s) : IsExec(t, i) => IsExec(s, i) /\ i <= a /\ ScopeOK(s, i)
  BY <1>2 DEF IsExec, Scoped
<1>4. ASSUME NEW i \in 1..Len(s), IsExec(t, i)
      PROVE  ScopeOK(t, i) /\ i <= a /\ t[i].psp < p
  <2>1. IsExec(s, i) /\ i <= a /\ ScopeOK(s, i)
    BY <1>3, <1>4
  <2>2. i + 1 <= Len(s)
    BY <2>1, <1>1 DEF ScopeOK
  <2>3. Agree(s, t, i + 1) /\ i < Len(t)
    BY <2>2, <1>1, <1>2 DEF Agree
  <2>4. ScopeOK(t, i)
    BY <2>1, <2>3, <1>1, <1>2, ScopePrefix
  <2>5. a # 0 /\ a \in 1..Len(s) /\ IsExec(s, a) /\ p = s[a].psp + 1 /\ ScopeOK(s, a)
    BY <2>1, <1>1 DEF Scoped
  <2>6. s[i].psp \in Nat /\ s[a].psp \in Nat
    BY <1>1, <2>5, FrameFields
  <2>7. CASE i = a
    BY <2>7, <2>1, <2>4, <2>5, <2>6, <1>2
  <2>8. CASE i # a
    <3>1. i \in 1..(a - 1)
      BY <2>1, <2>5, <2>8, <1>1
    <3>2. s[i].psp < s[a].psp
      BY <3>1, <2>1, <2>5 DEF ScopeOK
    <3> QED BY <3>2, <2>1, <2>4, <2>5, <2>6, <1>2
  <2> QED BY <2>7, <2>8
<1>5. ScopeOK(t, b)
  <2>1. b < Len(t) /\ t[b + 1].kind = "guest" /\ t[b].prev = a /\ t[b].psp = p /\ a < b
    BY <1>1, <1>2
  <2>2. a = 0 => p = 0
    BY DEF Scoped
  <2>3. a # 0 => IsExec(t, a) /\ p = t[a].psp + 1
    BY <1>1, <1>2 DEF Scoped, IsExec
  <2>4. \A j \in 1..(b - 1) : IsExec(t, j) => j <= a /\ t[j].psp < p
    BY <1>1, <1>4
  <2> QED BY <2>1, <2>2, <2>3, <2>4 DEF ScopeOK
<1>6. \A i \in 1..Len(t) : i \in 1..Len(s) \/ i = b \/ i = b + 1
  BY <1>1, <1>2
<1>7. \A i \in 1..Len(t) : IsExec(t, i) => i <= b /\ ScopeOK(t, i)
  BY <1>1, <1>2, <1>4, <1>5, <1>6 DEF IsExec
<1>8. IsExec(t, b) /\ p + 1 = t[b].psp + 1 /\ b \in 0..Len(t) /\ b # 0
  BY <1>1, <1>2 DEF IsExec
<1>9. ASSUME NEW i \in 1..Len(t), t[i].kind = "guest"
      PROVE  \E j \in 1..(i - 1) : IsExec(t, j)
  <2>1. CASE i \in 1..Len(s)
    <3>1. PICK j \in 1..(i - 1) : IsExec(s, j)
      BY <1>2, <1>9, <2>1 DEF Scoped
    <3>2. j \in 1..Len(s)
      BY <2>1, <1>1
    <3> QED BY <3>1, <3>2, <1>2 DEF IsExec
  <2>2. CASE i = b
    BY <2>2, <1>2, <1>9
  <2>3. CASE i = b + 1
    <3>1. b \in 1..(i - 1)
      BY <2>3, <1>1
    <3> QED BY <3>1, <1>8
  <2> QED BY <1>6, <2>1, <2>2, <2>3
<1> HIDE DEF b
<1>10. Scoped(t, b, p + 1)
  BY <1>2, <1>7, <1>8, <1>9 DEF Scoped
<1> QED BY <1>10 DEF t, b

\* ExecuteGuestFunction returns: what its scope saved is what holds below it.
LEMMA ScopedLeave ==
    ASSUME NEW s, NEW a, NEW p, Scoped(s, a, p), a # 0
    PROVE  Scoped(SubSeq(s, 1, a - 1), s[a].prev, s[a].psp)
<1> DEFINE n == a - 1
           t == SubSeq(s, 1, n)
           b == s[a].prev
<1>1. s \in Seq(Frames) /\ Len(s) \in Nat /\ a \in 1..Len(s) /\ n \in Nat /\ n < Len(s)
  BY ActiveHasGuest
<1>2. IsExec(s, a) /\ ScopeOK(s, a)
  BY <1>1 DEF Scoped
<1>3. n \in 0..Len(s)
  BY <1>1
<1>4. t \in Seq(Frames) /\ Len(t) = n /\ \A i \in 1..n : t[i] = s[i]
  BY <1>1, <1>3, PrefixOfStack
<1>5. b \in Nat /\ s[a].psp \in Nat /\ b < a
  BY <1>1, <1>2, FrameFields DEF ScopeOK
<1> HIDE DEF t
<1>6. ASSUME NEW i \in 1..Len(t), IsExec(t, i)
      PROVE  i <= b /\ ScopeOK(t, i)
  <2>1. i \in 1..n /\ i \in 1..Len(s) /\ IsExec(s, i) /\ i \in 1..(a - 1)
    BY <1>1, <1>4, <1>6 DEF IsExec
  <2>2. i <= b /\ ScopeOK(s, i)
    BY <2>1, <1>2 DEF Scoped, ScopeOK
  <2>3. i + 1 # a
    BY <2>2, <1>2 DEF ScopeOK, IsExec
  <2>4. i + 1 <= n /\ i < Len(t)
    BY <2>1, <2>3, <1>1, <1>4
  <2>5. Agree(s, t, i + 1)
    BY <2>4, <1>1, <1>4 DEF Agree
  <2> QED BY <2>1, <2>2, <2>4, <2>5, <1>1, <1>4, ScopePrefix
<1>7. b # 0 => b \in 1..n /\ IsExec(t, b) /\ s[a].psp = t[b].psp + 1
  BY <1>1, <1>2, <1>4, <1>5 DEF ScopeOK, IsExec
<1>8. b = 0 => s[a].psp = 0
  BY <1>2 DEF ScopeOK
<1>9. ASSUME NEW i \in 1..Len(t), t[i].kind = "guest"
      PROVE  \E j \in 1..(i - 1) : IsExec(t, j)
  <2>1. i \in 1..n /\ i \in 1..Len(s) /\ s[i].kind = "guest"
    BY <1>1, <1>4, <1>9
  <2>2. PICK j \in 1..(i - 1) : IsExec(s, j)
    BY <2>1 DEF Scoped
  <2>3. j \in 1..n
    BY <2>1, <1>1
  <2> QED BY <2>2, <2>3, <1>4 DEF IsExec
<1>10. b \in 0..Len(t)
  BY <1>1, <1>4, <1>5
<1> HIDE DEF b
<1>11. Scoped(t, b, s[a].psp)
  BY <1>4, <1>6, <1>7, <1>8, <1>9, <1>10 DEF Scoped
<1> QED BY <1>11 DEF t, n, b

-----------------------------------------------------------------------------
(* The operations of GuestCalls on the stack *)

\* The same activations with the same saved scopes.
SameShape(s, t) == t \in Seq(Frames) /\ Len(t) = Len(s) /\ Agree(s, t, Len(s))

\* Two changes of frame contents compose.
LEMMA SameShapeTrans ==
    ASSUME NEW s \in Seq(Frames), NEW t, NEW u, SameShape(s, t), SameShape(t, u)
    PROVE  SameShape(s, u)
BY DEF SameShape, Agree

\* A new activation.
LEMMA FrameTyped ==
    ASSUME NEW f \in Functions,
           NEW kind \in {"call", "exec", "guest", "handler", "import", "interp"}
    PROVE  Frame(kind, f) \in Frames /\ Frame(kind, f).kind = kind
BY DEF Frame, Frames, Results, Reasons

\* Replacing one frame by one that saves the same.
LEMMA ReplaceFrame ==
    ASSUME NEW s \in Seq(Frames), NEW i \in 1..Len(s), NEW g \in Frames,
           g.kind = s[i].kind, g.prev = s[i].prev, g.psp = s[i].psp
    PROVE  SameShape(s, [s EXCEPT ![i] = g])
<1> DEFINE t == [s EXCEPT ![i] = g]
<1>1. t \in Seq(Frames) /\ Len(t) = Len(s) /\ \A k \in 1..Len(s) : t[k] = IF k = i THEN g ELSE s[k]
  BY ExceptSeq
<1> HIDE DEF t
<1>2. SameShape(s, t)
  BY <1>1 DEF SameShape, Agree
<1> QED BY <1>2 DEF t

\* The MarkGuest... functions change only reason and result of one exec.
LEMMA MarkShape ==
    ASSUME NEW s \in Seq(Frames), active = 0 \/ active \in 1..Len(s),
           NEW reason \in Reasons, NEW failure \in Results
    PROVE  SameShape(s, Mark(s, reason, failure))
<1>1. CASE active # 0 /\ s[active].reason = "None"
  <2> DEFINE g == [s[active] EXCEPT !.reason = reason]
             t == [s EXCEPT ![active] = g]
             h == [t[active] EXCEPT !.result = failure]
             u == [t EXCEPT ![active] = h]
  <2>1. active \in 1..Len(s) /\ s[active] \in Frames
    BY <1>1, FrameFields
  <2>2. g \in Frames /\ g.kind = s[active].kind /\ g.prev = s[active].prev /\ g.psp = s[active].psp
    BY <2>1 DEF Frames
  <2>3. SameShape(s, t)
    BY <2>1, <2>2, ReplaceFrame
  <2>4. t \in Seq(Frames) /\ active \in 1..Len(t) /\ t[active] \in Frames
    BY <2>1, <2>3, FrameFields DEF SameShape
  <2>5. h \in Frames /\ h.kind = t[active].kind /\ h.prev = t[active].prev /\ h.psp = t[active].psp
    BY <2>4 DEF Frames
  <2>6. SameShape(t, u)
    BY <2>4, <2>5, ReplaceFrame
  <2>7. Mark(s, reason, failure) = u
    BY <1>1 DEF Mark
  <2> HIDE DEF t, u
  <2> QED BY <2>3, <2>6, <2>7, SameShapeTrans
<1>2. CASE ~(active # 0 /\ s[active].reason = "None")
  BY <1>2 DEF Mark, SameShape, Agree
<1> QED BY <1>1, <1>2

\* Outdating running code changes no scope.
LEMMA OutdatedShape ==
    ASSUME NEW s \in Seq(Frames), NEW f
    PROVE  SameShape(s, Outdated(s, f))
<1> DEFINE t == [i \in 1..Len(s) |->
                    IF s[i].kind = "guest" /\ s[i].fn = f
                    THEN [s[i] EXCEPT !.stale = TRUE] ELSE s[i]]
<1>1. \A g \in Frames : LET h == [g EXCEPT !.stale = TRUE] IN
          h \in Frames /\ h.kind = g.kind /\ h.prev = g.prev /\ h.psp = g.psp
  BY DEF Frames
<1>2. Len(s) \in Nat /\ \A i \in 1..Len(s) : s[i] \in Frames
  BY FrameFields
<1>3. \A i \in 1..Len(s) : t[i] \in Frames /\ t[i].kind = s[i].kind
                           /\ t[i].prev = s[i].prev /\ t[i].psp = s[i].psp
  BY <1>1, <1>2
<1>4. t \in [1..Len(s) -> Frames]
  BY <1>3
<1>5. t \in Seq(Frames) /\ Len(t) = Len(s)
  BY <1>2, <1>4, IsASeq, LenProperties
<1>6. <<>> \o t = t
  BY <1>5, ConcatEmptySeq
<1>7. Outdated(s, f) = t
  BY <1>6 DEF Outdated
<1> HIDE DEF t
<1> QED BY <1>3, <1>5, <1>7 DEF SameShape, Agree

\* A call returning to the activation on top of s changes only its result.
LEMMA ReturnShape ==
    ASSUME NEW s \in Seq(Frames), NEW r \in Results, NEW before, ReturnTo(s, r, before),
           hostResult \in Results
    PROVE  SameShape(s, stack') /\ hostResult' \in Results /\ failed' \in BOOLEAN
<1>1. CASE s = <<>>
  BY <1>1 DEF ReturnTo, SameShape, Agree
<1>2. CASE s # <<>>
  <2>1. Len(s) \in 1..Len(s) /\ s[Len(s)] \in Frames
    <3>1. Len(s) \in Nat /\ Len(s) # 0
      BY <1>2, FrameFields, EmptySeq
    <3> QED BY <3>1, FrameFields
  <2> DEFINE g == [s[Len(s)] EXCEPT !.result = IF @ = "ok" THEN r ELSE @]
  <2>2. g \in Frames /\ g.kind = s[Len(s)].kind /\ g.prev = s[Len(s)].prev
        /\ g.psp = s[Len(s)].psp
    BY <2>1 DEF Frames
  <2>3. stack' = [s EXCEPT ![Len(s)] = g]
    BY <1>2 DEF ReturnTo
  <2>4. SameShape(s, stack')
    BY <2>1, <2>2, <2>3, ReplaceFrame
  <2> QED BY <2>4, <1>2 DEF ReturnTo
<1> QED BY <1>1, <1>2

-----------------------------------------------------------------------------
(* Executable writes *)

\* The inductive strengthening of StaleIsPending.  A page that is no longer
\* watched has had a write reported for it since the last drain, and then the
\* whole page is under the pending range: an unobserved second write to it
\* outdates nothing that the next drain will not remove.
WriteInv ==
    /\ cached \subseteq Functions
    /\ stale \subseteq cached
    /\ pending \subseteq Functions
    /\ stale \subseteq pending
    /\ \A p \in Pages \ watched : OnPage(p) \subseteq pending

\* The min/max merge of RecordVirtualWrite covers what it merges.
LEMMA HullCovers ==
    ASSUME NEW S \in SUBSET Functions
    PROVE  S \subseteq Hull(S) /\ Hull(S) \subseteq Functions
BY GuestCallsAssumption DEF Hull, Functions

\* A store, seen by the watch or not, keeps every outdated function pending.
LEMMA StoreKeepsWriteInv ==
    ASSUME WriteInv, NEW f \in Functions, NEW stk, StoreTo(f, stk)
    PROVE  WriteInv'
<1>1. f \in OnPage(PageOf[f]) /\ PageOf[f] \in Pages
  BY GuestCallsAssumption DEF OnPage
<1>2. \A p : OnPage(p) \subseteq Functions
  BY DEF OnPage
<1>3. cached' = cached /\ stale' = stale \cup ({f} \cap cached)
  BY DEF StoreTo
<1>4. CASE PageOf[f] \in watched
  <2> DEFINE p == PageOf[f]
  <2>1. watched' = watched \ {p} /\ pending' = Hull(pending \cup OnPage(p))
    BY <1>4 DEF StoreTo, RecordVirtualWrite
  <2>2. pending \cup OnPage(p) \in SUBSET Functions
    BY <1>2 DEF WriteInv
  <2>3. pending \cup OnPage(p) \subseteq pending' /\ pending' \subseteq Functions
    BY <2>1, <2>2, HullCovers
  <2>4. \A q \in Pages \ watched' : OnPage(q) \subseteq pending'
    <3> SUFFICES ASSUME NEW q \in Pages \ watched' PROVE OnPage(q) \subseteq pending'
      OBVIOUS
    <3>1. CASE q = p
      BY <3>1, <2>3
    <3>2. CASE q # p
      <4>1. q \in Pages \ watched
        BY <3>2, <2>1
      <4> QED BY <4>1, <2>3 DEF WriteInv
    <3> QED BY <3>1, <3>2
  <2>5. stale' \subseteq pending'
    BY <1>1, <1>3, <2>3 DEF WriteInv
  <2> QED BY <1>3, <2>3, <2>4, <2>5 DEF WriteInv, OnPage
<1>5. CASE PageOf[f] \notin watched
  <2>1. watched' = watched /\ pending' = pending
    BY <1>5 DEF StoreTo
  <2>2. f \in pending
    BY <1>1, <1>5 DEF WriteInv
  <2> QED BY <1>3, <2>1, <2>2 DEF WriteInv, OnPage
<1> QED BY <1>4, <1>5

\* A drain that rearms the watch leaves nothing outdated and nothing pending.
LEMMA DrainKeepsWriteInv ==
    ASSUME WriteInv, DrainObservedWrites(TRUE)
    PROVE  WriteInv'
BY DEF WriteInv, DrainObservedWrites, Notify, OnPage

\* ExecuteOriginal drains first; only a refused rearm could break the invariant.
LEMMA ExecuteOriginalKeepsWriteInv ==
    ASSUME WriteInv, ~RearmMayFail, NEW f, NEW blocks, NEW stk, NEW before,
           ExecuteOriginal(f, blocks, stk, before)
    PROVE  WriteInv'
BY DrainKeepsWriteInv DEF ExecuteOriginal

\* A step that leaves the code variables and the stack alone keeps WriteInv.
LEMMA UnchangedKeepsWriteInv ==
    ASSUME WriteInv, UNCHANGED codeVars
    PROVE  WriteInv'
BY DEF WriteInv, codeVars, OnPage

\* Translating a function outdates nothing.
LEMMA TranslationKeepsWriteInv ==
    ASSUME WriteInv, NEW f \in Functions, cached' \in {cached, cached \cup {f}},
           UNCHANGED <<stale, watched, pending>>
    PROVE  WriteInv'
BY DEF WriteInv, OnPage

\* Every step keeps WriteInv when Xenia rearms the watch it is asked to rearm.
\* The frame on top of the stack names a function of the guest image.
LEMMA NextKeepsWriteInv ==
    ASSUME WriteInv, ~RearmMayFail, TopIs("call") => Top.fn \in Functions, [Next]_vars
    PROVE  WriteInv'
<1>1. CASE UNCHANGED vars
  BY <1>1, UnchangedKeepsWriteInv DEF vars
<1>2. ASSUME NEW f \in Functions \cup {OutsideCode}, NEW limit \in HostBudgets,
             HostCall(f, limit)
      PROVE  WriteInv'
  BY <1>2, ExecuteOriginalKeepsWriteInv, UnchangedKeepsWriteInv
     DEF HostCall, Execute, CallOriginal
<1>3. CASE EnterBlock
  BY <1>3, UnchangedKeepsWriteInv DEF EnterBlock
<1>4. ASSUME NEW f \in Functions \cup {OutsideCode}, CallOriginalBody(f)
      PROVE  WriteInv'
  BY <1>4, ExecuteOriginalKeepsWriteInv DEF CallOriginalBody
<1>5. CASE EnterTranslated
  BY <1>5, TranslationKeepsWriteInv DEF EnterTranslated
<1>6. CASE EnterInterpreter
  BY <1>6, UnchangedKeepsWriteInv DEF EnterInterpreter
<1>7. ASSUME NEW r \in {"ok", "InterpreterFallback"}, LeaveInterpreter(r)
      PROVE  WriteInv'
  BY <1>7, UnchangedKeepsWriteInv DEF LeaveInterpreter
<1>8. CASE GuestReturn
  BY <1>8, UnchangedKeepsWriteInv DEF GuestReturn
<1>9. CASE ExitGuestCall
  BY <1>9, UnchangedKeepsWriteInv DEF ExitGuestCall
<1>10. CASE GuestCallsImport
  BY <1>10, UnchangedKeepsWriteInv DEF GuestCallsImport
<1>11. CASE GuestFault
  BY <1>11, UnchangedKeepsWriteInv DEF GuestFault
<1>12. CASE HandlerReturn
  BY <1>12, UnchangedKeepsWriteInv DEF HandlerReturn, DispatchGuest
<1>13. CASE ImportReturn
  BY <1>13, UnchangedKeepsWriteInv DEF ImportReturn
<1>14. ASSUME NEW f \in Functions, GuestStore(f) \/ NativeStore(f)
       PROVE  WriteInv'
  BY <1>14, StoreKeepsWriteInv DEF GuestStore, NativeStore
<1>15. ASSUME NEW f \in Functions, GuestCall(f)
       PROVE  WriteInv'
  BY <1>15, TranslationKeepsWriteInv DEF GuestCall
<1>16. ASSUME NEW f \in Functions, InstallOverride(f) \/ RemoveOverride(f)
       PROVE  WriteInv'
  BY <1>16, UnchangedKeepsWriteInv DEF InstallOverride, RemoveOverride
<1>17. ASSUME NEW lo \in Functions, NEW hi \in Functions, NotifyExecutableWrite(lo, hi)
       PROVE  WriteInv'
  BY <1>17 DEF NotifyExecutableWrite, Notify, WriteInv, OnPage
<1> QED
  BY <1>1, <1>2, <1>3, <1>4, <1>5, <1>6, <1>7, <1>8, <1>9, <1>10, <1>11, <1>12,
     <1>13, <1>14, <1>15, <1>16, <1>17 DEF Next, OtherStep

-----------------------------------------------------------------------------
(* The host call stack *)

\* The inductive strengthening of ScopesMatchStack and of the stack's type: the
\* scopes nest, each exec below the active one records the exec it replaced.
StackInv ==
    /\ Scoped(stack, active, sp)
    /\ hostResult \in Results
    /\ failed \in BOOLEAN

\* Frames with other contents on the same activations.
LEMMA SameShapeKeepsStackInv ==
    ASSUME StackInv, SameShape(stack, stack'), UNCHANGED scopeVars,
           hostResult' \in Results, failed' \in BOOLEAN
    PROVE  StackInv'
<1>1. Scoped(stack, active, sp) /\ active' = active /\ sp' = sp
  BY DEF StackInv, scopeVars
<1>2. Scoped(stack', active, sp)
  BY <1>1, ScopedSame DEF SameShape
<1>3. Scoped(stack', active', sp')
  BY <1>1, <1>2
<1> QED BY <1>3 DEF StackInv

\* A call returns to the activation on top of s, whose scopes are restored.
LEMMA ReturnKeepsStackInv ==
    ASSUME StackInv, NEW s, Scoped(s, active', sp'), NEW r \in Results, NEW before,
           ReturnTo(s, r, before)
    PROVE  StackInv'
<1>1. s \in Seq(Frames)
  BY ActiveHasGuest
<1>2. SameShape(s, stack') /\ hostResult' \in Results /\ failed' \in BOOLEAN
  BY <1>1, ReturnShape DEF StackInv
<1>3. Scoped(stack', active', sp')
  BY <1>2, ScopedSame DEF SameShape
<1> QED BY <1>2, <1>3 DEF StackInv

\* What the nesting says of the activation on top.
LEMMA TopFacts ==
    ASSUME StackInv, stack # <<>>
    PROVE  /\ stack \in Seq(Frames) /\ Depth \in Nat /\ Depth \in 1..Depth
           /\ active \in Nat /\ sp \in Nat
           /\ Top \in Frames
           /\ active # 0 => active \in 1..Depth /\ active < Depth
           /\ TopIs("guest") => active # 0
           /\ ~TopIs("guest") => active # Depth - 1 \/ active = 0
<1> USE DEF Depth, Top
<1>1. /\ stack \in Seq(Frames) /\ Depth \in Nat /\ active \in Nat /\ sp \in Nat
      /\ active # 0 => active \in 1..Depth /\ active < Depth /\ stack[active + 1].kind = "guest"
  BY ActiveHasGuest DEF StackInv
<1>2. Depth # 0
  BY <1>1, EmptySeq
<1>3. Depth \in 1..Depth /\ Top \in Frames
  BY <1>1, <1>2, FrameFields
<1>4. TopIs("guest") => active # 0
  <2>1. SUFFICES ASSUME TopIs("guest") PROVE active # 0
    OBVIOUS
  <2>2. PICK j \in 1..(Depth - 1) : IsExec(stack, j)
    BY <2>1, <1>3 DEF StackInv, Scoped, TopIs
  <2>3. j <= active /\ j \in 1..Depth
    BY <2>2, <1>1 DEF StackInv, Scoped
  <2> QED BY <2>3, <1>1
<1>5. ASSUME ~TopIs("guest"), active # 0 PROVE active # Depth - 1
  <2>1. Top.kind # "guest"
    BY <1>5 DEF TopIs
  <2> QED BY <2>1, <1>1, <1>2, <1>5
<1> QED BY <1>1, <1>3, <1>4, <1>5

\* ExecuteOriginal returns early to the activation on top of stk, or pushes.
LEMMA ExecuteOriginalKeepsStackInv ==
    ASSUME StackInv, NEW stk, Scoped(stk, active, sp), NEW f, NEW blocks \in Nat,
           NEW before \in BOOLEAN, ExecuteOriginal(f, blocks, stk, before)
    PROVE  StackInv'
<1>1. active' = active /\ sp' = sp
  BY DEF ExecuteOriginal, scopeVars
<1>2. Scoped(stk, active', sp')
  BY <1>1
<1>3. CASE ReturnTo(stk, "ExecutableWatchRearmFailed", before)
  BY <1>2, <1>3, ReturnKeepsStackInv DEF Results, Errors
<1>4. CASE ReturnTo(stk, "EntryOutsideCode", before)
  BY <1>2, <1>4, ReturnKeepsStackInv DEF Results, Errors
<1>5. CASE /\ f \in Functions
           /\ stack' = Append(stk, [Frame("call", f) EXCEPT !.blocks = blocks])
           /\ failed' = before
           /\ hostResult' = "ok"
  <2> DEFINE g == [Frame("call", f) EXCEPT !.blocks = blocks]
  <2>1. g \in Frames /\ g.kind = "call"
    BY <1>5 DEF Frame, Frames, Results, Reasons
  <2>2. Scoped(Append(stk, g), active, sp)
    BY <2>1, ScopedPush
  <2>3. Scoped(stack', active', sp')
    BY <1>1, <1>5, <2>2
  <2> QED BY <1>5, <2>3 DEF StackInv, Results
<1> QED BY <1>3, <1>4, <1>5 DEF ExecuteOriginal

\* A store marks running code and the active budget, and moves no scope.
LEMMA StoreKeepsStackInv ==
    ASSUME StackInv, NEW f, NEW stk, SameShape(stack, stk), StoreTo(f, stk)
    PROVE  StackInv'
<1>1. stk \in Seq(Frames) /\ Len(stk) = Len(stack) /\ stack \in Seq(Frames)
  BY ActiveHasGuest DEF SameShape, StackInv
<1>2. SameShape(stk, Outdated(stk, f))
  BY <1>1, OutdatedShape
<1>3. active = 0 \/ active \in 1..Len(stack)
  BY ActiveHasGuest DEF StackInv
<1>4. SameShape(Outdated(stk, f), Mark(Outdated(stk, f), "ExecutableWriteObserved", "ok"))
  BY <1>1, <1>2, <1>3, MarkShape DEF SameShape, Reasons, Results
<1>5. SameShape(stack, stack')
  BY <1>1, <1>2, <1>4, SameShapeTrans DEF StoreTo
<1>6. failed' \in BOOLEAN /\ hostResult' = hostResult /\ UNCHANGED scopeVars
  BY DEF StoreTo, StackInv
<1> QED BY <1>5, <1>6, SameShapeKeepsStackInv DEF StackInv

\* A guest function on top of the stack records where it is in its block.
LEMMA BlockShape ==
    ASSUME NEW s \in Seq(Frames), s # <<>>, NEW b \in {"before", "inside", "acted"}
    PROVE  SameShape(s, [s EXCEPT ![Len(s)].block = b])
<1>1. Len(s) \in 1..Len(s) /\ s[Len(s)] \in Frames
  <2>1. Len(s) \in Nat /\ Len(s) # 0
    BY FrameFields, EmptySeq
  <2> QED BY <2>1, FrameFields
<1> DEFINE g == [s[Len(s)] EXCEPT !.block = b]
<1>2. g \in Frames /\ g.kind = s[Len(s)].kind /\ g.prev = s[Len(s)].prev /\ g.psp = s[Len(s)].psp
  BY <1>1 DEF Frames
<1> QED BY <1>1, <1>2, ReplaceFrame

\* Charging a budget, or counting a handler's calls, moves no scope.
LEMMA BlocksShape ==
    ASSUME NEW s \in Seq(Frames), NEW i \in 1..Len(s), NEW n \in Nat
    PROVE  SameShape(s, [s EXCEPT ![i].blocks = n])
<1>1. s[i] \in Frames
  BY FrameFields
<1> DEFINE g == [s[i] EXCEPT !.blocks = n]
<1>2. g \in Frames /\ g.kind = s[i].kind /\ g.prev = s[i].prev /\ g.psp = s[i].psp
  BY <1>1 DEF Frames
<1> QED BY <1>1, <1>2, ReplaceFrame

\* A guest function starts on current or on outdated machine code.
LEMMA GuestFrameTyped ==
    ASSUME NEW f \in Functions, NEW S
    PROVE  LET g == [Frame("guest", f) EXCEPT !.stale = f \in S] IN
           g \in Frames /\ g.kind = "guest"
<1> DEFINE h(b) == [Frame("guest", f) EXCEPT !.stale = b]
<1>1. \A b \in BOOLEAN : h(b) \in Frames /\ h(b).kind = "guest"
  BY DEF Frame, Frames, Results, Reasons
<1>2. (f \in S) \in BOOLEAN
  OBVIOUS
<1>3. h(f \in S) \in Frames /\ h(f \in S).kind = "guest"
  <2> HIDE DEF h
  <2> QED BY <1>1, <1>2, Zenon
<1> QED BY <1>3, Zenon DEF h

\* A new guest call opens its scope and its frame over those of its caller.
LEMMA EnterTranslatedKeepsStackInv ==
    ASSUME StackInv, EnterTranslated
    PROVE  StackInv'
<1>1. /\ stack # <<>> /\ stack \in Seq(Frames) /\ Depth \in Nat /\ Top \in Frames
      /\ active # Depth - 1 \/ active = 0
      /\ active \in Nat /\ sp \in Nat
  BY TopFacts DEF EnterTranslated, TopIs
<1>2. Scoped(Below, active, sp)
  BY <1>1, ScopedPop DEF StackInv, Below, Depth
<1>3. Len(Below) = Depth - 1
  <2>1. Depth - 1 \in 0..Depth
    BY <1>1, TopFacts
  <2> QED BY <1>1, <2>1, PrefixOfStack DEF Below, Depth
<1>4. ASSUME NEW r \in {"ExecutionBudgetInvalid", "ExecutionFailed"},
             ReturnTo(Below, r, failed), UNCHANGED scopeVars
      PROVE  StackInv'
  <2>1. Scoped(Below, active', sp') /\ r \in Results
    BY <1>2, <1>4 DEF scopeVars, Results, Errors
  <2> QED BY <1>4, <2>1, ReturnKeepsStackInv
<1>5. CASE /\ stack' = Below \o
                   <<[Frame("exec", Top.fn) EXCEPT !.blocks = Top.blocks,
                                                   !.prev = active, !.psp = sp],
                     [Frame("guest", Top.fn) EXCEPT !.stale = Top.fn \in stale]>>
           /\ active' = Depth
           /\ sp' = sp + 1
           /\ UNCHANGED <<hostResult, failed>>
  <2> DEFINE e == [Frame("exec", Top.fn) EXCEPT !.blocks = Top.blocks,
                                                !.prev = active, !.psp = sp]
             g == [Frame("guest", Top.fn) EXCEPT !.stale = Top.fn \in stale]
  <2>1. stack' = Below \o <<e, g>> /\ active' = Depth /\ sp' = sp + 1
        /\ UNCHANGED <<hostResult, failed>>
    BY <1>5
  <2>2. Top.fn \in Functions /\ Top.blocks \in Nat
    BY <1>1 DEF Frames
  <2>3. e \in Frames /\ e.kind = "exec" /\ e.prev = active /\ e.psp = sp
    BY <1>1, <2>2 DEF Frame, Frames, Results, Reasons
  <2>4. g \in Frames /\ g.kind = "guest"
    BY <2>2, GuestFrameTyped, Zenon
  <2>5. Scoped(Below \o <<e, g>>, Len(Below) + 1, sp + 1)
    BY <1>2, <2>3, <2>4, ScopedEnter
  <2>6. Len(Below) + 1 = Depth
    BY <1>1, <1>3
  <2> HIDE DEF e, g
  <2>7. Scoped(stack', active', sp')
    BY <2>1, <2>5, <2>6
  <2> QED BY <2>1, <2>7 DEF StackInv
<1> QED BY <1>4, <1>5 DEF EnterTranslated

\* ExecuteGuestFunction returning restores the scopes of its caller.
LEMMA LeaveExecKeepsStackInv ==
    ASSUME StackInv, active # 0, NEW r \in Results, LeaveExec(r)
    PROVE  StackInv'
<1>1. Scoped(SubSeq(stack, 1, active - 1), stack[active].prev, stack[active].psp)
  BY ScopedLeave DEF StackInv
<1>2. Scoped(SubSeq(stack, 1, active - 1), active', sp')
  BY <1>1 DEF LeaveExec
<1> QED BY <1>2, ReturnKeepsStackInv DEF LeaveExec

\* Each exit reason maps to a failure.
LEMMA FailureOfTyped ==
    ASSUME NEW e \in Frames
    PROVE  FailureOf(e) \in Results
BY DEF FailureOf, Frames, Results, Errors

\* Pushing an activation that opens no scope.
LEMMA PushKeepsStackInv ==
    ASSUME StackInv, NEW s, SameShape(stack, s), NEW g \in Frames, g.kind # "exec",
           g.kind = "guest" => active # 0, stack' = Append(s, g),
           UNCHANGED <<scopeVars, hostResult, failed>>
    PROVE  StackInv'
<1>1. Scoped(s, active, sp)
  BY ScopedSame DEF StackInv, SameShape
<1>2. Scoped(Append(s, g), active, sp)
  BY <1>1, ScopedPush
<1>3. active' = active /\ sp' = sp /\ hostResult' = hostResult /\ failed' = failed
  BY DEF scopeVars
<1>4. Scoped(stack', active', sp')
  BY <1>2, <1>3
<1> QED BY <1>3, <1>4 DEF StackInv

\* An activation that opened no scope returns to a caller that may be marked.
LEMMA PopKeepsStackInv ==
    ASSUME StackInv, stack # <<>>, active # Depth - 1 \/ active = 0,
           NEW reason \in Reasons, NEW failure \in Results,
           stack' \in {Below, Mark(Below, reason, failure)},
           UNCHANGED <<scopeVars, hostResult>>, failed' \in BOOLEAN
    PROVE  StackInv'
<1>1. Scoped(Below, active, sp)
  BY ScopedPop DEF StackInv, Below, Depth
<1>2. Below \in Seq(Frames) /\ (active = 0 \/ active \in 1..Len(Below))
  BY <1>1, ActiveHasGuest
<1>3. SameShape(Below, Mark(Below, reason, failure)) /\ SameShape(Below, Below)
  BY <1>2, MarkShape DEF SameShape, Agree
<1>4. SameShape(Below, stack')
  BY <1>3
<1>5. active' = active /\ sp' = sp /\ hostResult' = hostResult
  BY DEF scopeVars
<1>6. Scoped(stack', active', sp')
  BY <1>1, <1>4, <1>5, ScopedSame DEF SameShape
<1> QED BY <1>5, <1>6 DEF StackInv

\* The prologue of a block charges the active budget or marks it exceeded.
LEMMA EnterBlockKeepsStackInv ==
    ASSUME StackInv, EnterBlock
    PROVE  StackInv'
<1>1. /\ stack # <<>> /\ stack \in Seq(Frames) /\ active # 0
      /\ active \in 1..Depth /\ stack[active] \in Frames
  <2>1. TopIs("guest") /\ stack # <<>>
    BY DEF EnterBlock, GuestCodeRuns, TopIs
  <2> QED BY <2>1, TopFacts, FrameFields DEF Depth
<1>2. hostResult' = hostResult /\ UNCHANGED scopeVars
  BY DEF EnterBlock
<1>3. CASE stack[active].blocks = 0
  <2>1. stack' = Mark(stack, "BlockBudgetExceeded", "ok") /\ failed' = TRUE
    BY <1>3 DEF EnterBlock
  <2>2. SameShape(stack, stack')
    BY <1>1, <2>1, MarkShape DEF Reasons, Results, Depth
  <2> QED BY <1>2, <2>1, <2>2, SameShapeKeepsStackInv DEF StackInv
<1>4. CASE stack[active].blocks # 0
  <2> DEFINE n == stack[active].blocks - 1
             t == [stack EXCEPT ![active].blocks = n]
             u == [t EXCEPT ![Len(t)].block = "inside"]
  <2>1. n \in Nat
    BY <1>1, <1>4 DEF Frames
  <2>2. SameShape(stack, t)
    BY <1>1, <2>1, BlocksShape DEF Depth
  <2>3. t \in Seq(Frames) /\ Len(t) = Depth /\ t # <<>>
    BY <1>1, <2>2, EmptySeq DEF SameShape, Depth
  <2> HIDE DEF n
  <2>4. SameShape(t, u)
    BY <2>3, BlockShape
  <2>5. stack' = u /\ failed' = failed
    BY <1>4, <2>3 DEF EnterBlock, n
  <2> HIDE DEF t, u
  <2>6. SameShape(stack, stack')
    BY <1>1, <2>2, <2>4, <2>5, SameShapeTrans
  <2> QED BY <1>2, <2>5, <2>6, SameShapeKeepsStackInv DEF StackInv
<1> QED BY <1>3, <1>4

\* Every step keeps the scopes nested.
LEMMA NextKeepsStackInv ==
    ASSUME StackInv, overrides \subseteq Functions, [Next]_vars
    PROVE  StackInv'
<1>1. CASE UNCHANGED vars
  BY <1>1 DEF vars, scopeVars, StackInv
<1>2. ASSUME NEW f \in Functions \cup {OutsideCode}, NEW limit \in HostBudgets,
             HostCall(f, limit)
      PROVE  StackInv'
  <2>1. stack = <<>> /\ limit \in Nat
    BY <1>2, GuestCallsAssumption DEF HostCall, Execute, CallOriginal
  <2>2. Scoped(<<>>, active, sp)
    BY <2>1 DEF StackInv
  <2>3. CASE ExecuteOriginal(f, limit, <<>>, FALSE)
    BY <2>1, <2>2, <2>3, ExecuteOriginalKeepsStackInv
  <2>4. CASE /\ f \in overrides
             /\ stack' = <<Frame("handler", f)>>
             /\ failed' = FALSE
             /\ hostResult' = "ok"
             /\ UNCHANGED scopeVars
    <3>1. CASE f \in Functions
      <4>1. Frame("handler", f) \in Frames /\ Frame("handler", f).kind = "handler"
        BY <3>1, FrameTyped
      <4>2. Scoped(Append(<<>>, Frame("handler", f)), active, sp)
        BY <2>2, <4>1, ScopedPush
      <4>3. stack' = Append(<<>>, Frame("handler", f)) /\ active' = active /\ sp' = sp
        BY <2>4 DEF scopeVars
      <4>4. Scoped(stack', active', sp')
        BY <4>2, <4>3
      <4> QED BY <2>4, <4>4 DEF StackInv, Results
    <3> QED BY <2>4, <3>1
  <2> QED BY <1>2, <2>3, <2>4 DEF HostCall, Execute, CallOriginal
<1>3. CASE EnterBlock
  BY <1>3, EnterBlockKeepsStackInv
<1>4. ASSUME NEW f \in Functions \cup {OutsideCode}, CallOriginalBody(f)
      PROVE  StackInv'
  BY <1>4, ExecuteOriginalKeepsStackInv, GuestCallsAssumption DEF CallOriginalBody, StackInv
<1>5. CASE EnterTranslated
  BY <1>5, EnterTranslatedKeepsStackInv
<1>6. CASE EnterInterpreter
  <2>1. /\ stack # <<>> /\ Top \in Frames /\ (active # Depth - 1 \/ active = 0)
    BY <1>6, TopFacts DEF EnterInterpreter, TopIs
  <2>2. Scoped(Below, active, sp)
    BY <2>1, ScopedPop DEF StackInv, Below, Depth
  <2>3. Frame("interp", Top.fn) \in Frames /\ Frame("interp", Top.fn).kind = "interp"
    BY <2>1, FrameTyped DEF Frames
  <2>4. Scoped(Append(Below, Frame("interp", Top.fn)), active, sp)
    BY <2>2, <2>3, ScopedPush
  <2>5. Scoped(stack', active', sp')
    BY <1>6, <2>4 DEF EnterInterpreter, scopeVars
  <2> QED BY <1>6, <2>5 DEF EnterInterpreter, StackInv
<1>7. ASSUME NEW r \in {"ok", "InterpreterFallback"}, LeaveInterpreter(r)
      PROVE  StackInv'
  <2>1. stack # <<>> /\ (active # Depth - 1 \/ active = 0)
    BY <1>7, TopFacts DEF LeaveInterpreter, TopIs
  <2>2. Scoped(Below, active, sp)
    BY <2>1, ScopedPop DEF StackInv, Below, Depth
  <2>3. Scoped(Below, active', sp')
    BY <1>7, <2>2 DEF LeaveInterpreter, scopeVars
  <2>4. ReturnTo(Below, r, failed) /\ r \in Results
    BY <1>7 DEF LeaveInterpreter, Results, Errors
  <2> QED BY <2>3, <2>4, ReturnKeepsStackInv
<1>8. CASE GuestReturn
  <2>1. stack # <<>> /\ TopIs("guest") /\ active # 0
    BY <1>8, TopFacts DEF GuestReturn, GuestCodeRuns, TopIs
  <2>2. CASE active = Depth - 1
    BY <1>8, <2>1, <2>2, LeaveExecKeepsStackInv DEF GuestReturn, Results
  <2>3. CASE active # Depth - 1
    BY <1>8, <2>1, <2>3, PopKeepsStackInv DEF GuestReturn, Reasons, Results, StackInv
  <2> QED BY <2>2, <2>3
<1>9. CASE ExitGuestCall
  <2>1. stack # <<>> /\ active # 0 /\ stack[active] \in Frames
    BY <1>9, TopFacts, FrameFields DEF ExitGuestCall, TopIs, Depth
  <2> QED BY <1>9, <2>1, FailureOfTyped, LeaveExecKeepsStackInv DEF ExitGuestCall
<1>10. ASSUME InsideBlock
       PROVE  /\ stack # <<>> /\ Top \in Frames /\ active # 0 /\ stack \in Seq(Frames)
              /\ active \in 1..Len(stack) /\ SameShape(stack, Acted)
  <2>1. stack # <<>> /\ TopIs("guest")
    BY <1>10 DEF InsideBlock, GuestCodeRuns, TopIs
  <2>2. Top \in Frames /\ active # 0 /\ stack \in Seq(Frames) /\ active \in 1..Len(stack)
    BY <2>1, TopFacts DEF Depth
  <2>3. SameShape(stack, Acted)
    BY <2>1, <2>2, BlockShape DEF Acted, Depth
  <2> QED BY <2>1, <2>2, <2>3
<1>11. CASE GuestCallsImport
  <2>1. InsideBlock /\ stack' = Append(Acted, Frame("import", Top.fn))
        /\ UNCHANGED <<scopeVars, hostResult, failed>>
    BY <1>11 DEF GuestCallsImport
  <2>2. Frame("import", Top.fn) \in Frames /\ Frame("import", Top.fn).kind = "import"
    BY <1>10, <2>1, FrameTyped DEF Frames
  <2> QED BY <1>10, <2>1, <2>2, PushKeepsStackInv
<1>12. CASE GuestFault
  <2>1. SameShape(stack, stack') /\ UNCHANGED scopeVars /\ hostResult' = hostResult
        /\ failed' = TRUE
    BY <1>10, <1>12, MarkShape DEF GuestFault, Reasons, Results
  <2> QED BY <2>1, SameShapeKeepsStackInv DEF StackInv
<1>13. CASE HandlerReturn
  <2>1. stack # <<>> /\ Top \in Frames /\ (active # Depth - 1 \/ active = 0)
    BY <1>13, TopFacts DEF HandlerReturn, TopIs
  <2>2. PICK r \in HandlerAnswers :
          IF Depth = 1
          THEN /\ ReturnTo(<<>>, r, failed)
               /\ UNCHANGED <<codeVars, tableVars, scopeVars>>
          ELSE DispatchGuest(r)
    BY <1>13 DEF HandlerReturn
  <2>3. r \in Results
    BY <2>1 DEF HandlerAnswers, Frames, Results, Errors
  <2>4. CASE Depth = 1
    <3>1. Scoped(Below, active, sp)
      BY <2>1, ScopedPop DEF StackInv, Below, Depth
    <3>2. Below = <<>>
      BY <2>4 DEF Below
    <3>3. Scoped(<<>>, active', sp') /\ ReturnTo(<<>>, r, failed)
      BY <2>2, <2>4, <3>1, <3>2 DEF scopeVars
    <3> QED BY <2>3, <3>3, ReturnKeepsStackInv
  <2>5. CASE Depth # 1
    <3>1. DispatchGuest(r)
      BY <2>2, <2>5
    <3>2. stack' \in {Below, Mark(Below, "NativeOverrideFailed", r)}
          /\ UNCHANGED <<scopeVars, hostResult>> /\ failed' \in BOOLEAN
      BY <3>1 DEF DispatchGuest
    <3>3. "NativeOverrideFailed" \in Reasons
      BY DEF Reasons
    <3> QED BY <2>1, <2>3, <3>2, <3>3, PopKeepsStackInv
  <2> QED BY <2>4, <2>5
<1>14. CASE ImportReturn
  <2>1. stack # <<>> /\ (active # Depth - 1 \/ active = 0)
    BY <1>14, TopFacts DEF ImportReturn, TopIs
  <2>2. stack' \in {Below, Mark(Below, "HostServiceRefused", "ok")}
        /\ UNCHANGED <<scopeVars, hostResult>> /\ failed' \in BOOLEAN
    BY <1>14 DEF ImportReturn, StackInv
  <2>3. "HostServiceRefused" \in Reasons /\ "ok" \in Results
    BY DEF Reasons, Results
  <2> QED BY <2>1, <2>2, <2>3, PopKeepsStackInv
<1>15. ASSUME NEW f \in Functions, GuestStore(f)
       PROVE  StackInv'
  BY <1>10, <1>15, StoreKeepsStackInv DEF GuestStore
<1>16. ASSUME NEW f \in Functions, NativeStore(f)
       PROVE  StackInv'
  <2>1. SameShape(stack, stack)
    BY ActiveHasGuest DEF StackInv, SameShape, Agree
  <2> QED BY <1>16, <2>1, StoreKeepsStackInv DEF NativeStore
<1>17. ASSUME NEW f \in Functions, GuestCall(f)
       PROVE  StackInv'
  <2> DEFINE g == [Frame("guest", f) EXCEPT !.stale = f \in stale]
  <2>1. InsideBlock /\ stack' \in {Append(Acted, Frame("handler", f)), Append(Acted, g)}
        /\ UNCHANGED <<scopeVars, hostResult, failed>>
    BY <1>17 DEF GuestCall
  <2>2. Frame("handler", f) \in Frames /\ Frame("handler", f).kind = "handler"
    BY FrameTyped
  <2>3. g \in Frames /\ g.kind = "guest"
    BY GuestFrameTyped, Zenon
  <2> HIDE DEF g
  <2> QED BY <1>10, <2>1, <2>2, <2>3, PushKeepsStackInv
<1>18. ASSUME NEW f \in Functions, InstallOverride(f) \/ RemoveOverride(f)
       PROVE  StackInv'
  BY <1>18 DEF InstallOverride, RemoveOverride, scopeVars, StackInv
<1>19. ASSUME NEW lo \in Functions, NEW hi \in Functions, NotifyExecutableWrite(lo, hi)
       PROVE  StackInv'
  BY <1>19 DEF NotifyExecutableWrite, scopeVars, StackInv
<1> QED
  BY <1>1, <1>2, <1>3, <1>4, <1>5, <1>6, <1>7, <1>8, <1>9, <1>11, <1>12, <1>13,
     <1>14, <1>15, <1>16, <1>17, <1>18, <1>19 DEF Next, OtherStep

-----------------------------------------------------------------------------
(* The override table and the types of the code variables *)

\* What a refused redirect must not break, with the types of the rest.
TableInv ==
    /\ overrides \subseteq Functions
    /\ overrides = redirects

CodeTypes ==
    /\ cached \subseteq Functions
    /\ stale \subseteq cached
    /\ watched \subseteq Pages
    /\ pending \subseteq Functions

\* A drain, rearmed or not, keeps the types.
LEMMA DrainKeepsCodeTypes ==
    ASSUME CodeTypes, NEW rearmed \in BOOLEAN, DrainObservedWrites(rearmed)
    PROVE  CodeTypes'
BY DEF CodeTypes, DrainObservedWrites, Notify

\* A store keeps the types.
LEMMA StoreKeepsCodeTypes ==
    ASSUME CodeTypes, NEW f \in Functions, NEW stk, StoreTo(f, stk)
    PROVE  CodeTypes'
<1>1. pending \cup OnPage(PageOf[f]) \in SUBSET Functions
  BY DEF CodeTypes, OnPage
<1>2. Hull(pending \cup OnPage(PageOf[f])) \subseteq Functions
  BY <1>1, HullCovers
<1> QED BY <1>2 DEF CodeTypes, StoreTo, RecordVirtualWrite

\* Only InstallOverride and RemoveOverride touch the table, both sides at once.
LEMMA NextKeepsTableInv ==
    ASSUME TableInv, [Next]_vars
    PROVE  TableInv'
<1>1. ASSUME NEW f \in Functions, InstallOverride(f) \/ RemoveOverride(f)
      PROVE  TableInv'
  BY <1>1 DEF InstallOverride, RemoveOverride, tableVars, TableInv
<1>2. ASSUME UNCHANGED tableVars
      PROVE  TableInv'
  BY <1>2 DEF tableVars, TableInv
<1>3. ASSUME NEW f \in Functions \cup {OutsideCode}, NEW limit \in HostBudgets,
             HostCall(f, limit)
      PROVE  UNCHANGED tableVars
  BY <1>3 DEF HostCall, Execute, CallOriginal, ExecuteOriginal
<1>4. ASSUME NEW f \in Functions \cup {OutsideCode}, CallOriginalBody(f)
      PROVE  UNCHANGED tableVars
  BY <1>4 DEF CallOriginalBody, ExecuteOriginal
<1>5. ASSUME \/ EnterBlock \/ EnterTranslated \/ EnterInterpreter
             \/ \E r \in {"ok", "InterpreterFallback"} : LeaveInterpreter(r)
             \/ GuestReturn \/ ExitGuestCall \/ GuestCallsImport \/ GuestFault
             \/ ImportReturn \/ UNCHANGED vars
             \/ \E lo, hi \in Functions : NotifyExecutableWrite(lo, hi)
      PROVE  UNCHANGED tableVars
  BY <1>5 DEF EnterBlock, EnterTranslated, EnterInterpreter, LeaveInterpreter, GuestReturn,
              ExitGuestCall, GuestCallsImport, GuestFault, ImportReturn,
              NotifyExecutableWrite, vars
<1>6. CASE HandlerReturn
  BY <1>2, <1>6 DEF HandlerReturn, DispatchGuest
<1>7. ASSUME NEW f \in Functions, GuestStore(f) \/ GuestCall(f) \/ NativeStore(f)
      PROVE  UNCHANGED tableVars
  BY <1>7 DEF GuestStore, GuestCall, NativeStore, StoreTo
<1> QED BY <1>1, <1>2, <1>3, <1>4, <1>5, <1>6, <1>7 DEF Next, OtherStep

\* Every step keeps the types of the code variables.
LEMMA NextKeepsCodeTypes ==
    ASSUME CodeTypes, TopIs("call") => Top.fn \in Functions, [Next]_vars
    PROVE  CodeTypes'
<1>1. ASSUME UNCHANGED codeVars PROVE CodeTypes'
  BY <1>1 DEF codeVars, CodeTypes
<1>2. ASSUME NEW f, NEW blocks, NEW stk, NEW before, ExecuteOriginal(f, blocks, stk, before)
      PROVE  CodeTypes'
  BY <1>2, DrainKeepsCodeTypes DEF ExecuteOriginal
<1>3. ASSUME NEW f \in Functions \cup {OutsideCode}, NEW limit \in HostBudgets,
             HostCall(f, limit)
      PROVE  CodeTypes'
  BY <1>1, <1>2, <1>3 DEF HostCall, Execute, CallOriginal
<1>4. ASSUME NEW f \in Functions \cup {OutsideCode}, CallOriginalBody(f)
      PROVE  CodeTypes'
  BY <1>2, <1>4 DEF CallOriginalBody
<1>5. CASE EnterTranslated
  BY <1>5 DEF EnterTranslated, CodeTypes
<1>6. ASSUME \/ EnterBlock \/ EnterInterpreter
             \/ \E r \in {"ok", "InterpreterFallback"} : LeaveInterpreter(r)
             \/ GuestReturn \/ ExitGuestCall \/ GuestCallsImport \/ GuestFault
             \/ ImportReturn \/ UNCHANGED vars
             \/ \E f \in Functions : InstallOverride(f) \/ RemoveOverride(f)
      PROVE  UNCHANGED codeVars
  BY <1>6 DEF EnterBlock, EnterInterpreter, LeaveInterpreter, GuestReturn, ExitGuestCall,
              GuestCallsImport, GuestFault, ImportReturn, InstallOverride, RemoveOverride,
              vars
<1>7. CASE HandlerReturn
  BY <1>1, <1>7 DEF HandlerReturn, DispatchGuest
<1>8. ASSUME NEW f \in Functions, GuestStore(f) \/ NativeStore(f)
      PROVE  CodeTypes'
  BY <1>8, StoreKeepsCodeTypes DEF GuestStore, NativeStore
<1>9. ASSUME NEW f \in Functions, GuestCall(f)
      PROVE  CodeTypes'
  BY <1>9 DEF GuestCall, CodeTypes
<1>10. ASSUME NEW lo \in Functions, NEW hi \in Functions, NotifyExecutableWrite(lo, hi)
       PROVE  CodeTypes'
  BY <1>10 DEF NotifyExecutableWrite, Notify, CodeTypes
<1> QED
  BY <1>1, <1>3, <1>4, <1>5, <1>6, <1>7, <1>8, <1>9, <1>10 DEF Next, OtherStep

-----------------------------------------------------------------------------
(* Theorems about types, tables and writes *)

\* The inductive invariant of the call stack, the tables and the code types.
IInv == StackInv /\ TableInv /\ CodeTypes

\* IInv holds in every reachable state.
LEMMA Invariance == Spec => []IInv
<1>1. Init => IInv
  <2> SUFFICES ASSUME Init PROVE IInv
    OBVIOUS
  <2>1. Scoped(stack, active, sp)
    BY DEF Init, Scoped
  <2> QED BY <2>1 DEF Init, IInv, StackInv, TableInv, CodeTypes, Results
<1>2. IInv /\ [Next]_vars => IInv'
  <2> SUFFICES ASSUME IInv, [Next]_vars PROVE IInv'
    OBVIOUS
  <2>1. TopIs("call") => Top.fn \in Functions
    BY TopFacts DEF IInv, TopIs, Frames
  <2> QED BY <2>1, NextKeepsStackInv, NextKeepsTableInv, NextKeepsCodeTypes DEF IInv, TableInv
<1> QED BY <1>1, <1>2, PTL DEF Spec

\* The state stays well typed for every image, budget and nesting depth.
THEOREM TypeCorrect == Spec => []TypeOK
<1>1. IInv => TypeOK
  BY ActiveHasGuest DEF IInv, StackInv, TableInv, CodeTypes, TypeOK
<1> QED BY <1>1, Invariance, PTL

\* The budget scopes and guest call frames always match the host call stack:
\* however deep overrides and guest calls nest, active_guest_execution_budget is
\* the innermost live guest call's and the stack pointer is restored.
THEOREM ScopesCorrect == Spec => []ScopesMatchStack
<1>1. IInv => ScopesMatchStack
  <2> SUFFICES ASSUME IInv PROVE ScopesMatchStack
    OBVIOUS
  <2>1. /\ Scoped(stack, active, sp) /\ stack \in Seq(Frames) /\ active \in Nat /\ sp \in Nat
        /\ DOMAIN stack = 1..Len(stack) /\ Len(stack) \in Nat
    BY ActiveHasGuest, LenProperties DEF IInv, StackInv
  <2>2. active = 0 => \A i \in DOMAIN stack : stack[i].kind # "exec"
    BY <2>1 DEF Scoped, IsExec
  <2>3. active # 0 => active \in DOMAIN stack /\ stack[active].kind = "exec"
    BY <2>1, ActiveHasGuest DEF Scoped, IsExec
  <2>4. \A i \in DOMAIN stack : stack[i].kind = "exec" => i <= active
    BY <2>1 DEF Scoped, IsExec
  <2>5. ASSUME NEW i \in DOMAIN stack, stack[i].kind = "exec"
        PROVE  stack[i].psp < sp
    <3>1. active # 0 /\ i <= active /\ active \in 1..Len(stack) /\ IsExec(stack, active)
      BY <2>1, <2>2, <2>3, <2>4, <2>5 DEF IsExec
    <3>2. sp = stack[active].psp + 1 /\ ScopeOK(stack, active)
      BY <2>1, <3>1 DEF Scoped
    <3>3. stack[i].psp \in Nat /\ stack[active].psp \in Nat
      BY <2>1, <3>1, FrameFields
    <3>4. CASE i = active
      BY <3>2, <3>3, <3>4
    <3>5. CASE i # active
      <4>1. i \in 1..(active - 1) /\ IsExec(stack, i)
        BY <2>1, <2>5, <3>1, <3>5 DEF IsExec
      <4>2. stack[i].psp < stack[active].psp
        BY <4>1, <3>2 DEF ScopeOK
      <4> QED BY <3>2, <3>3, <4>2
    <3> QED BY <3>4, <3>5
  <2>6. stack = <<>> => sp = 0
    BY <2>1 DEF Scoped
  <2> QED BY <2>2, <2>3, <2>4, <2>5, <2>6 DEF ScopesMatchStack
<1> QED BY <1>1, Invariance, PTL

\* entries_ and Xenia's redirected slots are one table at all times.
THEOREM TablesAgree == Spec => []OneOverrideTable
<1>1. IInv => OneOverrideTable
  BY DEF IInv, TableInv, OneOverrideTable
<1> QED BY <1>1, Invariance, PTL

\* When Xenia rearms the watch it is asked to rearm, no write to translated code
\* is ever lost: for every layout of functions on pages and every nesting of
\* calls, the outdated translations are under the pending range.
THEOREM WritesNeverLost == ~RearmMayFail => (Spec => []StaleIsPending)
<1> SUFFICES ASSUME ~RearmMayFail PROVE Spec => []StaleIsPending
  OBVIOUS
<1>1. Init => WriteInv
  BY DEF Init, WriteInv
<1>2. IInv /\ WriteInv /\ [Next]_vars => WriteInv'
  <2> SUFFICES ASSUME IInv, WriteInv, [Next]_vars PROVE WriteInv'
    OBVIOUS
  <2>1. TopIs("call") => Top.fn \in Functions
    BY TopFacts DEF IInv, TopIs, Frames
  <2> QED BY <2>1, NextKeepsWriteInv
<1>3. WriteInv => StaleIsPending
  BY DEF WriteInv, StaleIsPending
<1> QED BY <1>1, <1>2, <1>3, Invariance, PTL DEF Spec

-----------------------------------------------------------------------------
(* Frames that carry a failure: when such a frame returns, the next frame *)
(* below that can carry one does                                          *)

Failing(f) ==
    \/ f.kind = "exec" /\ f.reason # "None"
    \/ f.kind = "handler" /\ f.result # "ok"

\* The failure of an override is not lost on its way to the exec.
Honest(f) == f.kind = "exec" /\ f.reason = "NativeOverrideFailed" => f.result # "ok"

\* The activation at e is going to fail.
Doomed(s, e) == \E j \in e..Len(s) : Failing(s[j])

\* t has the frames of s, with no failure taken back.
Worse(s, t) ==
    /\ SameShape(s, t)
    /\ \A k \in 1..Len(s) : /\ Failing(s[k]) => Failing(t[k])
                            /\ Honest(s[k]) => Honest(t[k])

SameCode(s, t) == \A k \in 1..Len(s) : t[k].stale = s[k].stale

\* Replacing one frame.
LEMMA ReplaceWorse ==
    ASSUME NEW s \in Seq(Frames), NEW i \in 1..Len(s), NEW g \in Frames,
           g.kind = s[i].kind, g.prev = s[i].prev, g.psp = s[i].psp, g.stale = s[i].stale,
           Failing(s[i]) => Failing(g), Honest(s[i]) => Honest(g)
    PROVE  LET t == [s EXCEPT ![i] = g] IN
           Worse(s, t) /\ SameCode(s, t) /\ t[i] = g
<1> DEFINE t == [s EXCEPT ![i] = g]
<1>1. \A k \in 1..Len(s) : t[k] = IF k = i THEN g ELSE s[k]
  BY ExceptSeq
<1>2. SameShape(s, t)
  BY ReplaceFrame
<1> HIDE DEF t
<1>3. Worse(s, t) /\ SameCode(s, t) /\ t[i] = g
  BY <1>1, <1>2 DEF Worse, SameCode
<1> QED BY <1>3 DEF t

\* Two changes compose.
LEMMA WorseTrans ==
    ASSUME NEW s \in Seq(Frames), NEW t, NEW u, Worse(s, t), Worse(t, u)
    PROVE  /\ Worse(s, u)
           /\ SameCode(s, t) /\ SameCode(t, u) => SameCode(s, u)
<1>1. SameShape(s, u) /\ Len(t) = Len(s)
  BY SameShapeTrans DEF Worse, SameShape
<1> QED BY <1>1 DEF Worse, SameCode

\* Nothing has changed.
LEMMA WorseSame ==
    ASSUME NEW s \in Seq(Frames)
    PROVE  Worse(s, s) /\ SameCode(s, s)
BY DEF Worse, SameCode, SameShape, Agree

\* The MarkGuest... functions make the active exec carry a failure.
LEMMA MarkWorse ==
    ASSUME NEW s \in Seq(Frames), active \in 1..Len(s), IsExec(s, active), active # 0,
           NEW reason \in Reasons \ {"None"}, NEW failure \in Results,
           reason = "NativeOverrideFailed" => failure # "ok"
    PROVE  LET t == Mark(s, reason, failure) IN
           Worse(s, t) /\ SameCode(s, t) /\ Failing(t[active])
<1>1. CASE s[active].reason = "None"
  <2> DEFINE g == [s[active] EXCEPT !.reason = reason, !.result = failure]
             t == [s EXCEPT ![active] = g]
  <2>1. s[active] \in Frames /\ s[active].kind = "exec"
    BY FrameFields DEF IsExec
  <2>2. /\ g \in Frames /\ g.kind = "exec" /\ g.prev = s[active].prev /\ g.psp = s[active].psp
        /\ g.stale = s[active].stale /\ g.reason = reason /\ g.result = failure
    BY <2>1 DEF Frames
  <2>3. Failing(g) /\ Honest(g)
    BY <2>2 DEF Failing, Honest
  <2> HIDE DEF g
  <2>4. Worse(s, t) /\ SameCode(s, t) /\ t[active] = g
    BY <2>1, <2>2, <2>3, ReplaceWorse
  <2>5. Mark(s, reason, failure) = t
    <3> DEFINE h == [s[active] EXCEPT !.reason = reason]
               u == [s EXCEPT ![active] = h]
               v == [u EXCEPT ![active] = [u[active] EXCEPT !.result = failure]]
    <3>1. Mark(s, reason, failure) = v
      BY <1>1 DEF Mark
    <3>2. h \in Frames /\ [h EXCEPT !.result = failure] = g
      BY <2>1 DEF Frames, g
    <3>3. u \in Seq(Frames) /\ Len(u) = Len(s) /\ u[active] = h
          /\ \A k \in 1..Len(s) : k # active => u[k] = s[k]
      BY <3>2, ExceptSeq
    <3>4. [u EXCEPT ![active] = g] = t
      BY <3>3
    <3> HIDE DEF h, u
    <3> QED BY <3>1, <3>2, <3>3, <3>4
  <2> HIDE DEF t
  <2> QED BY <2>3, <2>4, <2>5
<1>2. CASE s[active].reason # "None"
  <2>1. Mark(s, reason, failure) = s
    BY <1>2 DEF Mark
  <2> QED BY <1>2, <2>1, WorseSame DEF Failing, IsExec
<1> QED BY <1>1, <1>2

\* Outdating running code takes no failure back.
LEMMA OutdatedWorse ==
    ASSUME NEW s \in Seq(Frames), NEW f
    PROVE  Worse(s, Outdated(s, f))
<1> DEFINE t == [i \in 1..Len(s) |->
                    IF s[i].kind = "guest" /\ s[i].fn = f
                    THEN [s[i] EXCEPT !.stale = TRUE] ELSE s[i]]
<1>1. \A g \in Frames : LET h == [g EXCEPT !.stale = TRUE] IN
          h.kind = g.kind /\ h.reason = g.reason /\ h.result = g.result
  BY DEF Frames
<1>2. Len(s) \in Nat /\ \A i \in 1..Len(s) : s[i] \in Frames
  BY FrameFields
<1>3. \A i \in 1..Len(s) : t[i].kind = s[i].kind /\ t[i].reason = s[i].reason
                           /\ t[i].result = s[i].result
  BY <1>1, <1>2
<1>4. t \in Seq(Frames)
  <2>1. \A g \in Frames : [g EXCEPT !.stale = TRUE] \in Frames
    BY DEF Frames
  <2>2. t \in [1..Len(s) -> Frames]
    BY <1>2, <2>1
  <2> QED BY <1>2, <2>2, IsASeq
<1>5. Outdated(s, f) = t
  BY <1>4, ConcatEmptySeq DEF Outdated
<1>6. SameShape(s, t)
  BY <1>5, OutdatedShape
<1> HIDE DEF t
<1> QED BY <1>3, <1>5, <1>6 DEF Worse, Failing, Honest

\* A call returning r to the handler on top of s.
LEMMA ReturnWorse ==
    ASSUME NEW s \in Seq(Frames), s # <<>>, s[Len(s)].kind = "handler", NEW r \in Results,
           NEW before, ReturnTo(s, r, before)
    PROVE  /\ Worse(s, stack') /\ SameCode(s, stack') /\ Len(s) \in 1..Len(s)
           /\ r # "ok" => Failing(stack'[Len(s)])
<1>1. Len(s) \in 1..Len(s) /\ s[Len(s)] \in Frames
  <2>1. Len(s) \in Nat /\ Len(s) # 0
    BY FrameFields, EmptySeq
  <2> QED BY <2>1, FrameFields
<1> DEFINE g == [s[Len(s)] EXCEPT !.result = IF @ = "ok" THEN r ELSE @]
<1>2. /\ g \in Frames /\ g.kind = "handler" /\ g.prev = s[Len(s)].prev
      /\ g.psp = s[Len(s)].psp /\ g.stale = s[Len(s)].stale
      /\ g.result = IF s[Len(s)].result = "ok" THEN r ELSE s[Len(s)].result
  BY <1>1 DEF Frames
<1>3. stack' = [s EXCEPT ![Len(s)] = g]
  BY DEF ReturnTo
<1> HIDE DEF g
<1>4. (Failing(s[Len(s)]) => Failing(g)) /\ Honest(g) /\ (r # "ok" => Failing(g))
  BY <1>2 DEF Failing, Honest
<1>5. LET t == [s EXCEPT ![Len(s)] = g] IN Worse(s, t) /\ SameCode(s, t) /\ t[Len(s)] = g
  BY <1>1, <1>2, <1>4, ReplaceWorse
<1> QED BY <1>1, <1>3, <1>4, <1>5

-----------------------------------------------------------------------------
(* Which activation lies on which *)

\* The guest function at i was reached from an exec by calls of guest functions.
GuestRun(s, i) ==
    \E e \in 1..(i - 1) : IsExec(s, e) /\ \A k \in (e + 1)..i : s[k].kind = "guest"

Layout(s) ==
    \A i \in 1..Len(s) :
        /\ s[i].kind \in {"call", "interp", "import"} => i = Len(s)
        /\ s[i].kind \in {"call", "interp", "exec"} /\ i > 1 => s[i - 1].kind = "handler"
        /\ s[i].kind \in {"import", "handler"} /\ i > 1 => s[i - 1].kind = "guest"
        /\ s[i].kind = "import" => i > 1
        /\ s[i].kind = "guest" => GuestRun(s, i)

\* What activation g may be pushed on s.
MayPush(s, g) ==
    \/ s = <<>> /\ g.kind \in {"call", "interp", "exec", "handler"}
    \/ /\ s # <<>>
       /\ \/ s[Len(s)].kind = "handler" /\ g.kind \in {"call", "interp", "exec"}
          \/ s[Len(s)].kind = "guest" /\ g.kind \in {"guest", "handler", "import"}
          \/ s[Len(s)].kind = "exec" /\ g.kind = "guest"

\* Kinds alone decide.
LEMMA LayoutSame ==
    ASSUME NEW s \in Seq(Frames), Layout(s), NEW t, SameShape(s, t)
    PROVE  Layout(t)
<1>1. Len(t) = Len(s) /\ Len(s) \in Nat /\ \A k \in 1..Len(s) : t[k].kind = s[k].kind
  BY LenProperties DEF SameShape, Agree
<1>2. ASSUME NEW i \in 1..Len(s), s[i].kind = "guest"
      PROVE  GuestRun(t, i)
  <2>1. PICK e \in 1..(i - 1) : IsExec(s, e) /\ \A k \in (e + 1)..i : s[k].kind = "guest"
    BY <1>2 DEF Layout, GuestRun
  <2>2. IsExec(t, e) /\ \A k \in (e + 1)..i : t[k].kind = "guest"
    BY <1>1, <2>1 DEF IsExec
  <2> QED BY <2>2 DEF GuestRun
<1> QED BY <1>1, <1>2 DEF Layout

\* Returning to a caller.
LEMMA LayoutPrefix ==
    ASSUME NEW s \in Seq(Frames), Layout(s), NEW n \in 0..Len(s)
    PROVE  Layout(SubSeq(s, 1, n))
<1> DEFINE t == SubSeq(s, 1, n)
<1>1. Len(s) \in Nat /\ Len(t) = n /\ \A k \in 1..n : t[k] = s[k]
  BY PrefixOfStack, LenProperties
<1> HIDE DEF t
<1>2. ASSUME NEW i \in 1..n, s[i].kind = "guest"
      PROVE  GuestRun(t, i)
  <2>1. PICK e \in 1..(i - 1) : IsExec(s, e) /\ \A k \in (e + 1)..i : s[k].kind = "guest"
    BY <1>1, <1>2 DEF Layout, GuestRun
  <2>2. IsExec(t, e) /\ \A k \in (e + 1)..i : t[k].kind = "guest"
    BY <1>1, <2>1 DEF IsExec
  <2> QED BY <2>2 DEF GuestRun
<1>3. ASSUME NEW i \in 1..n PROVE i \in 1..Len(s) /\ (i > 1 => i - 1 \in 1..n)
  BY <1>1
<1>4. Layout(t)
  BY <1>1, <1>2, <1>3 DEF Layout
<1> QED BY <1>4 DEF t

\* Nothing but the activation on top is a call, an interpreter or an import.
LEMMA LayoutPush ==
    ASSUME NEW s \in Seq(Frames), Layout(s), NEW g \in Frames, MayPush(s, g)
    PROVE  Layout(Append(s, g))
<1> DEFINE t == Append(s, g)
           n == Len(s)
<1>1. n \in Nat /\ Len(t) = n + 1 /\ t[n + 1] = g /\ \A k \in 1..n : t[k] = s[k]
  BY AppendProperties, LenProperties
<1>2. n = 0 <=> s = <<>>
  BY EmptySeq
<1> HIDE DEF t
<1>3. ASSUME NEW i \in 1..n, s[i].kind = "guest"
      PROVE  GuestRun(t, i)
  <2>1. PICK e \in 1..(i - 1) : IsExec(s, e) /\ \A k \in (e + 1)..i : s[k].kind = "guest"
    BY <1>3 DEF Layout, GuestRun
  <2>2. IsExec(t, e) /\ \A k \in (e + 1)..i : t[k].kind = "guest"
    BY <1>1, <2>1 DEF IsExec
  <2> QED BY <2>2 DEF GuestRun
<1>4. ASSUME g.kind = "guest" PROVE GuestRun(t, n + 1)
  <2>1. n # 0 /\ s[n].kind \in {"guest", "exec"}
    BY <1>2, <1>4 DEF MayPush
  <2>2. CASE s[n].kind = "exec"
    <3>1. IsExec(t, n) /\ \A k \in (n + 1)..(n + 1) : t[k].kind = "guest"
      BY <1>1, <1>4, <2>1, <2>2 DEF IsExec
    <3> QED BY <1>1, <2>1, <3>1 DEF GuestRun
  <2>3. CASE s[n].kind = "guest"
    <3>1. PICK e \in 1..(n - 1) : IsExec(s, e) /\ \A k \in (e + 1)..n : s[k].kind = "guest"
      BY <1>1, <2>1, <2>3 DEF Layout, GuestRun
    <3>2. IsExec(t, e) /\ \A k \in (e + 1)..(n + 1) : t[k].kind = "guest"
      BY <1>1, <1>4, <3>1 DEF IsExec
    <3> QED BY <1>1, <3>2 DEF GuestRun
  <2> QED BY <2>1, <2>2, <2>3
<1>5. \A i \in 1..n : s[i].kind \notin {"call", "interp", "import"}
  BY <1>1, <1>2 DEF MayPush, Layout
<1>6. \A i \in 1..n : i > 1 => i - 1 \in 1..n
  BY <1>1
<1>7. ASSUME NEW i \in 1..n
      PROVE  /\ t[i].kind \in {"call", "interp", "exec"} /\ i > 1 => t[i - 1].kind = "handler"
             /\ t[i].kind \in {"import", "handler"} /\ i > 1 => t[i - 1].kind = "guest"
             /\ t[i].kind = "import" => i > 1
  BY <1>1, <1>6 DEF Layout
<1>8. /\ g.kind \in {"call", "interp", "exec"} /\ n + 1 > 1 => t[n].kind = "handler"
      /\ g.kind \in {"import", "handler"} /\ n + 1 > 1 => t[n].kind = "guest"
      /\ g.kind = "import" => n + 1 > 1
  BY <1>1, <1>2 DEF MayPush
<1>9. ASSUME NEW i \in 1..(n + 1)
      PROVE  /\ t[i].kind \in {"call", "interp", "import"} => i = n + 1
             /\ t[i].kind \in {"call", "interp", "exec"} /\ i > 1 => t[i - 1].kind = "handler"
             /\ t[i].kind \in {"import", "handler"} /\ i > 1 => t[i - 1].kind = "guest"
             /\ t[i].kind = "import" => i > 1
             /\ t[i].kind = "guest" => GuestRun(t, i)
  <2>1. CASE i \in 1..n
    BY <1>1, <1>3, <1>5, <1>7, <2>1
  <2>2. CASE i = n + 1
    <3>1. i - 1 = n
      BY <1>1, <2>2
    <3> HIDE DEF n
    <3> QED BY <1>1, <1>4, <1>8, <2>2, <3>1
  <2> QED BY <1>1, <2>1, <2>2
<1>10. Layout(t)
  BY <1>1, <1>9 DEF Layout
<1> QED BY <1>10 DEF t

-----------------------------------------------------------------------------
(* The stack between two steps *)

Good(s) ==
    /\ s \in Seq(Frames)
    /\ Layout(s)
    /\ \A i \in 1..Len(s) : Honest(s[i])

Calling(s) == s # <<>> /\ s[Len(s)].kind = "call"

\* A failure lies on or above the innermost guest call, so all of them fail.
Answered(s) ==
    \E c \in 1..Len(s) : Failing(s[c]) /\ \A e \in 1..Len(s) : IsExec(s, e) => e <= c

\* From s to t the m lowest activations stay, those that left carried no
\* failure, and those that came run outdated code only if some is cached.
Passes(s, t, m) ==
    /\ m \in 0..Len(s) /\ m <= Len(t)
    /\ \A k \in 1..m : /\ t[k].kind = s[k].kind
                       /\ t[k].stale = s[k].stale
                       /\ Failing(s[k]) => Failing(t[k])
    /\ \A k \in (m + 1)..Len(s) : ~Failing(s[k])
    /\ \A k \in (m + 1)..Len(t) : t[k].stale => stale # {}

Fresh(t, m) == \A k \in (m + 1)..Len(t) : ~t[k].stale

\* The frames of s changed for the worse.
LEMMA GoodWorse ==
    ASSUME NEW s, Good(s), NEW t, Worse(s, t)
    PROVE  Good(t) /\ (~Calling(s) => ~Calling(t))
<1>1. s \in Seq(Frames) /\ SameShape(s, t) /\ Layout(s) /\ t \in Seq(Frames) /\ Len(t) = Len(s)
      /\ Len(s) \in Nat
  BY LenProperties DEF Good, Worse, SameShape
<1>2. Layout(t)
  BY <1>1, LayoutSame
<1>3. \A i \in 1..Len(t) : Honest(t[i])
  BY <1>1 DEF Good, Worse
<1>4. Calling(t) => Calling(s)
  <2> SUFFICES ASSUME Calling(t) PROVE Calling(s)
    OBVIOUS
  <2>1. Len(t) # 0
    BY <1>1, EmptySeq DEF Calling
  <2>2. Len(s) \in 1..Len(s) /\ s # <<>>
    BY <1>1, <2>1, EmptySeq
  <2>3. s[Len(s)].kind = t[Len(s)].kind
    BY <1>1, <2>2 DEF SameShape, Agree
  <2> QED BY <1>1, <2>2, <2>3 DEF Calling
<1> QED BY <1>1, <1>2, <1>3, <1>4 DEF Good

\* Below a running activation nothing is a call.
LEMMA GoodPrefix ==
    ASSUME NEW s, Good(s), NEW n \in Nat, n < Len(s)
    PROVE  LET t == SubSeq(s, 1, n) IN
           /\ Good(t) /\ ~Calling(t) /\ Len(t) = n
           /\ \A k \in 1..n : t[k] = s[k]
<1> DEFINE t == SubSeq(s, 1, n)
<1>1. s \in Seq(Frames) /\ n \in 0..Len(s) /\ Len(s) \in Nat
  BY LenProperties DEF Good
<1>2. t \in Seq(Frames) /\ Len(t) = n /\ \A k \in 1..n : t[k] = s[k]
  BY <1>1, PrefixOfStack
<1>3. Layout(t)
  BY <1>1, LayoutPrefix DEF Good
<1> HIDE DEF t
<1>4. Good(t)
  BY <1>1, <1>2, <1>3 DEF Good
<1>5. ~Calling(t)
  <2> SUFFICES ASSUME Calling(t) PROVE FALSE
    OBVIOUS
  <2>1. n # 0
    BY <1>2, EmptySeq DEF Calling
  <2>2. n \in 1..Len(s) /\ s[n].kind = "call"
    BY <1>1, <1>2, <2>1 DEF Calling
  <2> QED BY <1>1, <2>2 DEF Good, Layout
<1> QED BY <1>2, <1>4, <1>5 DEF t

\* A new activation on top.
LEMMA GoodPush ==
    ASSUME NEW s, Good(s), NEW g \in Frames, MayPush(s, g), Honest(g)
    PROVE  LET t == Append(s, g) IN
           /\ Good(t) /\ Len(t) = Len(s) + 1 /\ t[Len(t)] = g
           /\ \A k \in 1..Len(s) : t[k] = s[k]
           /\ Calling(t) => g.kind = "call"
<1> DEFINE t == Append(s, g)
<1>1. s \in Seq(Frames) /\ Len(s) \in Nat
  BY LenProperties DEF Good
<1>2. t \in Seq(Frames) /\ Len(t) = Len(s) + 1 /\ t[Len(t)] = g
      /\ \A k \in 1..Len(s) : t[k] = s[k]
  BY <1>1, AppendProperties
<1>3. Layout(t)
  BY <1>1, LayoutPush DEF Good
<1> HIDE DEF t
<1>4. \A k \in 1..Len(t) : Honest(t[k])
  <2> TAKE k \in 1..Len(t)
  <2>1. k \in 1..Len(s) \/ k = Len(t)
    BY <1>1, <1>2
  <2> QED BY <1>2, <2>1 DEF Good
<1>5. Calling(t) => g.kind = "call"
  BY <1>2 DEF Calling
<1> QED BY <1>2, <1>3, <1>4, <1>5 DEF Good, t

\* A new frame carries no failure.
LEMMA FrameFresh ==
    ASSUME NEW f \in Functions,
           NEW kind \in {"call", "exec", "guest", "handler", "import", "interp"}
    PROVE  LET g == Frame(kind, f) IN
           g \in Frames /\ g.kind = kind /\ ~g.stale /\ ~Failing(g) /\ Honest(g)
BY FrameTyped DEF Frame, Failing, Honest

\* A failure on top, or in the innermost guest call, answers all of them.
LEMMA AnsweredTop ==
    ASSUME NEW s, NEW a, NEW p, Scoped(s, a, p), NEW c \in {a, Len(s)}, c # 0, Failing(s[c])
    PROVE  Answered(s)
<1>1. s \in Seq(Frames) /\ Len(s) \in Nat /\ a \in Nat /\ (a # 0 => a \in 1..Len(s))
  BY ActiveHasGuest
<1>2. c \in 1..Len(s)
  BY <1>1
<1>3. \A e \in 1..Len(s) : IsExec(s, e) => e <= c
  BY <1>1, <1>2 DEF Scoped
<1> QED BY <1>2, <1>3 DEF Answered

\* A call returning a failure to the handler below, or to the embedder.
LEMMA FailureReturns ==
    ASSUME NEW s, Good(s), s # <<>> => s[Len(s)].kind = "handler", Scoped(s, active', sp'),
           NEW r \in Results, r # "ok", NEW before, ReturnTo(s, r, before)
    PROVE  /\ Good(stack') /\ ~Calling(stack')
           /\ stack' # <<>> => Answered(stack')
           /\ stack' = <<>> => hostResult' # "ok"
<1>1. CASE s = <<>>
  <2>1. stack' = <<>> /\ hostResult' = r
    BY <1>1 DEF ReturnTo
  <2> QED BY <1>1, <2>1 DEF Calling
<1>2. CASE s # <<>>
  <2>1. s \in Seq(Frames) /\ s[Len(s)].kind = "handler" /\ ~Calling(s)
    BY <1>2 DEF Good, Calling
  <2>2. /\ Worse(s, stack') /\ Len(s) \in 1..Len(s) /\ Failing(stack'[Len(s)])
        /\ Len(stack') = Len(s)
    BY <1>2, <2>1, ReturnWorse DEF Worse, SameShape
  <2>3. Good(stack') /\ ~Calling(stack')
    BY <2>1, <2>2, GoodWorse
  <2>4. Scoped(stack', active', sp')
    BY <2>2, ScopedSame DEF Worse, SameShape
  <2>5. Answered(stack')
    BY <2>2, <2>4, AnsweredTop
  <2>6. stack' # <<>>
    BY <2>2, EmptySeq
  <2> QED BY <2>3, <2>5, <2>6
<1> QED BY <1>1, <1>2

-----------------------------------------------------------------------------
(* What a step other than a drain or a store does *)

Goes ==
    \E m \in 0..Len(stack) :
        /\ Passes(stack, stack', m)
        /\ \/ GuestCodeRuns \/ TopIs("call")
           \/ active' = active /\ Fresh(stack', m)

Effect ==
    /\ Good(stack') /\ ~Calling(stack')
    /\ HandlersPropagate =>
          \/ stack' # <<>> /\ Answered(stack')
          \/ stack' = <<>> /\ (failed' => hostResult' # "ok")
          \/ (failed' => failed /\ stack # <<>>) /\ Goes

\* No activation enters or leaves.
LEMMA Stays ==
    ASSUME Good(stack), ~Calling(stack), Worse(stack, stack'), SameCode(stack, stack'),
           active' = active, failed' => failed /\ stack # <<>>
    PROVE  Effect
<1>1. Good(stack') /\ ~Calling(stack')
  BY GoodWorse
<1>2. Len(stack) \in Nat /\ Len(stack') = Len(stack) /\ stack \in Seq(Frames)
  BY LenProperties DEF Good, Worse, SameShape
<1>3. Passes(stack, stack', Len(stack)) /\ Fresh(stack', Len(stack))
  BY <1>2 DEF Worse, SameCode, SameShape, Agree, Passes, Fresh
<1> QED BY <1>1, <1>2, <1>3 DEF Effect, Goes

\* An activation enters that opens no scope.
LEMMA Enters ==
    ASSUME Good(stack), NEW s, Worse(stack, s), SameCode(stack, s),
           NEW g \in Frames, MayPush(s, g), Honest(g), g.kind # "call",
           g.stale => GuestCodeRuns /\ stale # {}, stack' = Append(s, g),
           active' = active, failed' => failed /\ stack # <<>>
    PROVE  Effect
<1>1. Good(s) /\ Len(s) = Len(stack) /\ Len(stack) \in Nat
  BY GoodWorse, LenProperties DEF Good, Worse, SameShape
<1>2. /\ Good(stack') /\ Len(stack') = Len(s) + 1 /\ stack'[Len(stack')] = g
      /\ \A k \in 1..Len(s) : stack'[k] = s[k]
      /\ ~Calling(stack')
  BY <1>1, GoodPush
<1>3. \A k \in (Len(stack) + 1)..Len(stack') : k = Len(stack')
  BY <1>1, <1>2
<1>4. Passes(stack, stack', Len(stack))
  <2>1. \A k \in 1..Len(stack) : /\ stack'[k].kind = stack[k].kind
                                 /\ stack'[k].stale = stack[k].stale
                                 /\ Failing(stack[k]) => Failing(stack'[k])
    BY <1>1, <1>2 DEF Worse, SameCode, SameShape, Agree
  <2>2. Len(stack) \in 0..Len(stack) /\ Len(stack) <= Len(stack')
        /\ (Len(stack) + 1)..Len(stack) = {}
    BY <1>1, <1>2
  <2> QED BY <1>2, <1>3, <2>1, <2>2 DEF Passes
<1>5. GuestCodeRuns \/ Fresh(stack', Len(stack))
  BY <1>2, <1>3 DEF Fresh
<1> QED BY <1>1, <1>2, <1>4, <1>5 DEF Effect, Goes

\* Activations that carry no failure leave.
LEMMA Leaves ==
    ASSUME Good(stack), NEW n \in Nat, n < Len(stack),
           \A k \in (n + 1)..Len(stack) : ~Failing(stack[k]),
           Worse(SubSeq(stack, 1, n), stack'), SameCode(SubSeq(stack, 1, n), stack'),
           active' = active \/ GuestCodeRuns, failed' => failed
    PROVE  Effect
<1> DEFINE s == SubSeq(stack, 1, n)
<1>1. Good(s) /\ ~Calling(s) /\ Len(s) = n /\ \A k \in 1..n : s[k] = stack[k]
  BY GoodPrefix
<1>2. Worse(s, stack') /\ SameCode(s, stack')
  OBVIOUS
<1> HIDE DEF s
<1>3. Good(stack') /\ ~Calling(stack') /\ Len(stack') = n
  BY <1>1, <1>2, GoodWorse DEF Worse, SameShape
<1>4. Len(stack) \in Nat /\ n \in 0..Len(stack) /\ stack # <<>>
  BY LenProperties, EmptySeq DEF Good
<1>5. Passes(stack, stack', n) /\ Fresh(stack', n)
  BY <1>1, <1>2, <1>3, <1>4 DEF Worse, SameCode, SameShape, Agree, Passes, Fresh
<1> QED BY <1>3, <1>4, <1>5 DEF Effect, Goes

\* The innermost guest call below is made to fail.
LEMMA Marks ==
    ASSUME NEW s, Good(s), ~Calling(s), Scoped(s, active, sp), active # 0,
           NEW reason \in Reasons \ {"None"}, NEW failure \in Results,
           reason = "NativeOverrideFailed" => failure # "ok",
           stack' = Mark(s, reason, failure)
    PROVE  /\ Good(stack') /\ ~Calling(stack') /\ stack' # <<>> /\ Answered(stack')
           /\ Worse(s, stack') /\ SameCode(s, stack')
<1>1. active \in 1..Len(s) /\ IsExec(s, active) /\ s \in Seq(Frames) /\ Len(s) \in Nat
  BY ActiveHasGuest DEF Scoped
<1>2. Worse(s, stack') /\ SameCode(s, stack') /\ Failing(stack'[active])
  BY <1>1, MarkWorse
<1>3. Good(stack') /\ ~Calling(stack') /\ Scoped(stack', active, sp) /\ Len(stack') = Len(s)
  BY <1>2, GoodWorse, ScopedSame DEF Worse, SameShape
<1>4. Answered(stack')
  BY <1>2, <1>3, AnsweredTop
<1>5. stack' # <<>>
  BY <1>1, <1>3, EmptySeq
<1> QED BY <1>2, <1>3, <1>4, <1>5

\* Above the innermost guest call there are only guest functions.
LEMMA RunningGuest ==
    ASSUME StackInv, Good(stack), TopIs("guest")
    PROVE  /\ Depth \in Nat /\ active \in 1..(Depth - 1) /\ active # 0
           /\ IsExec(stack, active)
           /\ \A k \in (active + 1)..Depth : stack[k].kind = "guest"
<1>1. stack # <<>> /\ Depth \in 1..Depth /\ Depth \in Nat /\ active # 0
      /\ active \in 1..Depth /\ active < Depth
  BY TopFacts DEF TopIs
<1>2. IsExec(stack, active) /\ \A i \in 1..Depth : IsExec(stack, i) => i <= active
  BY <1>1 DEF StackInv, Scoped, Depth
<1>3. stack[Depth].kind = "guest"
  BY DEF TopIs, Top
<1>4. GuestRun(stack, Depth)
  BY <1>1, <1>3 DEF Good, Layout, Depth
<1>5. PICK e \in 1..(Depth - 1) :
          IsExec(stack, e) /\ \A k \in (e + 1)..Depth : stack[k].kind = "guest"
  BY <1>4 DEF GuestRun
<1>6. e <= active
  BY <1>1, <1>2, <1>5
<1>7. ~(e < active)
  BY <1>1, <1>2, <1>5 DEF IsExec
<1>8. e = active
  BY <1>1, <1>5, <1>6, <1>7
<1> QED BY <1>1, <1>2, <1>5, <1>8

\* A call returning success to the handler below, or to the embedder.
LEMMA SuccessReturns ==
    ASSUME NEW s, Good(s), s # <<>> => s[Len(s)].kind = "handler", NEW before,
           ReturnTo(s, "ok", before)
    PROVE  Worse(s, stack') /\ SameCode(s, stack') /\ failed' = (before \/ FALSE)
<1>1. s \in Seq(Frames) /\ "ok" \in Results
  BY DEF Good, Results
<1>2. CASE s = <<>>
  BY <1>1, <1>2, WorseSame DEF ReturnTo
<1>3. CASE s # <<>>
  BY <1>1, <1>3, ReturnWorse DEF ReturnTo
<1> QED BY <1>2, <1>3 DEF ReturnTo

\* What lies below the activation on top.
LEMMA BelowTop ==
    ASSUME StackInv, Good(stack), stack # <<>>
    PROVE  /\ Depth \in Nat /\ Depth # 0 /\ Depth - 1 \in Nat /\ Depth - 1 < Len(stack)
           /\ stack[Depth] = Top /\ Top \in Frames
           /\ Good(Below) /\ ~Calling(Below) /\ Len(Below) = Depth - 1
           /\ Below # <<>> <=> Depth # 1
           /\ Below = SubSeq(stack, 1, Depth - 1)
           /\ \A k \in ((Depth - 1) + 1)..Len(stack) : k = Depth
           /\ \A k \in 1..(Depth - 1) : Below[k] = stack[k]
           /\ ~TopIs("guest") => Scoped(Below, active, sp)
           /\ Top.kind \in {"call", "interp"} /\ Below # <<>> =>
                 Below[Len(Below)].kind = "handler"
           /\ Top.kind = "import" => active # 0
           /\ Top.kind = "handler" /\ Depth # 1 => active # 0
<1>1. Depth \in Nat /\ Depth \in 1..Depth /\ Top \in Frames /\ active \in Nat
  BY TopFacts
<1>2. Depth - 1 \in Nat /\ Depth - 1 < Len(stack) /\ Depth # 0
  BY <1>1 DEF Depth
<1>3. /\ Good(Below) /\ ~Calling(Below) /\ Len(Below) = Depth - 1
      /\ \A k \in 1..(Depth - 1) : Below[k] = stack[k]
  BY <1>2, GoodPrefix DEF Below
<1>4. Below # <<>> <=> Depth # 1
  <2>1. Below \in Seq(Frames)
    BY <1>3 DEF Good
  <2> QED BY <1>1, <1>2, <1>3, <2>1, EmptySeq
<1>5. ~TopIs("guest") => Scoped(Below, active, sp)
  BY TopFacts, ScopedPop DEF StackInv, Below, Depth
<1>6. \A i \in 1..Depth :
         /\ stack[i].kind \in {"call", "interp", "exec"} /\ i > 1 => stack[i - 1].kind = "handler"
         /\ stack[i].kind \in {"import", "handler"} /\ i > 1 => stack[i - 1].kind = "guest"
         /\ stack[i].kind = "import" => i > 1
  BY DEF Good, Layout, Depth
<1>7. Top.kind \in {"call", "interp"} /\ Below # <<>> => Below[Len(Below)].kind = "handler"
  <2> SUFFICES ASSUME Top.kind \in {"call", "interp"}, Below # <<>>
               PROVE  Below[Len(Below)].kind = "handler"
    OBVIOUS
  <2>1. Depth > 1 /\ Depth - 1 \in 1..(Depth - 1)
    BY <1>1, <1>4
  <2>2. stack[Depth - 1].kind = "handler"
    BY <1>1, <1>6, <2>1 DEF Top
  <2> QED BY <1>3, <2>1, <2>2
<1>8. ASSUME Top.kind \in {"import", "handler"}, Depth # 1 PROVE active # 0
  <2>1. Depth > 1 /\ Depth - 1 \in 1..Depth
    BY <1>1, <1>8
  <2>2. stack[Depth - 1].kind = "guest"
    BY <1>1, <1>6, <1>8, <2>1 DEF Top
  <2>3. PICK j \in 1..(Depth - 2) : IsExec(stack, j)
    <3>1. Depth - 1 - 1 = Depth - 2
      BY <1>1
    <3> QED BY <2>1, <2>2, <3>1 DEF StackInv, Scoped, Depth
  <2>4. j \in 1..Depth /\ j <= active
    BY <1>1, <2>3 DEF StackInv, Scoped, Depth
  <2> QED BY <1>1, <2>4
<1>9. Top.kind = "import" => Depth # 1
  BY <1>1, <1>6 DEF Top
<1>10. \A k \in ((Depth - 1) + 1)..Len(stack) : k = Depth
  BY <1>1 DEF Depth
<1> QED BY <1>1, <1>2, <1>3, <1>4, <1>5, <1>7, <1>8, <1>9, <1>10 DEF Below, Top

\* Nothing running is failing, nor is what leaves without a failure.
LEMMA NotFailing ==
    ASSUME NEW f, f.kind \in {"call", "guest", "import", "interp"}
    PROVE  ~Failing(f)
BY DEF Failing

\* The interpreter returns.
LEMMA LeaveInterpreterEffect ==
    ASSUME StackInv, StackInv', Good(stack), NEW r \in {"ok", "InterpreterFallback"},
           LeaveInterpreter(r)
    PROVE  Effect
<1>1. stack # <<>> /\ Top.kind = "interp" /\ ReturnTo(Below, r, failed) /\ r \in Results
      /\ active' = active /\ sp' = sp /\ ~TopIs("guest") /\ failed \in BOOLEAN
  BY DEF LeaveInterpreter, TopIs, scopeVars, Results, Errors, StackInv
<1>2. Good(Below) /\ (Below # <<>> => Below[Len(Below)].kind = "handler")
      /\ Scoped(Below, active', sp')
  BY <1>1, BelowTop
<1>3. CASE r = "ok"
  <2>1. Worse(Below, stack') /\ SameCode(Below, stack') /\ failed' = failed
    BY <1>1, <1>2, <1>3, SuccessReturns
  <2>2. \A k \in ((Depth - 1) + 1)..Len(stack) : ~Failing(stack[k])
    BY <1>1, BelowTop, NotFailing
  <2>3. Depth - 1 \in Nat /\ Depth - 1 < Len(stack)
    BY <1>1, BelowTop
  <2> QED BY <1>1, <2>1, <2>2, <2>3, Leaves DEF Below
<1>4. CASE r # "ok"
  BY <1>1, <1>2, <1>4, FailureReturns DEF Effect
<1> QED BY <1>3, <1>4

\* The interpreter enters in place of the call.
LEMMA EnterInterpreterEffect ==
    ASSUME StackInv, Good(stack), EnterInterpreter
    PROVE  Effect
<1> DEFINE g == Frame("interp", Top.fn)
<1>1. stack # <<>> /\ Top.kind = "call" /\ stack' = Append(Below, g)
      /\ active' = active /\ failed' = failed /\ TopIs("call")
  BY DEF EnterInterpreter, TopIs, scopeVars
<1>2. /\ Top.fn \in Functions
      /\ Good(Below) /\ (Below # <<>> => Below[Len(Below)].kind = "handler")
      /\ Len(Below) = Depth - 1 /\ Depth \in Nat /\ Depth # 0
      /\ \A k \in ((Depth - 1) + 1)..Len(stack) : k = Depth
      /\ \A k \in 1..(Depth - 1) : Below[k] = stack[k]
      /\ ~Failing(stack[Depth])
  BY <1>1, BelowTop, NotFailing DEF Frames
<1>3. g \in Frames /\ g.kind = "interp" /\ ~g.stale /\ Honest(g)
  BY <1>2, FrameFresh
<1>4. MayPush(Below, g)
  BY <1>2, <1>3 DEF MayPush
<1> HIDE DEF g
<1>5. /\ Good(stack') /\ ~Calling(stack') /\ Len(stack') = Depth
      /\ stack'[Depth] = g /\ \A k \in 1..(Depth - 1) : stack'[k] = stack[k]
  BY <1>1, <1>2, <1>3, <1>4, GoodPush
<1>6. Passes(stack, stack', Depth - 1)
  <2>1. \A k \in ((Depth - 1) + 1)..Len(stack') : k = Depth
    BY <1>2, <1>5
  <2> QED BY <1>2, <1>3, <1>5, <2>1 DEF Passes, Depth
<1>7. Depth - 1 \in 0..Len(stack)
  BY <1>2 DEF Depth
<1> QED BY <1>1, <1>5, <1>6, <1>7 DEF Effect, Goes

\* A guest call enters, or is refused.
LEMMA EnterTranslatedEffect ==
    ASSUME StackInv, StackInv', Good(stack), EnterTranslated
    PROVE  Effect
<1>1. stack # <<>> /\ Top.kind = "call" /\ TopIs("call") /\ ~TopIs("guest")
      /\ failed \in BOOLEAN
  BY DEF EnterTranslated, TopIs, StackInv
<1>2. /\ Top.fn \in Functions /\ Top.blocks \in Nat /\ active \in Nat /\ sp \in Nat
      /\ Good(Below) /\ (Below # <<>> => Below[Len(Below)].kind = "handler")
      /\ Len(Below) = Depth - 1 /\ Depth \in Nat /\ Depth # 0
      /\ \A k \in ((Depth - 1) + 1)..Len(stack) : k = Depth
      /\ \A k \in 1..(Depth - 1) : Below[k] = stack[k]
      /\ ~Failing(stack[Depth]) /\ Scoped(Below, active, sp)
  <2>1. Top \in Frames /\ active \in Nat /\ sp \in Nat
    BY <1>1, TopFacts
  <2>2. Top.fn \in Functions /\ Top.blocks \in Nat
    BY <2>1 DEF Frames
  <2>3. ~Failing(stack[Depth])
    BY <1>1 DEF Failing, Top
  <2> QED BY <1>1, <2>1, <2>2, <2>3, BelowTop
<1>3. ASSUME NEW r \in {"ExecutionBudgetInvalid", "ExecutionFailed"},
             ReturnTo(Below, r, failed), UNCHANGED scopeVars
      PROVE  Effect
  <2>1. r \in Results /\ r # "ok" /\ Scoped(Below, active', sp')
    BY <1>2, <1>3 DEF Results, Errors, scopeVars
  <2> QED BY <1>2, <1>3, <2>1, FailureReturns DEF Effect
<1>4. CASE /\ stack' = Below \o
                   <<[Frame("exec", Top.fn) EXCEPT !.blocks = Top.blocks,
                                                   !.prev = active, !.psp = sp],
                     [Frame("guest", Top.fn) EXCEPT !.stale = Top.fn \in stale]>>
           /\ failed' = failed
  <2> DEFINE e == [Frame("exec", Top.fn) EXCEPT !.blocks = Top.blocks,
                                                !.prev = active, !.psp = sp]
             g == [Frame("guest", Top.fn) EXCEPT !.stale = Top.fn \in stale]
             s == Append(Below, e)
  <2>1. e \in Frames /\ e.kind = "exec" /\ ~e.stale /\ Honest(e)
    BY <1>2 DEF Frame, Frames, Results, Reasons, Honest
  <2>2. g \in Frames /\ g.kind = "guest"
    BY <1>2, GuestFrameTyped, Zenon
  <2>3. Honest(g) /\ (g.stale => stale # {})
    <3>1. g.stale = (Top.fn \in stale)
      BY DEF Frame
    <3> QED BY <2>2, <3>1 DEF Honest
  <2>4. stack' = Below \o <<e, g>>
    BY <1>4
  <2> HIDE DEF e, g
  <2>5. MayPush(Below, e)
    BY <1>2, <2>1 DEF MayPush
  <2>6. /\ Good(s) /\ Len(s) = Depth /\ s[Depth] = e
        /\ \A k \in 1..(Depth - 1) : s[k] = stack[k]
    BY <1>2, <2>1, <2>5, GoodPush
  <2>7. s # <<>> /\ s \in Seq(Frames)
    BY <1>2, <2>6, EmptySeq DEF Good
  <2>8. stack' = Append(s, g)
    <3>1. Below \in Seq(Frames) /\ Len(Below) \in Nat
      BY <1>2, LenProperties DEF Good
    <3> QED BY <2>1, <2>2, <2>4, <3>1
  <2> HIDE DEF s
  <2>9. MayPush(s, g)
    BY <2>1, <2>2, <2>6, <2>7 DEF MayPush
  <2>10. /\ Good(stack') /\ ~Calling(stack') /\ Len(stack') = Depth + 1
         /\ stack'[Depth + 1] = g /\ \A k \in 1..Depth : stack'[k] = s[k]
    BY <2>2, <2>3, <2>6, <2>8, <2>9, GoodPush
  <2>11. Passes(stack, stack', Depth - 1)
    <3>1. \A k \in ((Depth - 1) + 1)..Len(stack') : k = Depth \/ k = Depth + 1
      BY <1>2, <2>10
    <3>2. Depth \in 1..Depth
      BY <1>2
    <3>3. \A k \in ((Depth - 1) + 1)..Len(stack') : stack'[k].stale => stale # {}
      BY <2>1, <2>3, <2>6, <2>10, <3>1, <3>2
    <3>4. \A k \in 1..(Depth - 1) : stack'[k] = stack[k]
      BY <1>2, <2>6, <2>10
    <3>5. Depth - 1 \in 0..Len(stack) /\ Depth - 1 <= Len(stack')
      BY <1>2, <2>10 DEF Depth
    <3> QED BY <1>2, <3>3, <3>4, <3>5 DEF Passes
  <2>12. Depth - 1 \in 0..Len(stack)
    BY <1>2 DEF Depth
  <2> QED BY <1>1, <1>4, <2>10, <2>11, <2>12 DEF Effect, Goes
<1> QED BY <1>3, <1>4 DEF EnterTranslated

\* A guest function acts: only the place in its block and a budget change.
LEMMA ActedWorse ==
    ASSUME NEW s \in Seq(Frames), s # <<>>, NEW b \in {"before", "inside", "acted"}
    PROVE  LET t == [s EXCEPT ![Len(s)].block = b] IN Worse(s, t) /\ SameCode(s, t)
<1>1. Len(s) \in 1..Len(s) /\ s[Len(s)] \in Frames
  <2>1. Len(s) \in Nat /\ Len(s) # 0
    BY FrameFields, EmptySeq
  <2> QED BY <2>1, FrameFields
<1> DEFINE g == [s[Len(s)] EXCEPT !.block = b]
<1>2. /\ g \in Frames /\ g.kind = s[Len(s)].kind /\ g.prev = s[Len(s)].prev
      /\ g.psp = s[Len(s)].psp /\ g.stale = s[Len(s)].stale
      /\ g.reason = s[Len(s)].reason /\ g.result = s[Len(s)].result
  BY <1>1 DEF Frames
<1> HIDE DEF g
<1>3. (Failing(s[Len(s)]) => Failing(g)) /\ (Honest(s[Len(s)]) => Honest(g))
  BY <1>2 DEF Failing, Honest
<1>4. Worse(s, [s EXCEPT ![Len(s)] = g]) /\ SameCode(s, [s EXCEPT ![Len(s)] = g])
  BY <1>1, <1>2, <1>3, ReplaceWorse
<1> QED BY <1>4 DEF g

\* Charging a budget, or counting a handler's calls, hides no failure.
LEMMA BlocksWorse ==
    ASSUME NEW s \in Seq(Frames), NEW i \in 1..Len(s), NEW n \in Nat
    PROVE  LET t == [s EXCEPT ![i].blocks = n] IN Worse(s, t) /\ SameCode(s, t)
<1>1. s[i] \in Frames
  BY FrameFields
<1> DEFINE g == [s[i] EXCEPT !.blocks = n]
<1>2. /\ g \in Frames /\ g.kind = s[i].kind /\ g.prev = s[i].prev
      /\ g.psp = s[i].psp /\ g.stale = s[i].stale
      /\ g.reason = s[i].reason /\ g.result = s[i].result
  BY <1>1 DEF Frames
<1> HIDE DEF g
<1>3. (Failing(s[i]) => Failing(g)) /\ (Honest(s[i]) => Honest(g))
  BY <1>2 DEF Failing, Honest
<1>4. Worse(s, [s EXCEPT ![i] = g]) /\ SameCode(s, [s EXCEPT ![i] = g])
  BY <1>1, <1>2, <1>3, ReplaceWorse
<1> QED BY <1>4 DEF g

\* What holds when guest code is on top.
LEMMA GuestTop ==
    ASSUME StackInv, Good(stack), TopIs("guest")
    PROVE  /\ stack # <<>> /\ stack \in Seq(Frames) /\ ~Calling(stack)
           /\ Top.kind = "guest" /\ Top \in Frames /\ Top.fn \in Functions
           /\ Scoped(stack, active, sp) /\ active # 0 /\ active \in 1..Len(stack)
           /\ stack[active] \in Frames /\ stack[active].blocks \in Nat
           /\ failed \in BOOLEAN
<1>1. stack # <<>> /\ Top.kind = "guest" /\ ~Calling(stack)
  BY DEF TopIs, Calling, Top, Depth
<1>2. /\ stack \in Seq(Frames) /\ Top \in Frames /\ active # 0 /\ active \in 1..Len(stack)
  BY <1>1, TopFacts DEF Depth
<1>3. stack[active] \in Frames
  BY <1>2, FrameFields
<1>4. Top.fn \in Functions /\ stack[active].blocks \in Nat
  BY <1>2, <1>3 DEF Frames
<1> QED BY <1>1, <1>2, <1>3, <1>4 DEF StackInv

\* What Acted leaves.
LEMMA ActedGood ==
    ASSUME StackInv, Good(stack), TopIs("guest")
    PROVE  /\ Worse(stack, Acted) /\ SameCode(stack, Acted)
           /\ Good(Acted) /\ ~Calling(Acted)
           /\ Acted # <<>> /\ Acted[Len(Acted)].kind = "guest"
           /\ Scoped(Acted, active, sp)
<1>1. stack # <<>> /\ stack \in Seq(Frames) /\ ~Calling(stack) /\ Top.kind = "guest"
      /\ Scoped(stack, active, sp)
  BY GuestTop
<1>2. Worse(stack, Acted) /\ SameCode(stack, Acted)
  BY <1>1, ActedWorse DEF Acted, Depth
<1>3. Good(Acted) /\ ~Calling(Acted)
  BY <1>1, <1>2, GoodWorse
<1>4. Scoped(Acted, active, sp)
  BY <1>1, <1>2, ScopedSame DEF Worse, SameShape
<1>5. Len(stack) \in 1..Len(stack) /\ Len(Acted) = Len(stack) /\ Acted \in Seq(Frames)
  BY <1>1, <1>2, TopFacts DEF Worse, SameShape, Depth
<1>6. Acted # <<>> /\ Acted[Len(Acted)].kind = "guest"
  BY <1>1, <1>2, <1>5, EmptySeq DEF Worse, SameShape, Agree, Top, Depth
<1> QED BY <1>2, <1>3, <1>4, <1>6

\* A block is charged, or the budget is exceeded.
LEMMA EnterBlockEffect ==
    ASSUME StackInv, Good(stack), EnterBlock
    PROVE  Effect
<1>1. TopIs("guest") /\ active' = active
  BY DEF EnterBlock, GuestCodeRuns, scopeVars
<1>2. /\ stack # <<>> /\ stack \in Seq(Frames) /\ ~Calling(stack)
      /\ Scoped(stack, active, sp) /\ active # 0 /\ active \in 1..Len(stack)
      /\ stack[active].blocks \in Nat
  BY <1>1, GuestTop
<1>3. CASE stack[active].blocks = 0
  <2>1. stack' = Mark(stack, "BlockBudgetExceeded", "ok")
    BY <1>3 DEF EnterBlock
  <2> QED BY <1>2, <2>1, Marks DEF Effect, Reasons, Results
<1>4. CASE stack[active].blocks # 0
  <2> DEFINE n == stack[active].blocks - 1
             t == [stack EXCEPT ![active].blocks = n]
             u == [t EXCEPT ![Len(t)].block = "inside"]
  <2>1. n \in Nat
    BY <1>2, <1>4
  <2> HIDE DEF n
  <2>2. Worse(stack, t) /\ SameCode(stack, t)
    BY <1>2, <2>1, BlocksWorse
  <2>3. t \in Seq(Frames) /\ Len(t) = Len(stack) /\ t # <<>>
    BY <1>2, <2>2, EmptySeq DEF Worse, SameShape
  <2>4. stack' = u /\ failed' = failed
    BY <1>4, <2>3 DEF EnterBlock, n, Depth
  <2> HIDE DEF t
  <2>5. Worse(t, u) /\ SameCode(t, u)
    BY <2>3, ActedWorse
  <2>6. Worse(stack, stack') /\ SameCode(stack, stack')
    BY <1>2, <2>2, <2>4, <2>5, WorseTrans
  <2> QED BY <1>1, <1>2, <2>4, <2>6, Stays
<1> QED BY <1>3, <1>4

\* Generated code faults.
LEMMA GuestFaultEffect ==
    ASSUME StackInv, Good(stack), GuestFault
    PROVE  Effect
<1>1. TopIs("guest") /\ stack' = Mark(stack, "GuestAccessViolation", "ok")
  BY DEF GuestFault, InsideBlock, GuestCodeRuns
<1> QED BY <1>1, GuestTop, Marks DEF Effect, Reasons, Results

\* Generated code enters an import, an override or a guest function.
LEMMA GuestEnters ==
    ASSUME StackInv, Good(stack), InsideBlock,
           NEW g \in Frames, g.kind \in {"guest", "handler", "import"}, g.reason = "None",
           g.stale => stale # {}, stack' = Append(Acted, g),
           UNCHANGED <<scopeVars, failed>>
    PROVE  Effect
<1>1. TopIs("guest") /\ GuestCodeRuns /\ active' = active /\ failed' = failed
  BY DEF InsideBlock, GuestCodeRuns, scopeVars
<1>2. MayPush(Acted, g) /\ Honest(g)
  BY <1>1, ActedGood DEF MayPush, Honest
<1> QED BY <1>1, <1>2, ActedGood, GuestTop, Enters

\* GuestCall and GuestCallsImport.
LEMMA GuestCallEffect ==
    ASSUME StackInv, Good(stack),
           GuestCallsImport \/ \E f \in Functions : GuestCall(f)
    PROVE  Effect
<1>1. CASE GuestCallsImport
  <2>1. InsideBlock /\ TopIs("guest") /\ stack' = Append(Acted, Frame("import", Top.fn))
        /\ UNCHANGED <<scopeVars, failed>>
    BY <1>1 DEF GuestCallsImport, InsideBlock, GuestCodeRuns
  <2>2. Top.fn \in Functions
    BY <2>1, GuestTop
  <2> DEFINE g == Frame("import", Top.fn)
  <2>3. g \in Frames /\ g.kind = "import" /\ ~g.stale /\ g.reason = "None"
    BY <2>2, FrameTyped DEF Frame
  <2>4. stack' = Append(Acted, g)
    BY <2>1
  <2> HIDE DEF g
  <2> QED BY <2>1, <2>3, <2>4, GuestEnters
<1>2. ASSUME NEW f \in Functions, GuestCall(f)
      PROVE  Effect
  <2> DEFINE g == [Frame("guest", f) EXCEPT !.stale = f \in stale]
             h == Frame("handler", f)
  <2>1. InsideBlock /\ stack' \in {Append(Acted, h), Append(Acted, g)}
        /\ UNCHANGED <<scopeVars, failed>>
    BY <1>2 DEF GuestCall
  <2>2. h \in Frames /\ h.kind = "handler" /\ ~h.stale /\ h.reason = "None"
    BY FrameTyped DEF Frame
  <2>3. g \in Frames /\ g.kind = "guest"
    BY GuestFrameTyped, Zenon
  <2>4. (g.stale => stale # {}) /\ g.reason = "None"
    BY DEF Frame
  <2> HIDE DEF g, h
  <2> QED BY <2>1, <2>2, <2>3, <2>4, GuestEnters
<1> QED BY <1>1, <1>2

\* What the innermost guest call returns to.
LEMMA BelowExec ==
    ASSUME StackInv, Good(stack), TopIs("guest")
    PROVE  LET s == SubSeq(stack, 1, active - 1) IN
           /\ Good(s) /\ active - 1 \in Nat /\ active - 1 < Len(stack)
           /\ s # <<>> => s[Len(s)].kind = "handler"
<1> DEFINE n == active - 1
           s == SubSeq(stack, 1, n)
<1>1. Depth \in Nat /\ active \in 1..(Depth - 1) /\ IsExec(stack, active)
  BY RunningGuest
<1>2. n \in Nat /\ n < Len(stack) /\ active \in 1..Len(stack)
  BY <1>1 DEF Depth
<1>3. Good(s) /\ Len(s) = n /\ \A k \in 1..n : s[k] = stack[k]
  BY <1>2, GoodPrefix
<1>4. active > 1 => stack[active - 1].kind = "handler"
  BY <1>1, <1>2 DEF Good, Layout, IsExec
<1>5. s # <<>> => s[Len(s)].kind = "handler"
  <2> SUFFICES ASSUME s # <<>> PROVE s[Len(s)].kind = "handler"
    OBVIOUS
  <2>1. Len(s) # 0
    BY <1>3, EmptySeq DEF Good
  <2>2. n \in 1..n /\ active > 1
    BY <1>1, <1>2, <1>3, <2>1
  <2> QED BY <1>3, <1>4, <2>2
<1> QED BY <1>2, <1>3, <1>5

\* Success leaves a guest function, or the guest call it is the body of.
LEMMA GuestReturnEffect ==
    ASSUME StackInv, Good(stack), GuestReturn
    PROVE  Effect
<1>1. TopIs("guest") /\ GuestCodeRuns /\ stack # <<>> /\ failed \in BOOLEAN
      /\ stack[active].reason = "None"
  BY DEF GuestReturn, GuestCodeRuns, TopIs, StackInv
<1>2. /\ Depth \in Nat /\ active \in 1..(Depth - 1) /\ IsExec(stack, active)
      /\ \A k \in (active + 1)..Depth : stack[k].kind = "guest"
  BY <1>1, RunningGuest
<1>3. CASE active = Depth - 1
  <2> DEFINE n == active - 1
             s == SubSeq(stack, 1, n)
  <2>1. Good(s) /\ n \in Nat /\ n < Len(stack) /\ (s # <<>> => s[Len(s)].kind = "handler")
    BY <1>1, BelowExec
  <2>2. ReturnTo(s, "ok", failed)
    BY <1>3 DEF GuestReturn, LeaveExec
  <2>3. Worse(s, stack') /\ SameCode(s, stack') /\ failed' = failed
    BY <1>1, <2>1, <2>2, SuccessReturns
  <2>4. \A k \in (n + 1)..Len(stack) : ~Failing(stack[k])
    <3> TAKE k \in (n + 1)..Len(stack)
    <3>1. k = active \/ k \in (active + 1)..Depth
      BY <1>2, <2>1 DEF Depth
    <3>2. ~Failing(stack[active])
      BY <1>1, <1>2 DEF Failing, IsExec
    <3>3. ASSUME k \in (active + 1)..Depth PROVE ~Failing(stack[k])
      BY <1>2, <3>3, NotFailing
    <3> QED BY <3>1, <3>2, <3>3
  <2> HIDE DEF n
  <2> QED BY <1>1, <2>1, <2>3, <2>4, Leaves
<1>4. CASE active # Depth - 1
  <2>1. stack' = Below /\ failed' = failed /\ active' = active
    BY <1>4 DEF GuestReturn, scopeVars
  <2>2. Worse(Below, stack') /\ SameCode(Below, stack')
    BY <1>1, <2>1, BelowTop, WorseSame DEF Good
  <2>3. Depth - 1 \in Nat /\ Depth - 1 < Len(stack)
    BY <1>1, BelowTop
  <2>4. \A k \in ((Depth - 1) + 1)..Len(stack) : ~Failing(stack[k])
    BY <1>1, BelowTop, NotFailing DEF TopIs
  <2> QED BY <2>1, <2>2, <2>3, <2>4, Leaves DEF Below
<1> QED BY <1>3, <1>4

\* An exit reason leaves every guest function of the innermost guest call.
LEMMA ExitGuestCallEffect ==
    ASSUME StackInv, StackInv', Good(stack), ExitGuestCall
    PROVE  Effect
<1> DEFINE s == SubSeq(stack, 1, active - 1)
           r == FailureOf(stack[active])
<1>1. TopIs("guest") /\ stack # <<>> /\ stack[active].reason # "None" /\ LeaveExec(r)
  BY DEF ExitGuestCall, TopIs
<1>2. /\ active # 0 /\ active \in 1..Len(stack) /\ stack[active] \in Frames
      /\ IsExec(stack, active)
  BY <1>1, GuestTop, RunningGuest
<1>3. r \in Results
  BY <1>2, FailureOfTyped
<1>4. r # "ok"
  <2>1. Honest(stack[active])
    BY <1>2 DEF Good
  <2> QED BY <1>1, <1>2, <2>1 DEF FailureOf, Honest, IsExec
<1>5. Good(s) /\ (s # <<>> => s[Len(s)].kind = "handler")
  BY <1>1, BelowExec
<1>6. Scoped(s, active', sp')
  <2>1. Scoped(s, stack[active].prev, stack[active].psp)
    BY <1>2, ScopedLeave DEF StackInv
  <2> HIDE DEF s
  <2> QED BY <1>1, <2>1 DEF LeaveExec
<1>7. ReturnTo(s, r, failed)
  BY <1>1 DEF LeaveExec
<1> HIDE DEF s, r
<1> QED BY <1>3, <1>4, <1>5, <1>6, <1>7, FailureReturns DEF Effect

\* An override returns to the embedder, or to the guest code that called it.
LEMMA HandlerReturnEffect ==
    ASSUME StackInv, Good(stack), HandlerReturn
    PROVE  Effect
<1>1. stack # <<>> /\ Top.kind = "handler" /\ ~TopIs("guest") /\ failed \in BOOLEAN
  BY DEF HandlerReturn, TopIs, StackInv
<1>2. /\ Depth \in Nat /\ Depth - 1 \in Nat /\ Depth - 1 < Len(stack) /\ Top \in Frames
      /\ Good(Below) /\ ~Calling(Below) /\ Scoped(Below, active, sp)
      /\ Below = SubSeq(stack, 1, Depth - 1) /\ (Depth = 1 => Below = <<>>)
      /\ Depth # 1 => active # 0
  BY <1>1, BelowTop
<1>3. PICK r \in HandlerAnswers :
          IF Depth = 1
          THEN /\ ReturnTo(<<>>, r, failed)
               /\ UNCHANGED <<codeVars, tableVars, scopeVars>>
          ELSE DispatchGuest(r)
  BY DEF HandlerReturn
<1>4. r \in Results
  BY <1>2 DEF HandlerAnswers, Frames, Results, Errors
<1>5. active' = active
  BY <1>3 DEF DispatchGuest, scopeVars
<1>6. CASE r # "ok"
  <2>1. CASE Depth = 1
    <3>1. stack' = <<>> /\ hostResult' = r /\ stack' = Below
      BY <1>2, <1>3, <2>1 DEF ReturnTo
    <3> QED BY <1>2, <1>6, <3>1 DEF Effect
  <2>2. CASE Depth # 1
    <3>1. stack' = Mark(Below, "NativeOverrideFailed", r)
      BY <1>3, <1>6, <2>2 DEF DispatchGuest
    <3>2. "NativeOverrideFailed" \in Reasons \ {"None"}
      BY DEF Reasons
    <3> QED BY <1>2, <1>4, <1>6, <2>2, <3>1, <3>2, Marks DEF Effect
  <2> QED BY <2>1, <2>2
<1>7. CASE r = "ok"
  <2>1. stack' = Below /\ failed' = failed
    BY <1>1, <1>2, <1>3, <1>7 DEF DispatchGuest, ReturnTo
  <2>2. CASE HandlersPropagate
    <3>1. Top.result = "ok"
      BY <1>7, <2>2 DEF HandlerAnswers
    <3>2. ~Failing(Top)
      BY <1>1, <3>1 DEF Failing
    <3>3. \A k \in ((Depth - 1) + 1)..Len(stack) : ~Failing(stack[k])
      BY <1>1, <3>2, BelowTop
    <3>4. Worse(SubSeq(stack, 1, Depth - 1), stack')
          /\ SameCode(SubSeq(stack, 1, Depth - 1), stack')
      BY <1>2, <2>1, WorseSame DEF Good
    <3> QED BY <1>2, <1>5, <2>1, <3>3, <3>4, Leaves
  <2>3. CASE ~HandlersPropagate
    BY <1>2, <2>1, <2>3 DEF Effect
  <2> QED BY <2>2, <2>3
<1> QED BY <1>6, <1>7

\* A host import returns, or refuses its service.
LEMMA ImportReturnEffect ==
    ASSUME StackInv, Good(stack), ImportReturn
    PROVE  Effect
<1>1. stack # <<>> /\ Top.kind = "import" /\ ~TopIs("guest") /\ active' = active
  BY DEF ImportReturn, TopIs, scopeVars
<1>2. /\ Depth - 1 \in Nat /\ Depth - 1 < Len(stack)
      /\ Good(Below) /\ ~Calling(Below) /\ Scoped(Below, active, sp) /\ active # 0
      /\ Below = SubSeq(stack, 1, Depth - 1)
  BY <1>1, BelowTop
<1>3. CASE stack' = Below /\ failed' = failed
  <2>1. \A k \in ((Depth - 1) + 1)..Len(stack) : ~Failing(stack[k])
    BY <1>1, BelowTop, NotFailing
  <2>2. Worse(SubSeq(stack, 1, Depth - 1), stack')
        /\ SameCode(SubSeq(stack, 1, Depth - 1), stack')
    BY <1>2, <1>3, WorseSame DEF Good
  <2> QED BY <1>1, <1>2, <1>3, <2>1, <2>2, Leaves
<1>4. CASE stack' = Mark(Below, "HostServiceRefused", "ok")
  <2>1. "HostServiceRefused" \in Reasons \ {"None"} /\ "ok" \in Results
    BY DEF Reasons, Results
  <2> QED BY <1>2, <1>4, <2>1, Marks DEF Effect
<1> QED BY <1>3, <1>4 DEF ImportReturn

\* The embedder calls an overridden entry.
LEMMA HostHandlerEffect ==
    ASSUME StackInv, NEW f \in Functions, stack = <<>>, stack' = <<Frame("handler", f)>>,
           failed' = FALSE, active' = active
    PROVE  Effect
<1> DEFINE g == Frame("handler", f)
<1>1. g \in Frames /\ g.kind = "handler" /\ ~g.stale /\ Honest(g)
  BY FrameFresh
<1>2. Good(stack) /\ Worse(stack, stack) /\ SameCode(stack, stack)
  <2>1. stack \in Seq(Frames) /\ Len(stack) = 0
    BY ActiveHasGuest, EmptySeq DEF StackInv
  <2>2. 1..Len(stack) = {}
    BY <2>1
  <2>3. Good(stack)
    BY <2>1, <2>2 DEF Good, Layout
  <2> QED BY <2>1, <2>3, WorseSame
<1>3. stack' = Append(stack, g)
  OBVIOUS
<1> HIDE DEF g
<1>4. MayPush(stack, g)
  BY <1>1 DEF MayPush
<1> QED BY <1>1, <1>2, <1>3, <1>4, Enters

-----------------------------------------------------------------------------
(* Drains and stores *)

Refused ==
    /\ Good(stack') /\ ~Calling(stack')
    /\ stack' # <<>> => Answered(stack')
    /\ stack' = <<>> => hostResult' # "ok"

Called ==
    /\ Good(stack') /\ Calling(stack')
    /\ failed' => failed /\ stack # <<>>
    /\ active' = active
    /\ Passes(stack, stack', Len(stack)) /\ Fresh(stack', Len(stack))

\* ExecuteOriginal calls after a drain that rearmed the watch, or it fails to the
\* activation below, also when Xenia refused to rearm.
LEMMA ExecuteOriginalEffect ==
    ASSUME StackInv, StackInv', Good(stack), stack = <<>> \/ TopIs("handler"),
           NEW s, Worse(stack, s), SameCode(stack, s), NEW f, NEW blocks \in Nat,
           ExecuteOriginal(f, blocks, s, stack # <<>> /\ failed)
    PROVE  \/ DrainObservedWrites(TRUE) /\ (Called \/ Refused)
           \/ RearmMayFail /\ DrainObservedWrites(FALSE) /\ Refused
<1>1. active' = active /\ sp' = sp /\ stack \in Seq(Frames) /\ Len(stack) \in Nat
      /\ failed \in BOOLEAN
  BY LenProperties DEF ExecuteOriginal, scopeVars, Good, StackInv
<1>2. ~Calling(stack) /\ (stack # <<>> => stack[Len(stack)].kind = "handler")
  BY DEF Calling, TopIs, Top, Depth
<1>3. Good(s) /\ ~Calling(s) /\ Len(s) = Len(stack) /\ s \in Seq(Frames)
  BY <1>2, GoodWorse DEF Worse, SameShape
<1>4. (s # <<>> => s[Len(s)].kind = "handler") /\ (s = <<>> <=> stack = <<>>)
  <2>1. s = <<>> <=> stack = <<>>
    BY <1>1, <1>3, EmptySeq
  <2>2. ASSUME s # <<>> PROVE s[Len(s)].kind = "handler"
    <3>1. Len(stack) \in 1..Len(stack)
      BY <1>1, <2>1, <2>2, EmptySeq
    <3>2. s[Len(stack)].kind = stack[Len(stack)].kind
      BY <3>1 DEF Worse, SameShape, Agree
    <3> QED BY <1>2, <1>3, <2>1, <2>2, <3>2
  <2> QED BY <2>1, <2>2
<1>5. Scoped(s, active', sp')
  <2>1. Scoped(s, active, sp)
    BY <1>3, ScopedSame DEF StackInv, Worse, SameShape
  <2> QED BY <1>1, <2>1
<1>6. ASSUME NEW r \in {"ExecutableWatchRearmFailed", "EntryOutsideCode"},
             ReturnTo(s, r, stack # <<>> /\ failed)
      PROVE  Refused
  <2>1. r \in Results /\ r # "ok"
    BY DEF Results, Errors
  <2> QED BY <1>3, <1>4, <1>5, <1>6, <2>1, FailureReturns DEF Refused
<1>7. ASSUME f \in Functions, DrainObservedWrites(TRUE),
             stack' = Append(s, [Frame("call", f) EXCEPT !.blocks = blocks]),
             failed' = (stack # <<>> /\ failed)
      PROVE  Called
  <2> DEFINE g == [Frame("call", f) EXCEPT !.blocks = blocks]
  <2>1. g \in Frames /\ g.kind = "call" /\ ~g.stale /\ Honest(g)
    BY <1>7 DEF Frame, Frames, Results, Reasons, Honest
  <2>2. stack' = Append(s, g)
    BY <1>7
  <2> HIDE DEF g
  <2>3. MayPush(s, g)
    BY <1>4, <2>1 DEF MayPush
  <2>4. /\ Good(stack') /\ Len(stack') = Len(s) + 1 /\ stack'[Len(stack')] = g
        /\ \A k \in 1..Len(s) : stack'[k] = s[k]
    BY <1>3, <2>1, <2>2, <2>3, GoodPush
  <2>5. Calling(stack')
    <3>1. stack' # <<>>
      BY <1>1, <1>3, <2>4, EmptySeq DEF Good
    <3> QED BY <2>1, <2>4, <3>1 DEF Calling
  <2>6. \A k \in (Len(stack) + 1)..Len(stack') : stack'[k] = g
    <3> TAKE k \in (Len(stack) + 1)..Len(stack')
    <3>1. k = Len(stack')
      BY <1>1, <1>3, <2>4
    <3> QED BY <2>4, <3>1
  <2>7. \A k \in 1..Len(stack) : /\ stack'[k].kind = stack[k].kind
                                 /\ stack'[k].stale = stack[k].stale
                                 /\ Failing(stack[k]) => Failing(stack'[k])
    BY <1>3, <2>4 DEF Worse, SameCode, SameShape, Agree
  <2>8. Len(stack) \in 0..Len(stack) /\ Len(stack) <= Len(stack')
        /\ (Len(stack) + 1)..Len(stack) = {}
    BY <1>1, <1>3, <2>4
  <2>9. Passes(stack, stack', Len(stack)) /\ Fresh(stack', Len(stack))
    BY <2>1, <2>6, <2>7, <2>8 DEF Passes, Fresh
  <2> QED BY <1>1, <1>7, <2>4, <2>5, <2>9 DEF Called
<1> QED BY <1>1, <1>6, <1>7 DEF ExecuteOriginal

\* A failure stays where it is while its frames only get worse.
LEMMA AnsweredWorse ==
    ASSUME NEW s \in Seq(Frames), NEW t, Worse(s, t), Answered(s)
    PROVE  Answered(t)
<1>1. Len(t) = Len(s) /\ \A k \in 1..Len(s) : t[k].kind = s[k].kind
  BY DEF Worse, SameShape, Agree
<1>2. PICK c \in 1..Len(s) : Failing(s[c]) /\ \A e \in 1..Len(s) : IsExec(s, e) => e <= c
  BY DEF Answered
<1>3. Failing(t[c])
  BY <1>2 DEF Worse
<1>4. \A e \in 1..Len(t) : IsExec(t, e) => e <= c
  BY <1>1, <1>2 DEF IsExec
<1> QED BY <1>1, <1>2, <1>3, <1>4 DEF Answered

\* A store outdates running code; the guest call it was seen in fails.
LEMMA StoreEffect ==
    ASSUME StackInv, Good(stack), ~Calling(stack), NEW s, Worse(stack, s), NEW f,
           StoreTo(f, s)
    PROVE  /\ Good(stack') /\ ~Calling(stack') /\ Worse(stack, stack')
           /\ active' = active /\ hostResult' = hostResult
           /\ active # 0 /\ PageOf[f] \in watched => stack' # <<>> /\ Answered(stack')
           /\ active = 0 \/ PageOf[f] \notin watched => failed' = failed
<1> DEFINE t == Outdated(s, f)
<1>1. Good(s) /\ ~Calling(s) /\ s \in Seq(Frames) /\ stack \in Seq(Frames)
  BY GoodWorse DEF Good
<1>2. Worse(s, t)
  BY <1>1, OutdatedWorse
<1> HIDE DEF t
<1>3. Good(t) /\ ~Calling(t) /\ Worse(stack, t)
  BY <1>1, <1>2, GoodWorse, WorseTrans
<1>4. Scoped(t, active, sp)
  BY <1>3, ScopedSame DEF StackInv, Worse, SameShape
<1>5. active' = active /\ hostResult' = hostResult /\ failed \in BOOLEAN
  BY DEF StoreTo, scopeVars, StackInv
<1>6. CASE PageOf[f] \in watched
  <2>1. stack' = Mark(t, "ExecutableWriteObserved", "ok")
        /\ failed' = (failed \/ active # 0)
    BY <1>6 DEF StoreTo, t
  <2>2. CASE active = 0
    <3>1. stack' = t /\ failed' = failed
      BY <1>5, <2>1, <2>2 DEF Mark
    <3> QED BY <1>3, <1>5, <2>2, <3>1
  <2>3. CASE active # 0
    <3>1. "ExecutableWriteObserved" \in Reasons \ {"None"} /\ "ok" \in Results
      BY DEF Reasons, Results
    <3>2. /\ Good(stack') /\ ~Calling(stack') /\ stack' # <<>> /\ Answered(stack')
          /\ Worse(t, stack')
      BY <1>3, <1>4, <2>1, <2>3, <3>1, Marks
    <3>3. Worse(stack, stack')
      BY <1>1, <1>3, <3>2, WorseTrans
    <3> QED BY <1>5, <1>6, <2>3, <3>2, <3>3
  <2> QED BY <2>2, <2>3
<1>7. CASE PageOf[f] \notin watched
  <2>1. stack' = t /\ failed' = failed
    BY <1>7 DEF StoreTo, t
  <2> QED BY <1>3, <1>5, <1>7, <2>1
<1> QED BY <1>6, <1>7

-----------------------------------------------------------------------------
(* The invariant *)

\* Nothing has been written since the last drain, which rearmed the watch.
Clean == watched = Pages /\ pending = {} /\ stale = {}

\* A failure not yet returned to the embedder is still carried by some frame.
FailInv ==
    failed => IF stack = <<>> THEN hostResult # "ok" ELSE Doomed(stack, 1)

\* Outdated code runs only inside guest calls that are going to fail.
StaleInv ==
    \A i \in 1..Len(stack) :
        stack[i].kind = "guest" /\ stack[i].stale =>
            \A e \in 1..(i - 1) : IsExec(stack, e) => Doomed(stack, e)

\* Between a write and the next drain the innermost guest call is failing.
CleanInv == active # 0 => Clean \/ Answered(stack)

\* A call is resolved after a drain that rearmed the watch.
CallInv == Calling(stack) => Clean

\* What the cache holds of a page that is not watched is under the pending
\* range, also after Xenia has refused to rearm the watch.
CacheInv ==
    /\ cached \subseteq Functions /\ pending \subseteq Functions
    /\ stale \subseteq pending
    /\ \A p \in Pages \ watched : OnPage(p) \cap cached \subseteq pending

FlowInv == FailInv /\ StaleInv /\ CleanInv

\* Every guest call on the stack is going to fail.
LEMMA AnsweredFlow ==
    ASSUME StackInv', stack' # <<>>, Answered(stack')
    PROVE  FlowInv'
<1>1. PICK c \in 1..Len(stack') :
          Failing(stack'[c]) /\ \A e \in 1..Len(stack') : IsExec(stack', e) => e <= c
  BY DEF Answered
<1>2. Len(stack') \in Nat
  BY ActiveHasGuest DEF StackInv
<1>3. \A e \in 1..c : Doomed(stack', e)
  BY <1>1, <1>2 DEF Doomed
<1>4. 1 \in 1..c
  BY <1>1, <1>2
<1>5. \A i \in 1..Len(stack') : \A e \in 1..(i - 1) : IsExec(stack', e) => Doomed(stack', e)
  <2> TAKE i \in 1..Len(stack')
  <2> TAKE e \in 1..(i - 1)
  <2> HAVE IsExec(stack', e)
  <2>1. e \in 1..Len(stack')
    BY <1>2
  <2>2. e <= c
    BY <1>1, <2>1
  <2>3. e \in 1..c
    BY <1>1, <1>2, <2>1, <2>2
  <2> QED BY <1>3, <2>3
<1> QED BY <1>3, <1>4, <1>5 DEF FlowInv, FailInv, StaleInv, CleanInv

\* The embedder has been told.
LEMMA HostFlow ==
    ASSUME StackInv', stack' = <<>>, failed' => hostResult' # "ok"
    PROVE  FlowInv'
<1>1. Len(stack') = 0 /\ active' \in 0..0
  <2>1. Len(stack') = 0
    BY EmptySeq
  <2> QED BY <2>1 DEF StackInv, Scoped
<1>2. active' = 0 /\ 1..Len(stack') = {}
  BY <1>1
<1> QED BY <1>2 DEF FlowInv, FailInv, StaleInv, CleanInv

\* Activations leave without a failure or enter on current code.
LEMMA PassesFlow ==
    ASSUME StackInv, StackInv', FlowInv, NEW m, Passes(stack, stack', m),
           failed' => failed /\ stack # <<>>, Clean => Clean',
           Clean \/ (active' = active /\ Fresh(stack', m))
    PROVE  FlowInv'
<1>1. Len(stack) \in Nat /\ Len(stack') \in Nat /\ m \in 0..Len(stack) /\ m <= Len(stack')
      /\ active \in Nat /\ stack' \in Seq(Frames)
  BY ActiveHasGuest DEF StackInv, Passes
<1>2. \A k \in 1..m : k \in 1..Len(stack) /\ k \in 1..Len(stack')
  BY <1>1
<1>3. \A j \in 1..Len(stack) : Failing(stack[j]) => j \in 1..m /\ Failing(stack'[j])
  <2> SUFFICES ASSUME NEW j \in 1..Len(stack), Failing(stack[j])
               PROVE  j \in 1..m /\ Failing(stack'[j])
    OBVIOUS
  <2>1. j \in 1..m \/ j \in (m + 1)..Len(stack)
    BY <1>1
  <2> QED BY <2>1 DEF Passes
<1>4. \A e \in 1..m : Doomed(stack, e) => Doomed(stack', e)
  <2> SUFFICES ASSUME NEW e \in 1..m, Doomed(stack, e) PROVE Doomed(stack', e)
    OBVIOUS
  <2>1. PICK j \in e..Len(stack) : Failing(stack[j])
    BY DEF Doomed
  <2>2. j \in 1..Len(stack)
    BY <1>1, <2>1
  <2>3. j \in 1..m /\ Failing(stack'[j])
    BY <1>3, <2>1, <2>2
  <2>4. j \in e..Len(stack')
    BY <1>1, <2>1, <2>3
  <2> QED BY <2>3, <2>4 DEF Doomed
<1>5. FailInv'
  <2> SUFFICES ASSUME failed' PROVE stack' # <<>> /\ Doomed(stack', 1)
    BY DEF FailInv
  <2>1. Doomed(stack, 1)
    BY DEF FlowInv, FailInv
  <2>2. PICK j \in 1..Len(stack) : Failing(stack[j])
    BY <2>1 DEF Doomed
  <2>3. j \in 1..m
    BY <1>3, <2>2
  <2>4. 1 \in 1..m /\ Len(stack') # 0
    BY <1>1, <2>3
  <2> QED BY <1>1, <1>4, <2>1, <2>4, EmptySeq
<1>6. StaleInv'
  <2> SUFFICES ASSUME NEW i \in 1..Len(stack'), stack'[i].kind = "guest", stack'[i].stale,
                      NEW e \in 1..(i - 1), IsExec(stack', e)
               PROVE  Doomed(stack', e)
    BY DEF StaleInv
  <2>1. i \in 1..m
    <3> SUFFICES ASSUME i \notin 1..m PROVE FALSE
      OBVIOUS
    <3>1. i \in (m + 1)..Len(stack')
      BY <1>1
    <3>2. stale # {} /\ ~Fresh(stack', m)
      BY <3>1 DEF Passes, Fresh
    <3> QED BY <3>2 DEF Clean
  <2>2. i \in 1..Len(stack) /\ e \in 1..m
    BY <1>1, <2>1
  <2>3. stack[i].kind = "guest" /\ stack[i].stale /\ IsExec(stack, e)
    BY <2>1, <2>2 DEF Passes, IsExec
  <2>4. Doomed(stack, e)
    BY <2>2, <2>3 DEF FlowInv, StaleInv
  <2> QED BY <1>4, <2>2, <2>4
<1>7. CleanInv'
  <2> SUFFICES ASSUME active' # 0, ~Clean PROVE Answered(stack')
    BY DEF CleanInv
  <2>1. active' = active /\ Answered(stack)
    BY DEF FlowInv, CleanInv
  <2>2. PICK c \in 1..Len(stack) :
            Failing(stack[c]) /\ \A e \in 1..Len(stack) : IsExec(stack, e) => e <= c
    BY <2>1 DEF Answered
  <2>3. c \in 1..Len(stack') /\ Failing(stack'[c])
    BY <1>2, <1>3, <2>2
  <2>4. active \in 1..Len(stack) /\ IsExec(stack, active)
    BY <2>1, ActiveHasGuest DEF StackInv, Scoped
  <2>5. \A e \in 1..Len(stack') : IsExec(stack', e) => e <= active
    BY <2>1 DEF StackInv, Scoped
  <2>6. active <= c
    BY <2>2, <2>4
  <2>7. \A e \in 1..Len(stack') : IsExec(stack', e) => e <= c
    BY <1>1, <2>2, <2>5, <2>6
  <2> QED BY <2>3, <2>7 DEF Answered
<1> QED BY <1>5, <1>6, <1>7 DEF FlowInv

\* Nothing is failing while generated code runs.
LEMMA RunningClean ==
    ASSUME StackInv, Good(stack), FlowInv, GuestCodeRuns
    PROVE  Clean /\ ~Top.stale
<1>1. TopIs("guest") /\ stack[active].reason = "None"
  BY DEF GuestCodeRuns
<1>2. /\ Depth \in Nat /\ active \in 1..(Depth - 1) /\ active # 0 /\ IsExec(stack, active)
      /\ \A k \in (active + 1)..Depth : stack[k].kind = "guest"
  BY <1>1, RunningGuest
<1>3. \A k \in active..Depth : ~Failing(stack[k])
  <2> TAKE k \in active..Depth
  <2>1. k = active \/ k \in (active + 1)..Depth
    BY <1>2
  <2> QED BY <1>1, <1>2, <2>1 DEF Failing, IsExec
<1>4. ~Doomed(stack, active)
  BY <1>3 DEF Doomed, Depth
<1>5. ~Answered(stack)
  <2> SUFFICES ASSUME Answered(stack) PROVE FALSE
    OBVIOUS
  <2>1. PICK c \in 1..Depth :
            Failing(stack[c]) /\ \A e \in 1..Depth : IsExec(stack, e) => e <= c
    BY DEF Answered, Depth
  <2>2. active \in 1..Depth
    BY <1>2
  <2>3. c \in active..Depth
    BY <1>2, <2>1, <2>2
  <2> QED BY <1>3, <2>1, <2>3
<1>6. Clean
  BY <1>2, <1>5 DEF FlowInv, CleanInv
<1>7. ~Top.stale
  <2>1. Depth \in 1..Len(stack) /\ active \in 1..(Depth - 1) /\ stack[Depth].kind = "guest"
    BY <1>2 DEF Depth
  <2> QED BY <1>2, <1>4, <2>1 DEF FlowInv, StaleInv, Top
<1> QED BY <1>6, <1>7

-----------------------------------------------------------------------------
(* Every step *)

\* Nothing enters or leaves, and code is at most removed from the cache.
Still ==
    /\ UNCHANGED <<stack, active, hostResult, failed>>
    /\ \/ UNCHANGED codeVars
       \/ UNCHANGED <<watched, pending>> /\ \E S : Notify(S)

\* Code may be translated where Clean holds: by a call or by running code.
Runs ==
    /\ Effect
    /\ \/ UNCHANGED codeVars
       \/ /\ GuestCodeRuns \/ TopIs("call")
          /\ UNCHANGED <<stale, watched, pending>>
          /\ \E f \in Functions : cached' = cached \cup {f}

Drains ==
    \/ DrainObservedWrites(TRUE) /\ (Called \/ Refused)
    \/ RearmMayFail /\ DrainObservedWrites(FALSE) /\ Refused

Stores ==
    /\ ~Calling(stack)
    /\ \E f \in Functions, s \in Seq(Frames) : Worse(stack, s) /\ StoreTo(f, s)

\* The empty stack holds nothing that could be wrong.
LEMMA EmptyGood ==
    ASSUME stack = <<>>
    PROVE  Good(stack)
<1>1. stack \in Seq(Frames) /\ Len(stack) = 0
  BY EmptySeq
<1>2. 1..Len(stack) = {}
  BY <1>1
<1> QED BY <1>1, <1>2 DEF Good, Layout

\* A host call, and an original call made by an override.
LEMMA CallKinds ==
    ASSUME IInv, IInv', Good(stack),
           \/ \E f \in Functions \cup {OutsideCode}, limit \in HostBudgets : HostCall(f, limit)
           \/ \E f \in Functions \cup {OutsideCode} : CallOriginalBody(f)
    PROVE  Runs \/ Drains
<1>1. StackInv /\ StackInv' /\ overrides \subseteq Functions /\ failed \in BOOLEAN
      /\ stack \in Seq(Frames)
  BY DEF IInv, TableInv, StackInv, Good
<1>2. ASSUME NEW f \in Functions \cup {OutsideCode}, NEW limit \in HostBudgets,
             HostCall(f, limit)
      PROVE  Runs \/ Drains
  <2>1. stack = <<>> /\ limit \in Nat
    BY <1>2, GuestCallsAssumption DEF HostCall, Execute, CallOriginal
  <2>2. CASE ExecuteOriginal(f, limit, <<>>, FALSE)
    <3>1. ExecuteOriginal(f, limit, stack, stack # <<>> /\ failed)
      BY <1>1, <2>1, <2>2
    <3>2. Worse(stack, stack) /\ SameCode(stack, stack)
      BY <1>1, WorseSame
    <3> QED BY <1>1, <2>1, <3>1, <3>2, ExecuteOriginalEffect DEF Drains
  <2>3. CASE /\ f \in overrides
             /\ stack' = <<Frame("handler", f)>>
             /\ failed' = FALSE
             /\ UNCHANGED <<codeVars, scopeVars>>
    <3>1. f \in Functions /\ active' = active
      BY <1>1, <2>3 DEF scopeVars
    <3> QED BY <1>1, <2>1, <2>3, <3>1, HostHandlerEffect DEF Runs
  <2> QED BY <1>2, <2>2, <2>3 DEF HostCall, Execute, CallOriginal
<1>3. ASSUME NEW f \in Functions \cup {OutsideCode}, CallOriginalBody(f)
      PROVE  Drains
  <2>1. TopIs("handler") /\ stack # <<>> /\ DefaultBudget \in Nat
    BY <1>3, GuestCallsAssumption DEF CallOriginalBody, TopIs
  <2>2. ExecuteOriginal(f, DefaultBudget, stack, stack # <<>> /\ failed)
    BY <1>1, <1>3, <2>1 DEF CallOriginalBody
  <2>3. Worse(stack, stack) /\ SameCode(stack, stack)
    BY <1>1, WorseSame
  <2> QED BY <1>1, <2>1, <2>2, <2>3, ExecuteOriginalEffect DEF Drains
<1> QED BY <1>2, <1>3

\* Each step is of one of four kinds.
LEMMA StepKinds ==
    ASSUME IInv, IInv', Good(stack), [Next]_vars
    PROVE  Still \/ Runs \/ Drains \/ Stores
<1>1. StackInv /\ StackInv' /\ stack \in Seq(Frames)
  BY DEF IInv, Good
<1>2. CASE UNCHANGED vars
  BY <1>2 DEF vars, scopeVars, Still
<1>3. CASE \/ \E f \in Functions \cup {OutsideCode}, limit \in HostBudgets : HostCall(f, limit)
           \/ \E f \in Functions \cup {OutsideCode} : CallOriginalBody(f)
  BY <1>3, CallKinds
<1>4. CASE EnterBlock
  BY <1>1, <1>4, EnterBlockEffect DEF Runs, EnterBlock
<1>5. CASE EnterTranslated
  <2>1. TopIs("call") /\ stack # <<>>
    BY <1>5 DEF EnterTranslated, TopIs
  <2>2. Top \in Frames
    BY <1>1, <2>1, TopFacts
  <2>3. Top.fn \in Functions
    BY <2>2 DEF Frames
  <2>4. cached' = cached \cup {Top.fn} /\ UNCHANGED <<stale, watched, pending>>
    BY <1>5 DEF EnterTranslated
  <2>5. Effect
    BY <1>1, <1>5, EnterTranslatedEffect
  <2> QED BY <2>1, <2>3, <2>4, <2>5 DEF Runs
<1>6. CASE EnterInterpreter
  BY <1>1, <1>6, EnterInterpreterEffect DEF Runs, EnterInterpreter
<1>7. ASSUME NEW r \in {"ok", "InterpreterFallback"}, LeaveInterpreter(r)
      PROVE  Runs
  BY <1>1, <1>7, LeaveInterpreterEffect DEF Runs, LeaveInterpreter
<1>8. CASE GuestReturn
  BY <1>1, <1>8, GuestReturnEffect DEF Runs, GuestReturn
<1>9. CASE ExitGuestCall
  BY <1>1, <1>9, ExitGuestCallEffect DEF Runs, ExitGuestCall
<1>10. CASE GuestCallsImport
  BY <1>1, <1>10, GuestCallEffect DEF Runs, GuestCallsImport
<1>11. CASE GuestFault
  BY <1>1, <1>11, GuestFaultEffect DEF Runs, GuestFault
<1>12. CASE HandlerReturn
  <2>1. UNCHANGED codeVars
    BY <1>12 DEF HandlerReturn, DispatchGuest
  <2> QED BY <1>1, <1>12, <2>1, HandlerReturnEffect DEF Runs
<1>13. CASE ImportReturn
  BY <1>1, <1>13, ImportReturnEffect DEF Runs, ImportReturn
<1>14. ASSUME NEW f \in Functions, GuestCall(f)
       PROVE  Runs
  <2>1. Effect
    BY <1>1, <1>14, GuestCallEffect
  <2>2. GuestCodeRuns /\ UNCHANGED <<stale, watched, pending>>
        /\ (cached' = cached \/ cached' = cached \cup {f})
    BY <1>14 DEF GuestCall, InsideBlock
  <2> QED BY <2>1, <2>2 DEF Runs, codeVars
<1>15. ASSUME NEW f \in Functions, GuestStore(f)
       PROVE  Stores
  <2>1. TopIs("guest") /\ StoreTo(f, Acted)
    BY <1>15 DEF GuestStore, InsideBlock, GuestCodeRuns
  <2>2. Worse(stack, Acted) /\ Acted \in Seq(Frames) /\ ~Calling(stack)
    BY <1>1, <2>1, ActedGood, GuestTop DEF Good
  <2> QED BY <2>1, <2>2 DEF Stores
<1>16. ASSUME NEW f \in Functions, NativeStore(f)
       PROVE  Stores
  <2>1. ~Calling(stack) /\ StoreTo(f, stack)
    BY <1>16 DEF NativeStore, NativeCodeRuns, TopIs, Calling, Top, Depth
  <2> QED BY <1>1, <2>1, WorseSame DEF Stores
<1>17. ASSUME NEW f \in Functions, InstallOverride(f) \/ RemoveOverride(f)
       PROVE  Still
  BY <1>17 DEF InstallOverride, RemoveOverride, scopeVars, Still
<1>18. ASSUME NEW lo \in Functions, NEW hi \in Functions, NotifyExecutableWrite(lo, hi)
       PROVE  Still
  BY <1>18 DEF NotifyExecutableWrite, scopeVars, Still
<1> QED
  BY <1>2, <1>3, <1>4, <1>5, <1>6, <1>7, <1>8, <1>9, <1>10, <1>11, <1>12, <1>13,
     <1>14, <1>15, <1>16, <1>17, <1>18 DEF Next, OtherStep

\* The layout of the stack is kept, whatever handlers do with failures.
LEMMA NextKeepsGood ==
    ASSUME IInv, IInv', Good(stack), [Next]_vars
    PROVE  Good(stack')
<1>1. CASE Still
  BY <1>1 DEF Still
<1>2. CASE Runs
  BY <1>2 DEF Runs, Effect
<1>3. CASE Drains
  BY <1>3 DEF Drains, Called, Refused
<1>4. CASE Stores
  BY <1>4, StoreEffect DEF Stores, IInv
<1> QED BY <1>1, <1>2, <1>3, <1>4, StepKinds

\* A drain empties the pending range and removes what lay under it.
LEMMA DrainKeepsCacheInv ==
    ASSUME CacheInv, NEW rearmed \in BOOLEAN, DrainObservedWrites(rearmed)
    PROVE  CacheInv' /\ (rearmed => Clean')
BY DEF CacheInv, Clean, DrainObservedWrites, Notify, OnPage

\* A store to cached code is under the pending range, seen or not.
LEMMA StoreKeepsCacheInv ==
    ASSUME CacheInv, NEW f \in Functions, NEW stk, StoreTo(f, stk)
    PROVE  CacheInv'
<1>1. f \in OnPage(PageOf[f]) /\ PageOf[f] \in Pages
  BY GuestCallsAssumption DEF OnPage
<1>2. cached' = cached /\ stale' = stale \cup ({f} \cap cached)
  BY DEF StoreTo
<1>3. CASE PageOf[f] \in watched
  <2> DEFINE p == PageOf[f]
  <2>1. watched' = watched \ {p} /\ pending' = Hull(pending \cup OnPage(p))
    BY <1>3 DEF StoreTo, RecordVirtualWrite
  <2>2. pending \cup OnPage(p) \in SUBSET Functions
    BY DEF CacheInv, OnPage
  <2>3. pending \cup OnPage(p) \subseteq pending' /\ pending' \subseteq Functions
    BY <2>1, <2>2, HullCovers
  <2>4. \A q \in Pages \ watched' : OnPage(q) \cap cached' \subseteq pending'
    <3> SUFFICES ASSUME NEW q \in Pages \ watched'
                 PROVE  OnPage(q) \cap cached \subseteq pending'
      BY <1>2
    <3>1. q = p \/ q \in Pages \ watched
      BY <2>1
    <3> QED BY <2>3, <3>1 DEF CacheInv
  <2> QED BY <1>1, <1>2, <2>3, <2>4 DEF CacheInv, OnPage
<1>4. CASE PageOf[f] \notin watched
  <2>1. watched' = watched /\ pending' = pending
    BY <1>4 DEF StoreTo
  <2>2. {f} \cap cached \subseteq pending
    BY <1>1, <1>4 DEF CacheInv
  <2>3. stale' \subseteq pending'
    BY <1>2, <2>1, <2>2 DEF CacheInv
  <2> QED BY <1>2, <2>1, <2>3 DEF CacheInv, OnPage
<1> QED BY <1>3, <1>4

FailureInv == Good(stack) /\ FlowInv /\ CallInv /\ CacheInv

\* With overrides that pass failures on, every step keeps the invariant, also
\* when Xenia refuses to rearm the watch.
LEMMA NextKeepsFailureInv ==
    ASSUME HandlersPropagate, IInv, IInv', FailureInv, [Next]_vars
    PROVE  FailureInv'
<1>1. StackInv /\ StackInv' /\ Good(stack) /\ FlowInv /\ CallInv /\ CacheInv
  BY DEF IInv, FailureInv
<1>2. Good(stack')
  BY <1>1, NextKeepsGood
<1>3. Calling(stack) <=> TopIs("call")
  BY DEF Calling, TopIs, Top, Depth
<1>4. CASE Still
  <2>1. Clean => Clean'
    BY <1>4 DEF Still, Clean, codeVars, Notify
  <2>2. CacheInv'
    BY <1>1, <1>4 DEF Still, CacheInv, codeVars, Notify, OnPage
  <2>3. stack' = stack /\ active' = active /\ hostResult' = hostResult /\ failed' = failed
    BY <1>4 DEF Still
  <2>4. FlowInv'
    BY <1>1, <2>1, <2>3 DEF FlowInv, FailInv, StaleInv, CleanInv
  <2>5. CallInv'
    BY <1>1, <2>1, <2>3 DEF CallInv
  <2> QED BY <1>2, <2>2, <2>4, <2>5 DEF FailureInv
<1>5. CASE Runs
  <2>1. GuestCodeRuns \/ TopIs("call") => Clean
    BY <1>1, <1>3, RunningClean DEF CallInv
  <2>2. Clean => Clean'
    BY <1>5 DEF Runs, Clean, codeVars
  <2>3. CacheInv'
    <3>1. CASE UNCHANGED codeVars
      BY <1>1, <3>1 DEF CacheInv, codeVars, OnPage
    <3>2. CASE /\ GuestCodeRuns \/ TopIs("call")
               /\ UNCHANGED <<stale, watched, pending>>
               /\ \E f \in Functions : cached' = cached \cup {f}
      <4>1. watched' = Pages /\ pending' = pending /\ stale' = stale /\ cached' \subseteq Functions
        BY <1>1, <2>1, <3>2 DEF CacheInv, Clean
      <4> QED BY <1>1, <4>1 DEF CacheInv
    <3> QED BY <1>5, <3>1, <3>2 DEF Runs
  <2>4. CallInv'
    BY <1>5 DEF Runs, Effect, CallInv
  <2>5. FlowInv'
    <3>1. CASE stack' # <<>> /\ Answered(stack')
      BY <1>1, <3>1, AnsweredFlow
    <3>2. CASE stack' = <<>> /\ (failed' => hostResult' # "ok")
      BY <1>1, <3>2, HostFlow
    <3>3. ASSUME (failed' => failed /\ stack # <<>>) /\ Goes
          PROVE  FlowInv'
      <4>1. PICK m \in 0..Len(stack) :
              /\ Passes(stack, stack', m)
              /\ \/ GuestCodeRuns \/ TopIs("call")
                 \/ active' = active /\ Fresh(stack', m)
        BY <3>3 DEF Goes
      <4>2. Clean \/ (active' = active /\ Fresh(stack', m))
        BY <2>1, <4>1
      <4>3. Passes(stack, stack', m) /\ (failed' => failed /\ stack # <<>>)
        BY <3>3, <4>1
      <4> QED BY <1>1, <2>2, <4>2, <4>3, PassesFlow
    <3> QED BY <1>5, <3>1, <3>2, <3>3 DEF Runs, Effect
  <2> QED BY <1>2, <2>3, <2>4, <2>5 DEF FailureInv
<1>6. CASE Drains
  <2>1. CacheInv' /\ (DrainObservedWrites(TRUE) => Clean')
    BY <1>1, <1>6, DrainKeepsCacheInv DEF Drains
  <2>2. CASE Refused
    <3>1. FlowInv'
      BY <1>1, <2>2, AnsweredFlow, HostFlow DEF Refused
    <3> QED BY <1>2, <2>1, <2>2, <3>1 DEF Refused, CallInv, FailureInv
  <2>3. CASE DrainObservedWrites(TRUE) /\ Called
    <3>1. FlowInv'
      BY <1>1, <2>1, <2>3, PassesFlow DEF Called
    <3> QED BY <1>2, <2>1, <2>3, <3>1 DEF CallInv, FailureInv
  <2> QED BY <1>6, <2>2, <2>3 DEF Drains
<1>7. CASE Stores
  <2>1. PICK f \in Functions, s \in Seq(Frames) :
            ~Calling(stack) /\ Worse(stack, s) /\ StoreTo(f, s)
    BY <1>7 DEF Stores
  <2>2. /\ ~Calling(stack') /\ Worse(stack, stack') /\ stack \in Seq(Frames)
        /\ active' = active /\ hostResult' = hostResult
        /\ active # 0 /\ PageOf[f] \in watched => stack' # <<>> /\ Answered(stack')
        /\ active = 0 \/ PageOf[f] \notin watched => failed' = failed
    BY <1>1, <2>1, StoreEffect DEF Good
  <2>3. CacheInv'
    BY <1>1, <2>1, StoreKeepsCacheInv
  <2>4. CallInv'
    BY <2>2 DEF CallInv
  <2>5. FlowInv'
    <3>1. CASE active # 0 /\ PageOf[f] \in watched
      BY <1>1, <2>2, <3>1, AnsweredFlow
    <3>2. CASE active # 0 /\ PageOf[f] \notin watched
      <4>1. ~Clean
        BY <3>2, GuestCallsAssumption, <2>1 DEF Clean
      <4>2. Answered(stack)
        BY <1>1, <3>2, <4>1 DEF FlowInv, CleanInv
      <4>3. Answered(stack')
        BY <2>2, <4>2, AnsweredWorse
      <4>4. stack' # <<>>
        BY <4>3, EmptySeq DEF Answered
      <4> QED BY <1>1, <4>3, <4>4, AnsweredFlow
    <3>3. CASE active = 0
      <4>1. failed' = failed /\ Len(stack') = Len(stack)
            /\ \A k \in 1..Len(stack) : Failing(stack[k]) => Failing(stack'[k])
        BY <2>2, <3>3 DEF Worse, SameShape
      <4>2. stack' = <<>> <=> stack = <<>>
        BY <2>2, <4>1, EmptySeq DEF Worse, SameShape
      <4>3. FailInv'
        <5>1. Doomed(stack, 1) => Doomed(stack', 1)
          BY <4>1 DEF Doomed
        <5> QED BY <1>1, <2>2, <4>1, <4>2, <5>1 DEF FlowInv, FailInv
      <4>4. active' = 0 /\ \A i \in 1..Len(stack') : stack'[i].kind # "guest"
        <5>1. \A i \in 1..Len(stack') : ~IsExec(stack', i)
          BY <1>1, <2>2, <3>3 DEF StackInv, Scoped
        <5>2. ASSUME NEW i \in 1..Len(stack'), stack'[i].kind = "guest" PROVE FALSE
          <6>1. PICK j \in 1..(i - 1) : IsExec(stack', j)
            BY <1>1, <5>2 DEF StackInv, Scoped
          <6>2. j \in 1..Len(stack')
            BY ActiveHasGuest, <1>1 DEF StackInv
          <6> QED BY <5>1, <6>1, <6>2
        <5> QED BY <2>2, <3>3, <5>2
      <4> QED BY <4>3, <4>4 DEF FlowInv, StaleInv, CleanInv
    <3> QED BY <3>1, <3>2, <3>3
  <2> QED BY <1>2, <2>3, <2>4, <2>5 DEF FailureInv
<1> QED BY <1>1, <1>4, <1>5, <1>6, <1>7, StepKinds

-----------------------------------------------------------------------------
(* Theorems about failures *)

\* The layout of the stack holds in every reachable state.
LEMMA LayoutHolds == Spec => []Good(stack)
<1>1. Init => Good(stack)
  BY EmptyGood DEF Init
<1>2. IInv /\ IInv' /\ Good(stack) /\ [Next]_vars => Good(stack)'
  BY NextKeepsGood
<1> QED BY <1>1, <1>2, Invariance, PTL DEF Spec

\* The failure invariant holds in every reachable state.
LEMMA FailuresTracked == HandlersPropagate => (Spec => []FailureInv)
<1> SUFFICES ASSUME HandlersPropagate PROVE Spec => []FailureInv
  OBVIOUS
<1>1. Init => FailureInv
  <2> SUFFICES ASSUME Init PROVE FailureInv
    OBVIOUS
  <2>1. Len(stack) = 0 /\ Good(stack) /\ ~Calling(stack)
    BY EmptySeq, EmptyGood DEF Init, Calling
  <2>2. 1..Len(stack) = {}
    BY <2>1
  <2> QED BY <2>1, <2>2 DEF Init, FailureInv, FlowInv, FailInv, StaleInv, CleanInv,
                            CallInv, CacheInv
<1>2. IInv /\ IInv' /\ FailureInv /\ [Next]_vars => FailureInv'
  BY NextKeepsFailureInv
<1> QED BY <1>1, <1>2, Invariance, PTL DEF Spec

\* Nothing that fails below a host call is lost: for any nesting of overrides
\* that pass failures on and of guest calls, whatever Xenia refuses, the
\* embedder is told.
THEOREM FailuresReachTheHost == HandlersPropagate => (Spec => []FailuresReachHost)
<1> SUFFICES ASSUME HandlersPropagate PROVE Spec => []FailuresReachHost
  OBVIOUS
<1>1. FailureInv => FailuresReachHost
  BY DEF FailureInv, FlowInv, FailInv, FailuresReachHost
<1> QED BY <1>1, FailuresTracked, PTL

\* Generated code that a write has outdated runs no further, in any activation
\* the write outdates and for any layout of functions on watch pages.
THEOREM OutdatedCodeStops == HandlersPropagate => (Spec => []NoStaleExecution)
<1> SUFFICES ASSUME HandlersPropagate PROVE Spec => []NoStaleExecution
  OBVIOUS
<1>1. IInv /\ FailureInv => NoStaleExecution
  BY RunningClean DEF IInv, FailureInv, NoStaleExecution
<1> QED BY <1>1, FailuresTracked, Invariance, PTL

\* ExecuteOriginal drains before it resolves: with any handlers, no call is
\* handed to an outdated translation while Xenia rearms the watch.
THEOREM EntriesAreCurrent == ~RearmMayFail => (Spec => []NoStaleEntry)
<1> DEFINE EntryInv == WriteInv /\ (Calling(stack) => stale = {})
<1> SUFFICES ASSUME ~RearmMayFail PROVE Spec => []NoStaleEntry
  OBVIOUS
<1>1. Init => EntryInv
  BY DEF Init, WriteInv, Calling
<1>2. IInv /\ IInv' /\ Good(stack) /\ EntryInv /\ [Next]_vars => EntryInv'
  <2> SUFFICES ASSUME IInv, IInv', Good(stack), EntryInv, [Next]_vars PROVE EntryInv'
    OBVIOUS
  <2>1. WriteInv'
    <3>1. TopIs("call") => Top.fn \in Functions
      BY TopFacts DEF IInv, TopIs, Frames
    <3> QED BY <3>1, NextKeepsWriteInv
  <2>2. Calling(stack') => stale' = {}
    <3>1. CASE Still
      BY <3>1 DEF Still, codeVars, Notify
    <3>2. CASE Runs
      BY <3>2 DEF Runs, Effect
    <3>3. CASE Drains
      BY <3>3 DEF Drains, DrainObservedWrites, Notify, WriteInv
    <3>4. CASE Stores
      BY <3>4, StoreEffect DEF Stores, IInv
    <3> QED BY <3>1, <3>2, <3>3, <3>4, StepKinds
  <2> QED BY <2>1, <2>2
<1>3. EntryInv => NoStaleEntry
  BY DEF Calling, NoStaleEntry, TopIs, Top, Depth
<1> QED BY <1>1, <1>2, <1>3, Invariance, LayoutHolds, PTL DEF Spec
=============================================================================
