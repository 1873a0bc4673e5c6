------------------------- MODULE UndoHistoryProofs -------------------------
(***************************************************************************)
(* The safety properties of UndoHistory, for any workspaces, tracks and    *)
(* groups and any bounds.                                                  *)
(*                                                                         *)
(* The inductive invariant says that an unavailable workspace holds no     *)
(* document (GoneInv) and, as long as no edit went unrecorded and no undo  *)
(* stopped half way, that each action of the history leads from one        *)
(* document to the next and back, whatever the other workspaces hold, with *)
(* the index at the present documents (WalkInv).                           *)
(*                                                                         *)
(* It stands on two arguments about data. One is what the operators of the *)
(* model that walk a sequence do, obtained from the least number           *)
(* principle; the other is that an edit, the action recorded for it and    *)
(* the undo of that action belong together (Restore, MoveThere,            *)
(* GroupUndone, UngroupUndone).                                            *)
(***************************************************************************)
EXTENDS UndoHistory, FiniteSetTheorems, SequenceTheorems, WellFoundedInduction, TLAPS

-----------------------------------------------------------------------------
(* Induction, from the least number principle.                             *)

(* A set of numbers that has 0, and with each number below n the next one, *)
(* has n.                                                                  *)
LEMMA Reaches ==
  ASSUME NEW n \in Nat, NEW T, 0 \in T,
         \A k \in Nat : k < n /\ k \in T => k + 1 \in T
  PROVE  n \in T
<1> DEFINE Out == {k \in Nat : k <= n /\ k \notin T}
<1>1. ASSUME Out # {} PROVE FALSE
  <2>1. PICK m \in Out : \A y \in Out : ~ (<<y, m>> \in OpToRel(<, Nat))
    BY <1>1, NatLessThanWellFounded, WFMin
  <2>2. \A y \in Out : ~ (y < m)
    BY <2>1 DEF OpToRel
  <2>3. m # 0 /\ m - 1 \in Nat
    OBVIOUS
  <2>4. m - 1 \in T
    BY <2>2, <2>3
  <2> QED BY <2>3, <2>4
<1> QED BY <1>1

(* A set of sequences that has the empty one, and with each its longer     *)
(* ones, has all.                                                          *)
LEMMA AllSequences ==
  ASSUME NEW S, NEW T, <<>> \in T,
         \A s \in Seq(S) : \A x \in S : s \in T => Append(s, x) \in T
  PROVE  Seq(S) \subseteq T
<1> SUFFICES ASSUME NEW s \in Seq(S)
             PROVE  s \in T
  OBVIOUS
<1> DEFINE R == {k \in Nat : k <= Len(s) => SubSeq(s, 1, k) \in T}
<1>1. 0 \in R
  <2>1. SubSeq(s, 1, 0) = <<>>
    OBVIOUS
  <2> QED BY <2>1
<1>2. ASSUME NEW k \in Nat, k < Len(s), k \in R
      PROVE  k + 1 \in R
  <2>1. SubSeq(s, 1, k) \in Seq(S) /\ SubSeq(s, 1, k) \in T /\ s[k + 1] \in S
    BY <1>2
  <2>2. SubSeq(s, 1, k + 1) = Append(SubSeq(s, 1, k), s[k + 1])
    BY <1>2
  <2>3. SubSeq(s, 1, k + 1) \in T
    BY <2>1, <2>2
  <2> QED BY <1>2, <2>3
<1>3. Len(s) \in Nat
  OBVIOUS
<1>4. Len(s) \in R
  <2> HIDE DEF R
  <2> QED BY <1>1, <1>2, <1>3, Reaches
<1>5. SubSeq(s, 1, Len(s)) = s
  OBVIOUS
<1>6. SubSeq(s, 1, Len(s)) \in T
  BY <1>3, <1>4
<1> QED BY <1>5, <1>6

-----------------------------------------------------------------------------
(* Sequences without some of their elements.                               *)

(* f[k] is what is kept of the first k elements.                           *)
Keeping(s, ids, f, n) ==
  f = [i \in 0 .. n |-> IF i = 0 THEN <<>>
                        ELSE IF s[i] \in ids THEN f[i - 1] ELSE Append(f[i - 1], s[i])]

(* There is such a function.                                               *)
LEMMA KeepingExists ==
  ASSUME NEW s, NEW ids, NEW n \in Nat
  PROVE  \E f : Keeping(s, ids, f, n)
<1> DEFINE T == {m \in Nat : \E f : Keeping(s, ids, f, m)}
<1>1. 0 \in T
  <2> DEFINE f == [k \in 0 .. 0 |-> <<>>]
  <2>1. Keeping(s, ids, f, 0)
    BY DEF Keeping
  <2> QED BY <2>1
<1>2. ASSUME NEW m \in Nat, m \in T
      PROVE  m + 1 \in T
  <2>1. PICK f : Keeping(s, ids, f, m)
    BY <1>2
  <2> DEFINE last == IF s[m + 1] \in ids THEN f[m] ELSE Append(f[m], s[m + 1])
             g == [k \in 0 .. (m + 1) |-> IF k <= m THEN f[k] ELSE last]
  <2>2. Keeping(s, ids, g, m + 1)
    <3>1. ASSUME NEW k \in 0 .. (m + 1)
          PROVE  g[k] = IF k = 0 THEN <<>>
                        ELSE IF s[k] \in ids THEN g[k - 1] ELSE Append(g[k - 1], s[k])
      <4>1. CASE k = m + 1
        BY <4>1
      <4>2. CASE k # m + 1
        <5>1. k \in 0 .. m /\ (k # 0 => k - 1 \in 0 .. m)
          BY <4>2
        <5>2. f[k] = IF k = 0 THEN <<>>
                     ELSE IF s[k] \in ids THEN f[k - 1] ELSE Append(f[k - 1], s[k])
          BY <2>1, <5>1 DEF Keeping
        <5> QED BY <5>1, <5>2
      <4> QED BY <4>1, <4>2
    <3> QED BY <3>1 DEF Keeping
  <2>3. \E h : Keeping(s, ids, h, m + 1)
    BY <2>2
  <2> QED BY <2>3
<1>3. \A k \in Nat : k < n /\ k \in T => k + 1 \in T
  BY <1>2
<1> HIDE DEF T
<1>4. n \in T
  BY <1>1, <1>3, Reaches
<1> QED BY <1>4 DEF T

(* It depends on those elements only.                                      *)
LEMMA KeepingAlike ==
  ASSUME NEW s, NEW t, NEW ids, NEW n \in Nat, NEW m \in Nat, m <= n,
         \A k \in 1 .. m : s[k] = t[k],
         NEW f, Keeping(s, ids, f, m), NEW g, Keeping(t, ids, g, n)
  PROVE  f[m] = g[m]
<1> DEFINE T == {k \in Nat : k <= m => f[k] = g[k]}
<1>1. /\ \A k \in 0 .. m : f[k] = IF k = 0 THEN <<>>
             ELSE IF s[k] \in ids THEN f[k - 1] ELSE Append(f[k - 1], s[k])
      /\ \A k \in 0 .. n : g[k] = IF k = 0 THEN <<>>
             ELSE IF t[k] \in ids THEN g[k - 1] ELSE Append(g[k - 1], t[k])
  BY DEF Keeping
<1>2. 0 \in T
  BY <1>1
<1>3. ASSUME NEW k \in Nat, k < m, k \in T
      PROVE  k + 1 \in T
  <2>1. k + 1 \in 0 .. m /\ k + 1 \in 0 .. n /\ k + 1 # 0 /\ (k + 1) - 1 = k /\ k + 1 \in 1 .. m
    BY <1>3
  <2>2. f[k] = g[k] /\ s[k + 1] = t[k + 1]
    BY <1>3, <2>1
  <2>3. f[k + 1] = IF s[k + 1] \in ids THEN f[k] ELSE Append(f[k], s[k + 1])
    BY <1>1, <2>1
  <2>4. g[k + 1] = IF t[k + 1] \in ids THEN g[k] ELSE Append(g[k], t[k + 1])
    BY <1>1, <2>1
  <2> QED BY <2>2, <2>3, <2>4
<1> HIDE DEF T
<1>4. m \in T
  BY <1>2, <1>3, Reaches
<1> QED BY <1>4 DEF T

(* The choice that Without makes.                                          *)
LEMMA WithoutIs ==
  ASSUME NEW s, NEW ids, Len(s) \in Nat
  PROVE  \E f : Keeping(s, ids, f, Len(s)) /\ Without(s, ids) = f[Len(s)]
<1> DEFINE f == CHOOSE f : Keeping(s, ids, f, Len(s))
<1>1. Keeping(s, ids, f, Len(s))
  BY KeepingExists
<1>2. Without(s, ids) = f[Len(s)]
  BY DEF Without, Keeping
<1> QED BY <1>1, <1>2

(* Nothing is kept of nothing.                                             *)
LEMMA WithoutNothing ==
  ASSUME NEW ids
  PROVE  Without(<<>>, ids) = <<>>
<1>1. Len(<<>>) = 0
  OBVIOUS
<1>2. PICK f : Keeping(<<>>, ids, f, 0) /\ Without(<<>>, ids) = f[0]
  BY <1>1, WithoutIs
<1> QED BY <1>2 DEF Keeping

(* A longer sequence keeps its last element or not.                        *)
LEMMA WithoutAppend ==
  ASSUME NEW S, NEW s \in Seq(S), NEW x \in S, NEW ids
  PROVE  Without(Append(s, x), ids) =
           IF x \in ids THEN Without(s, ids) ELSE Append(Without(s, ids), x)
<1> DEFINE t == Append(s, x)
           n == Len(s)
<1>1. /\ n \in Nat /\ Len(t) = n + 1 /\ t[n + 1] = x
      /\ \A k \in 1 .. n : s[k] = t[k]
  OBVIOUS
<1> HIDE DEF t
<1>2. PICK g : Keeping(t, ids, g, n + 1) /\ Without(t, ids) = g[n + 1]
  BY <1>1, WithoutIs
<1>3. PICK f : Keeping(s, ids, f, n) /\ Without(s, ids) = f[n]
  BY <1>1, WithoutIs
<1>4. f[n] = g[n]
  BY <1>1, <1>2, <1>3, KeepingAlike
<1>5. g[n + 1] = IF t[n + 1] \in ids THEN g[n] ELSE Append(g[n], t[n + 1])
  <2>1. n + 1 \in 0 .. n + 1 /\ n + 1 # 0 /\ (n + 1) - 1 = n
    BY <1>1
  <2> QED BY <1>2, <2>1 DEF Keeping
<1> QED BY <1>1, <1>2, <1>3, <1>4, <1>5 DEF t

-----------------------------------------------------------------------------
(* What is kept.                                                           *)

(* It is a sequence of what it was one of.                                 *)
LEMMA WithoutType ==
  ASSUME NEW S, NEW s \in Seq(S), NEW ids
  PROVE  Without(s, ids) \in Seq(S)
<1> DEFINE T == {t \in Seq(S) : Without(t, ids) \in Seq(S)}
<1>1. <<>> \in T
  <2>1. Without(<<>>, ids) = <<>>
    BY WithoutNothing
  <2>2. <<>> \in Seq(S)
    OBVIOUS
  <2>3. Without(<<>>, ids) \in Seq(S)
    BY <2>1, <2>2
  <2> QED BY <2>2, <2>3
<1>2. ASSUME NEW t \in Seq(S), NEW x \in S, t \in T
      PROVE  Append(t, x) \in T
  <2> DEFINE u == Without(t, ids)
  <2>a. u \in Seq(S)
    BY <1>2
  <2>b. Without(Append(t, x), ids) = IF x \in ids THEN u ELSE Append(u, x)
    BY WithoutAppend
  <2> HIDE DEF u
  <2>1. Without(Append(t, x), ids) \in Seq(S)
    BY <2>a, <2>b
  <2>2. Append(t, x) \in Seq(S)
    OBVIOUS
  <2> QED BY <2>1, <2>2
<1> HIDE DEF T
<1>3. Seq(S) \subseteq T
  BY <1>1, <1>2, AllSequences
<1> QED BY <1>3 DEF T

(* Its elements are the others.                                            *)
LEMMA WithoutElements ==
  ASSUME NEW S, NEW s \in Seq(S), NEW ids
  PROVE  ToSet(Without(s, ids)) = ToSet(s) \ ids
<1> DEFINE T == {t \in Seq(S) : ToSet(Without(t, ids)) = ToSet(t) \ ids}
<1>1. <<>> \in T
  BY WithoutNothing DEF ToSet
<1>2. ASSUME NEW t \in Seq(S), NEW x \in S, t \in T
      PROVE  Append(t, x) \in T
  <2> DEFINE u == Without(t, ids)
  <2>1. u \in Seq(S) /\ ToSet(u) = ToSet(t) \ ids
    BY <1>2, WithoutType
  <2>2. Without(Append(t, x), ids) = IF x \in ids THEN u ELSE Append(u, x)
    BY WithoutAppend
  <2> HIDE DEF u
  <2>3. ASSUME NEW v \in Seq(S)
        PROVE  ToSet(Append(v, x)) = ToSet(v) \cup {x}
    <3>1. DOMAIN Append(v, x) = DOMAIN v \cup {Len(v) + 1}
      OBVIOUS
    <3>2. /\ \A i \in DOMAIN v : Append(v, x)[i] = v[i]
          /\ Append(v, x)[Len(v) + 1] = x
      OBVIOUS
    <3> QED BY <3>1, <3>2 DEF ToSet
  <2>4. ToSet(Append(t, x)) = ToSet(t) \cup {x}
    BY <2>3
  <2>5. ToSet(Append(u, x)) = ToSet(u) \cup {x}
    BY <2>1, <2>3
  <2>6. ToSet(Without(Append(t, x), ids)) = ToSet(Append(t, x)) \ ids
    BY <2>1, <2>2, <2>4, <2>5
  <2> QED BY <2>6
<1> HIDE DEF T
<1>3. Seq(S) \subseteq T
  BY <1>1, <1>2, AllSequences
<1> QED BY <1>3 DEF T

(* A longer sequence is kept piece by piece.                               *)
LEMMA WithoutConcat ==
  ASSUME NEW S, NEW s \in Seq(S), NEW t \in Seq(S), NEW ids
  PROVE  Without(s \o t, ids) = Without(s, ids) \o Without(t, ids)
<1> DEFINE T == {u \in Seq(S) : Without(s \o u, ids) = Without(s, ids) \o Without(u, ids)}
<1>1. <<>> \in T
  <2> DEFINE a == Without(s, ids)
  <2>a. a \in Seq(S)
    BY WithoutType
  <2>1. s \o <<>> = s
    BY ConcatEmptySeq
  <2>b. a \o <<>> = a
    BY <2>a, ConcatEmptySeq
  <2>2. Without(<<>>, ids) = <<>>
    BY WithoutNothing
  <2>3. <<>> \in Seq(S)
    OBVIOUS
  <2>4. Without(s \o <<>>, ids) = Without(s, ids) \o Without(<<>>, ids)
    BY <2>1, <2>2, <2>b
  <2> QED BY <2>3, <2>4
<1>2. ASSUME NEW u \in Seq(S), NEW x \in S, u \in T
      PROVE  Append(u, x) \in T
  <2> DEFINE a == Without(s, ids)
             b == Without(u, ids)
  <2>1. a \in Seq(S) /\ b \in Seq(S) /\ s \o u \in Seq(S)
    BY WithoutType
  <2>2. Without(s \o u, ids) = a \o b
    BY <1>2
  <2>3. s \o Append(u, x) = Append(s \o u, x)
    OBVIOUS
  <2> DEFINE v == s \o u
  <2>c. v \in Seq(S) /\ Without(v, ids) = a \o b
    BY <2>1, <2>2
  <2> HIDE DEF v
  <2>d. Without(Append(v, x), ids) = IF x \in ids THEN Without(v, ids) ELSE Append(Without(v, ids), x)
    BY <2>c, WithoutAppend
  <2>4. Without(Append(s \o u, x), ids) = IF x \in ids THEN a \o b ELSE Append(a \o b, x)
    BY <2>c, <2>d DEF v
  <2>5. Without(Append(u, x), ids) = IF x \in ids THEN b ELSE Append(b, x)
    BY WithoutAppend
  <2> HIDE DEF a, b
  <2>6. Append(a \o b, x) = a \o Append(b, x)
    <3>1. a \o Append(b, x) = a \o (b \o <<x>>)
      BY <2>1, AppendIsConcat
    <3>2. a \o (b \o <<x>>) = (a \o b) \o <<x>>
      BY <2>1, ConcatAssociative
    <3>3. a \o b \in Seq(S)
      BY <2>1
    <3>4. (a \o b) \o <<x>> = Append(a \o b, x)
      BY <3>3, AppendIsConcat
    <3> QED BY <3>1, <3>2, <3>4
  <2>7. Without(s \o Append(u, x), ids) = a \o Without(Append(u, x), ids)
    BY <2>3, <2>4, <2>5, <2>6
  <2> QED BY <2>7 DEF a
<1> HIDE DEF T
<1>3. Seq(S) \subseteq T
  BY <1>1, <1>2, AllSequences
<1> QED BY <1>3 DEF T

(* Twice is once without both.                                             *)
LEMMA WithoutTwice ==
  ASSUME NEW S, NEW s \in Seq(S), NEW A, NEW B
  PROVE  Without(Without(s, A), B) = Without(s, A \cup B)
<1> DEFINE T == {t \in Seq(S) : Without(Without(t, A), B) = Without(t, A \cup B)}
<1>1. <<>> \in T
  BY WithoutNothing
<1>2. ASSUME NEW t \in Seq(S), NEW x \in S, t \in T
      PROVE  Append(t, x) \in T
  <2> DEFINE u == Without(t, A)
             v == Without(t, A \cup B)
  <2>1. u \in Seq(S) /\ v \in Seq(S) /\ Without(u, B) = v
    BY <1>2, WithoutType
  <2>2. Without(Append(t, x), A) = IF x \in A THEN u ELSE Append(u, x)
    BY WithoutAppend
  <2>3. Without(Append(t, x), A \cup B) = IF x \in A \cup B THEN v ELSE Append(v, x)
    BY WithoutAppend
  <2> HIDE DEF u, v
  <2>4. Without(Append(u, x), B) = IF x \in B THEN v ELSE Append(v, x)
    BY <2>1, WithoutAppend
  <2>5. Without(Without(Append(t, x), A), B) = Without(Append(t, x), A \cup B)
    BY <2>1, <2>2, <2>3, <2>4
  <2> QED BY <2>5
<1> HIDE DEF T
<1>3. Seq(S) \subseteq T
  BY <1>1, <1>2, AllSequences
<1> QED BY <1>3 DEF T

(* All is kept of a sequence that has none of them.                        *)
LEMMA WithoutOthers ==
  ASSUME NEW S, NEW s \in Seq(S), NEW ids, ToSet(s) \cap ids = {}
  PROVE  Without(s, ids) = s
<1> DEFINE T == {t \in Seq(S) : ToSet(t) \cap ids = {} => Without(t, ids) = t}
<1>1. <<>> \in T
  BY WithoutNothing
<1>2. ASSUME NEW t \in Seq(S), NEW x \in S, t \in T
      PROVE  Append(t, x) \in T
  <2> DEFINE u == Append(t, x)
  <2>1. DOMAIN t \subseteq DOMAIN u /\ Len(t) + 1 \in DOMAIN u /\ u[Len(t) + 1] = x
        /\ \A i \in DOMAIN t : u[i] = t[i]
    OBVIOUS
  <2>2. u \in Seq(S)
    OBVIOUS
  <2>3. Without(u, ids) = IF x \in ids THEN Without(t, ids) ELSE Append(Without(t, ids), x)
    BY WithoutAppend
  <2> HIDE DEF u
  <2>4. ToSet(t) \subseteq ToSet(u) /\ x \in ToSet(u)
    BY <2>1 DEF ToSet
  <2>5. ToSet(u) \cap ids = {} => Without(u, ids) = u
    BY <1>2, <2>3, <2>4 DEF u
  <2>6. u \in T
    BY <2>2, <2>5
  <2> QED BY <2>6 DEF u
<1> HIDE DEF T
<1>3. Seq(S) \subseteq T
  BY <1>1, <1>2, AllSequences
<1> QED BY <1>3 DEF T

(* Only its own elements matter.                                           *)
LEMMA WithoutAlike ==
  ASSUME NEW S, NEW s \in Seq(S), NEW A, NEW B, ToSet(s) \cap A = ToSet(s) \cap B
  PROVE  Without(s, A) = Without(s, B)
<1> DEFINE T == {t \in Seq(S) : ToSet(t) \cap A = ToSet(t) \cap B => Without(t, A) = Without(t, B)}
<1>1. <<>> \in T
  BY WithoutNothing
<1>2. ASSUME NEW t \in Seq(S), NEW x \in S, t \in T
      PROVE  Append(t, x) \in T
  <2> DEFINE u == Append(t, x)
  <2>1. DOMAIN t \subseteq DOMAIN u /\ Len(t) + 1 \in DOMAIN u /\ u[Len(t) + 1] = x
        /\ \A i \in DOMAIN t : u[i] = t[i]
    OBVIOUS
  <2>2. u \in Seq(S)
    OBVIOUS
  <2>a. Without(u, A) = IF x \in A THEN Without(t, A) ELSE Append(Without(t, A), x)
    BY WithoutAppend
  <2>b. Without(u, B) = IF x \in B THEN Without(t, B) ELSE Append(Without(t, B), x)
    BY WithoutAppend
  <2> HIDE DEF u
  <2>4. ToSet(t) \subseteq ToSet(u) /\ x \in ToSet(u)
    BY <2>1 DEF ToSet
  <2>5. ASSUME ToSet(u) \cap A = ToSet(u) \cap B
        PROVE  Without(u, A) = Without(u, B)
    <3>1. ToSet(t) \cap A = ToSet(t) \cap B /\ (x \in A <=> x \in B)
      BY <2>4, <2>5
    <3> QED BY <1>2, <2>a, <2>b, <3>1
  <2>6. u \in T
    BY <2>2, <2>5
  <2> QED BY <2>6 DEF u
<1> HIDE DEF T
<1>3. Seq(S) \subseteq T
  BY <1>1, <1>2, AllSequences
<1> QED BY <1>3 DEF T

-----------------------------------------------------------------------------
(* Pieces of a sequence.                                                   *)

(* A sequence of two pieces has the elements of both.                      *)
LEMMA ConcatElements ==
  ASSUME NEW S, NEW s \in Seq(S), NEW t \in Seq(S)
  PROVE  ToSet(s \o t) = ToSet(s) \cup ToSet(t)
<1> DEFINE u == s \o t
<1>1. /\ DOMAIN u = 1 .. Len(s) + Len(t) /\ Len(s) \in Nat /\ Len(t) \in Nat
      /\ DOMAIN s = 1 .. Len(s) /\ DOMAIN t = 1 .. Len(t)
      /\ \A i \in DOMAIN s : u[i] = s[i]
      /\ \A i \in DOMAIN t : u[i + Len(s)] = t[i]
  OBVIOUS
<1> HIDE DEF u
<1>2. ASSUME NEW x \in ToSet(u)
      PROVE  x \in ToSet(s) \cup ToSet(t)
  <2>1. PICK i \in DOMAIN u : u[i] = x
    BY DEF ToSet
  <2>2. CASE i \in DOMAIN s
    BY <1>1, <2>1, <2>2 DEF ToSet
  <2>3. CASE i \notin DOMAIN s
    <3>1. i - Len(s) \in DOMAIN t /\ (i - Len(s)) + Len(s) = i
      BY <1>1, <2>3
    <3>2. t[i - Len(s)] = x
      BY <1>1, <2>1, <3>1
    <3> QED BY <3>1, <3>2 DEF ToSet
  <2> QED BY <2>2, <2>3
<1>3. ASSUME NEW x \in ToSet(s)
      PROVE  x \in ToSet(u)
  BY <1>1 DEF ToSet
<1>4. ASSUME NEW x \in ToSet(t)
      PROVE  x \in ToSet(u)
  <2>1. PICK i \in DOMAIN t : t[i] = x
    BY DEF ToSet
  <2>2. i + Len(s) \in DOMAIN u
    BY <1>1
  <2> QED BY <1>1, <2>1, <2>2 DEF ToSet
<1>5. ToSet(u) = ToSet(s) \cup ToSet(t)
  BY <1>2, <1>3, <1>4
<1> QED BY <1>5 DEF u

(* It has no element twice if neither has and they share none.             *)
LEMMA ConcatInjective ==
  ASSUME NEW S, NEW s \in Seq(S), NEW t \in Seq(S)
  PROVE  IsInjective(s \o t) <=>
           IsInjective(s) /\ IsInjective(t) /\ ToSet(s) \cap ToSet(t) = {}
<1> DEFINE u == s \o t
<1>1. /\ DOMAIN u = 1 .. Len(s) + Len(t) /\ Len(s) \in Nat /\ Len(t) \in Nat
      /\ DOMAIN s = 1 .. Len(s) /\ DOMAIN t = 1 .. Len(t)
      /\ \A i \in DOMAIN s : u[i] = s[i]
      /\ \A i \in DOMAIN t : u[i + Len(s)] = t[i]
  OBVIOUS
<1> HIDE DEF u
<1>2. ASSUME IsInjective(u)
      PROVE  IsInjective(s) /\ IsInjective(t) /\ ToSet(s) \cap ToSet(t) = {}
  <2>0. \A i, j \in DOMAIN u : u[i] = u[j] => i = j
    BY <1>2 DEF IsInjective
  <2>1. IsInjective(s)
    BY <1>1, <2>0 DEF IsInjective
  <2>2. IsInjective(t)
    <3> SUFFICES ASSUME NEW i \in DOMAIN t, NEW j \in DOMAIN t, t[i] = t[j]
                 PROVE  i = j
      BY DEF IsInjective
    <3>1. i + Len(s) \in DOMAIN u /\ j + Len(s) \in DOMAIN u
      BY <1>1
    <3>2. i + Len(s) = j + Len(s)
      BY <1>1, <2>0, <3>1
    <3> QED BY <1>1, <3>2
  <2>3. ASSUME NEW x \in ToSet(s), x \in ToSet(t)
        PROVE  FALSE
    <3>1. PICK i \in DOMAIN s : s[i] = x
      BY DEF ToSet
    <3>2. PICK j \in DOMAIN t : t[j] = x
      BY <2>3 DEF ToSet
    <3>3. i \in DOMAIN u /\ j + Len(s) \in DOMAIN u /\ i # j + Len(s)
      BY <1>1
    <3> QED BY <1>1, <2>0, <3>1, <3>2, <3>3
  <2> QED BY <2>1, <2>2, <2>3
<1>3. ASSUME IsInjective(s), IsInjective(t), ToSet(s) \cap ToSet(t) = {}
      PROVE  IsInjective(u)
  <2> SUFFICES ASSUME NEW i \in DOMAIN u, NEW j \in DOMAIN u, u[i] = u[j]
               PROVE  i = j
    BY DEF IsInjective
  <2>1. /\ i \in DOMAIN s \/ (i - Len(s) \in DOMAIN t /\ u[i] = t[i - Len(s)])
        /\ j \in DOMAIN s \/ (j - Len(s) \in DOMAIN t /\ u[j] = t[j - Len(s)])
    <3>1. ASSUME NEW k \in DOMAIN u, k \notin DOMAIN s
          PROVE  k - Len(s) \in DOMAIN t /\ u[k] = t[k - Len(s)]
      <4>1. k - Len(s) \in DOMAIN t /\ (k - Len(s)) + Len(s) = k
        BY <1>1, <3>1
      <4> QED BY <1>1, <4>1
    <3> QED BY <3>1
  <2>2. CASE i \in DOMAIN s /\ j \in DOMAIN s
    BY <1>1, <1>3, <2>2 DEF IsInjective
  <2>3. CASE i \notin DOMAIN s /\ j \notin DOMAIN s
    <3>1. i - Len(s) = j - Len(s)
      BY <1>3, <2>1, <2>3 DEF IsInjective
    <3> QED BY <1>1, <3>1
  <2>4. CASE i \in DOMAIN s /\ j \notin DOMAIN s
    BY <1>1, <1>3, <2>1, <2>4 DEF ToSet
  <2>5. CASE i \notin DOMAIN s /\ j \in DOMAIN s
    BY <1>1, <1>3, <2>1, <2>5 DEF ToSet
  <2> QED BY <2>2, <2>3, <2>4, <2>5
<1>4. IsInjective(u) <=> IsInjective(s) /\ IsInjective(t) /\ ToSet(s) \cap ToSet(t) = {}
  BY <1>2, <1>3
<1> QED BY <1>4 DEF u

(* Nothing comes twice because others have gone.                           *)
LEMMA WithoutInjective ==
  ASSUME NEW S, NEW s \in Seq(S), NEW ids, IsInjective(s)
  PROVE  IsInjective(Without(s, ids))
<1> DEFINE T == {t \in Seq(S) : IsInjective(t) => IsInjective(Without(t, ids))}
<1>1. <<>> \in T
  <2>1. <<>> \in Seq(S)
    OBVIOUS
  <2>2. IsInjective(<<>>)
    BY DEF IsInjective
  <2>3. IsInjective(Without(<<>>, ids))
    BY <2>2, WithoutNothing
  <2> QED BY <2>1, <2>3
<1>2. ASSUME NEW t \in Seq(S), NEW x \in S, t \in T
      PROVE  Append(t, x) \in T
  <2> DEFINE u == Without(t, ids)
  <2>1. u \in Seq(S) /\ <<x>> \in Seq(S) /\ Append(t, x) \in Seq(S)
    BY WithoutType
  <2>2. Without(Append(t, x), ids) = IF x \in ids THEN u ELSE Append(u, x)
    BY WithoutAppend
  <2>3. ToSet(u) \subseteq ToSet(t)
    BY WithoutElements
  <2>4. IsInjective(t) => IsInjective(u)
    BY <1>2
  <2> HIDE DEF u
  <2>5. Append(t, x) = t \o <<x>> /\ Append(u, x) = u \o <<x>>
    BY <2>1, AppendIsConcat
  <2>6. IsInjective(t \o <<x>>) <=> IsInjective(t) /\ IsInjective(<<x>>) /\ ToSet(t) \cap ToSet(<<x>>) = {}
    BY <2>1, ConcatInjective
  <2>7. IsInjective(u \o <<x>>) <=> IsInjective(u) /\ IsInjective(<<x>>) /\ ToSet(u) \cap ToSet(<<x>>) = {}
    BY <2>1, ConcatInjective
  <2>8. IsInjective(Append(t, x)) => IsInjective(Without(Append(t, x), ids))
    BY <2>2, <2>3, <2>4, <2>5, <2>6, <2>7
  <2> QED BY <2>1, <2>8
<1> HIDE DEF T
<1>3. Seq(S) \subseteq T
  BY <1>1, <1>2, AllSequences
<1> QED BY <1>3 DEF T

-----------------------------------------------------------------------------
(* Cutting and putting in.                                                 *)

(* A sequence is its first i elements and the others.                      *)
LEMMA TakeDrop ==
  ASSUME NEW S, NEW s \in Seq(S), NEW i \in Nat
  PROVE  /\ Take(s, i) \in Seq(S) /\ Drop(s, i) \in Seq(S)
         /\ Take(s, i) \o Drop(s, i) = s
         /\ i <= Len(s) => Len(Take(s, i)) = i
<1> DEFINE a == Take(s, i)
           b == Drop(s, i)
           n == IF i < Len(s) THEN i ELSE Len(s)
<1>1. Len(s) \in Nat /\ n \in 0 .. Len(s)
  OBVIOUS
<1>2. a = SubSeq(s, 1, n)
  BY DEF Take
<1>3. b = SubSeq(s, n + 1, Len(s))
  <2>1. CASE i < Len(s)
    BY <2>1 DEF Drop
  <2>2. CASE ~(i < Len(s))
    <3>1. SubSeq(s, i + 1, Len(s)) = <<>> /\ SubSeq(s, Len(s) + 1, Len(s)) = <<>>
      BY <1>1, <2>2, SubSeqEmpty
    <3>2. n = Len(s)
      BY <2>2
    <3> QED BY <3>1, <3>2 DEF Drop
  <2> QED BY <2>1, <2>2
<1> HIDE DEF a, b, n
<1>4. a \in Seq(S) /\ Len(a) = n /\ \A k \in 1 .. n : a[k] = s[k]
  BY <1>1, <1>2
<1>5. b \in Seq(S) /\ Len(b) = Len(s) - n /\ \A k \in 1 .. Len(s) - n : b[k] = s[k + n]
  BY <1>1, <1>3
<1>6. a \o b = s
  <2> DEFINE u == a \o b
  <2>0. u \in Seq(S) /\ Len(u) = Len(a) + Len(b)
    BY <1>4, <1>5, ConcatProperties
  <2>1. Len(u) = Len(s)
    BY <1>1, <1>4, <1>5, <2>0
  <2>2. ASSUME NEW k \in 1 .. Len(s)
        PROVE  u[k] = s[k]
    <3>1. CASE k <= n
      <4>1. k \in 1 .. Len(a)
        BY <1>1, <1>4, <3>1
      <4>2. u[k] = a[k]
        BY <1>4, <1>5, <4>1
      <4> QED BY <1>4, <4>1, <4>2
    <3>2. CASE ~(k <= n)
      <4>1. k - n \in 1 .. Len(s) - n /\ (k - n) + n = k
        BY <1>1, <3>2
      <4>2. u[k] = b[k - n]
        BY <1>1, <1>4, <1>5, <3>2
      <4> QED BY <1>5, <4>1, <4>2
    <3> QED BY <3>1, <3>2
  <2> HIDE DEF u
  <2>3. u = s
    BY <2>0, <2>1, <2>2, SeqEqual
  <2> QED BY <2>3 DEF u
<1>7. i <= Len(s) => n = i
  BY <1>1 DEF n
<1> QED BY <1>4, <1>5, <1>6, <1>7 DEF a, b

(* Behind its first i elements.                                            *)
LEMMA SpliceBehind ==
  ASSUME NEW S, NEW a \in Seq(S), NEW b \in Seq(S), NEW t \in Seq(S)
  PROVE  Splice(a \o b, Len(a), t) = a \o t \o b
<1> DEFINE s == a \o b
           n == Len(a)
<1>1. /\ s \in Seq(S) /\ n \in Nat /\ Len(s) = n + Len(b) /\ Len(b) \in Nat
      /\ \A k \in 1 .. n : s[k] = a[k]
      /\ \A k \in 1 .. Len(b) : s[k + n] = b[k]
  OBVIOUS
<1> HIDE DEF s
<1>2. Take(s, n) = a
  <2> DEFINE u == Take(s, n)
  <2>1. u = SubSeq(s, 1, n)
    BY <1>1 DEF Take
  <2>2. u \in Seq(S) /\ Len(u) = n /\ \A k \in 1 .. n : u[k] = a[k]
    BY <1>1, <2>1
  <2> HIDE DEF u
  <2>3. u = a
    BY <2>2, SeqEqual
  <2> QED BY <2>3 DEF u
<1>3. Drop(s, n) = b
  <2> DEFINE u == Drop(s, n)
  <2>1. u = SubSeq(s, n + 1, Len(s))
    BY DEF Drop
  <2>2. u \in Seq(S) /\ Len(u) = Len(b) /\ \A k \in 1 .. Len(b) : u[k] = b[k]
    BY <1>1, <2>1
  <2> HIDE DEF u
  <2>3. u = b
    BY <2>2, SeqEqual
  <2> QED BY <2>3 DEF u
<1> QED BY <1>2, <1>3 DEF Splice, s

(* What is put in is there, with all that was, and can be taken out again. *)
LEMMA SpliceIs ==
  ASSUME NEW S, NEW s \in Seq(S), NEW i \in Nat, NEW t \in Seq(S)
  PROVE  /\ Splice(s, i, t) \in Seq(S)
         /\ ToSet(Splice(s, i, t)) = ToSet(s) \cup ToSet(t)
         /\ IsInjective(Splice(s, i, t)) <=>
              IsInjective(s) /\ IsInjective(t) /\ ToSet(s) \cap ToSet(t) = {}
         /\ \A ids : ToSet(s) \cap ids = {} /\ ToSet(t) \subseteq ids =>
              Without(Splice(s, i, t), ids) = s
<1> DEFINE a == Take(s, i)
           b == Drop(s, i)
<1>1. a \in Seq(S) /\ b \in Seq(S) /\ a \o b = s
  BY TakeDrop
<1>2. Splice(s, i, t) = a \o t \o b
  BY DEF Splice
<1> HIDE DEF a, b
<1>3. a \o t \in Seq(S) /\ (a \o t) \o b \in Seq(S)
  <2> DEFINE u == a \o t
  <2>1. u \in Seq(S)
    BY <1>1, ConcatProperties
  <2> HIDE DEF u
  <2>2. u \o b \in Seq(S)
    BY <1>1, <2>1, ConcatProperties
  <2> QED BY <2>1, <2>2 DEF u
<1>4. ToSet(s) = ToSet(a) \cup ToSet(b)
  BY <1>1, ConcatElements
<1>5. ToSet(a \o t) = ToSet(a) \cup ToSet(t)
  BY <1>1, ConcatElements
<1>6. ToSet((a \o t) \o b) = ToSet(a \o t) \cup ToSet(b)
  <2> DEFINE u == a \o t
  <2>1. u \in Seq(S)
    BY <1>3
  <2> HIDE DEF u
  <2>2. ToSet(u \o b) = ToSet(u) \cup ToSet(b)
    BY <1>1, <2>1, ConcatElements
  <2> QED BY <2>2 DEF u
<1>7. IsInjective(s) <=> IsInjective(a) /\ IsInjective(b) /\ ToSet(a) \cap ToSet(b) = {}
  BY <1>1, ConcatInjective
<1>8. IsInjective(a \o t) <=> IsInjective(a) /\ IsInjective(t) /\ ToSet(a) \cap ToSet(t) = {}
  BY <1>1, ConcatInjective
<1>9. IsInjective((a \o t) \o b) <=> IsInjective(a \o t) /\ IsInjective(b) /\ ToSet(a \o t) \cap ToSet(b) = {}
  <2> DEFINE u == a \o t
  <2>1. u \in Seq(S)
    BY <1>3
  <2> HIDE DEF u
  <2>2. IsInjective(u \o b) <=> IsInjective(u) /\ IsInjective(b) /\ ToSet(u) \cap ToSet(b) = {}
    BY <1>1, <2>1, ConcatInjective
  <2> QED BY <2>2 DEF u
<1>10. IsInjective((a \o t) \o b) <=>
         IsInjective(s) /\ IsInjective(t) /\ ToSet(s) \cap ToSet(t) = {}
  BY <1>4, <1>5, <1>7, <1>8, <1>9
<1>11. ASSUME NEW ids, ToSet(s) \cap ids = {}, ToSet(t) \subseteq ids
       PROVE  Without((a \o t) \o b, ids) = s
  <2>1. Without((a \o t) \o b, ids) = Without(a \o t, ids) \o Without(b, ids)
    <3> DEFINE c == a \o t
    <3>1. c \in Seq(S)
      BY <1>3
    <3>b. b \in Seq(S)
      BY <1>1
    <3> HIDE DEF c
    <3>2. Without(c \o b, ids) = Without(c, ids) \o Without(b, ids)
      BY <3>b, <3>1, WithoutConcat
    <3> QED BY <3>2 DEF c
  <2>2. Without(a \o t, ids) = Without(a, ids) \o Without(t, ids)
    BY <1>1, WithoutConcat
  <2>3. Without(a, ids) = a
    BY <1>1, <1>4, <1>11, WithoutOthers
  <2>4. Without(b, ids) = b
    BY <1>1, <1>4, <1>11, WithoutOthers
  <2>5. Without(t, ids) = <<>>
    <3> DEFINE u == Without(t, ids)
    <3>1. u \in Seq(S)
      BY WithoutType
    <3>2. ToSet(u) = {}
      BY <1>11, WithoutElements
    <3> HIDE DEF u
    <3>3. Len(u) = 0
      <4>1. Len(u) \in Nat /\ DOMAIN u = 1 .. Len(u)
        BY <3>1
      <4>2. 1 \notin DOMAIN u
        BY <3>2 DEF ToSet
      <4> QED BY <4>1, <4>2
    <3>4. u = <<>>
      BY <3>1, <3>3
    <3> QED BY <3>4 DEF u
  <2>6. a \o <<>> = a
    BY <1>1, ConcatEmptySeq
  <2> QED BY <1>1, <2>1, <2>2, <2>3, <2>4, <2>5, <2>6
<1> QED BY <1>2, <1>3, <1>4, <1>5, <1>6, <1>10, <1>11

(* Where an element is.                                                    *)
LEMMA IndexInIs ==
  ASSUME NEW S, NEW s \in Seq(S), NEW x \in ToSet(s)
  PROVE  /\ IndexIn(s, x) \in Nat /\ IndexIn(s, x) < Len(s)
         /\ s[IndexIn(s, x) + 1] = x
         /\ IsInjective(s) => \A k \in DOMAIN s : s[k] = x => IndexIn(s, x) = k - 1
<1>1. PICK i \in DOMAIN s : s[i] = x
  BY DEF ToSet
<1> DEFINE j == CHOOSE k \in DOMAIN s : s[k] = x
<1>2. j \in DOMAIN s /\ s[j] = x
  BY <1>1
<1> HIDE DEF j
<1>3. j \in Nat /\ 1 <= j /\ j <= Len(s) /\ IndexIn(s, x) = j - 1
  BY <1>2 DEF IndexIn, j
<1> QED BY <1>2, <1>3 DEF IsInjective

(* One element.                                                            *)
LEMMA Single ==
  ASSUME NEW S, NEW x \in S
  PROVE  /\ <<x>> \in Seq(S) /\ ToSet(<<x>>) = {x} /\ IsInjective(<<x>>)
         /\ \A ids : Without(<<x>>, ids) = IF x \in ids THEN <<>> ELSE <<x>>
<1>1. <<x>> \in Seq(S) /\ ToSet(<<x>>) = {x} /\ IsInjective(<<x>>)
  BY DEF ToSet, IsInjective
<1>2. ASSUME NEW ids
      PROVE  Without(<<x>>, ids) = IF x \in ids THEN <<>> ELSE <<x>>
  <2> DEFINE e == <<>>
  <2>1. e \in Seq(S) /\ Append(e, x) = <<x>>
    OBVIOUS
  <2>2. Without(e, ids) = e
    BY WithoutNothing
  <2> HIDE DEF e
  <2>3. Without(Append(e, x), ids) = IF x \in ids THEN Without(e, ids) ELSE Append(Without(e, ids), x)
    BY <2>1, WithoutAppend
  <2>4. Without(<<x>>, ids) = IF x \in ids THEN e ELSE <<x>>
    BY <2>1, <2>2, <2>3
  <2> QED BY <2>4 DEF e
<1> QED BY <1>1, <1>2

(* One more element in a list of a document.                               *)
LEMMA SpliceItem ==
  ASSUME NEW s \in Seq(Item), NEW i \in Nat, NEW x \in Item
  PROVE  /\ Splice(s, i, <<x>>) \in Seq(Item)
         /\ ToSet(Splice(s, i, <<x>>)) = ToSet(s) \cup {x}
         /\ IsInjective(s) /\ x \notin ToSet(s) => IsInjective(Splice(s, i, <<x>>))
         /\ x \notin ToSet(s) => Without(Splice(s, i, <<x>>), {x}) = s
<1> DEFINE t == <<x>>
<1>1. t \in Seq(Item) /\ ToSet(t) = {x} /\ IsInjective(t)
  BY Single
<1> HIDE DEF t
<1>2. /\ Splice(s, i, t) \in Seq(Item)
      /\ ToSet(Splice(s, i, t)) = ToSet(s) \cup ToSet(t)
      /\ IsInjective(Splice(s, i, t)) <=>
           IsInjective(s) /\ IsInjective(t) /\ ToSet(s) \cap ToSet(t) = {}
      /\ \A ids : ToSet(s) \cap ids = {} /\ ToSet(t) \subseteq ids =>
           Without(Splice(s, i, t), ids) = s
  BY <1>1, SpliceIs
<1>3. IsInjective(s) /\ x \notin ToSet(s) => IsInjective(Splice(s, i, t))
  BY <1>1, <1>2
<1>4. x \notin ToSet(s) => Without(Splice(s, i, t), {x}) = s
  BY <1>1, <1>2
<1> QED BY <1>1, <1>2, <1>3, <1>4 DEF t

(* The same for tracks.                                                    *)
LEMMA SpliceTrack ==
  ASSUME NEW s \in Seq(Track), NEW i \in Nat, NEW x \in Track
  PROVE  /\ Splice(s, i, <<x>>) \in Seq(Track)
         /\ ToSet(Splice(s, i, <<x>>)) = ToSet(s) \cup {x}
         /\ IsInjective(s) /\ x \notin ToSet(s) => IsInjective(Splice(s, i, <<x>>))
         /\ x \notin ToSet(s) => Without(Splice(s, i, <<x>>), {x}) = s
<1> DEFINE t == <<x>>
<1>1. t \in Seq(Track) /\ ToSet(t) = {x} /\ IsInjective(t)
  BY Single
<1> HIDE DEF t
<1>2. /\ Splice(s, i, t) \in Seq(Track)
      /\ ToSet(Splice(s, i, t)) = ToSet(s) \cup ToSet(t)
      /\ IsInjective(Splice(s, i, t)) <=>
           IsInjective(s) /\ IsInjective(t) /\ ToSet(s) \cap ToSet(t) = {}
      /\ \A ids : ToSet(s) \cap ids = {} /\ ToSet(t) \subseteq ids =>
           Without(Splice(s, i, t), ids) = s
  BY <1>1, SpliceIs
<1>3. IsInjective(s) /\ x \notin ToSet(s) => IsInjective(Splice(s, i, t))
  BY <1>1, <1>2
<1>4. x \notin ToSet(s) => Without(Splice(s, i, t), {x}) = s
  BY <1>1, <1>2
<1> QED BY <1>1, <1>2, <1>3, <1>4 DEF t

(* An element that was left out is put back at its place, if none before   *)
(* it is missing.                                                          *)
LEMMA PutBack ==
  ASSUME NEW S, NEW s \in Seq(S), IsInjective(s), NEW A, NEW x \in S, x \in ToSet(s), x \in A,
         \A y \in ToSet(s) \cap A : IndexIn(s, y) >= IndexIn(s, x)
  PROVE  Splice(Without(s, A), IndexIn(s, x), <<x>>) = Without(s, A \ {x})
<1> DEFINE i == IndexIn(s, x)
           B == A \ {x}
           a == Take(s, i)
           b == Drop(s, i + 1)
           c == Without(b, A)
<1>1. i \in Nat /\ i < Len(s) /\ s[i + 1] = x
  BY IndexInIs
<1>2. \A y \in ToSet(s) \cap A : IndexIn(s, y) >= i
  OBVIOUS
<1> HIDE DEF i
<1>3. a \in Seq(S) /\ Len(a) = i /\ \A k \in 1 .. i : a[k] = s[k]
  <2>1. a = SubSeq(s, 1, i)
    BY <1>1 DEF Take
  <2> QED BY <1>1, <2>1
<1>4. b \in Seq(S) /\ <<x>> \in Seq(S) /\ c \in Seq(S)
  <2>1. i + 1 \in Nat
    BY <1>1
  <2>2. b \in Seq(S)
    BY <2>1, TakeDrop
  <2> HIDE DEF b
  <2> QED BY <2>2, WithoutType
<1>5. s = (a \o <<x>>) \o b
  <2> DEFINE u == Take(s, i + 1)
  <2>0. i + 1 \in Nat
    BY <1>1
  <2>1. u \o b = s
    BY <2>0, TakeDrop
  <2>2. u = Append(a, x)
    <3>1. u = SubSeq(s, 1, i + 1)
      <4>1. Len(s) \in Nat
        OBVIOUS
      <4>2. i + 1 < Len(s) \/ i + 1 = Len(s)
        BY <1>1, <4>1
      <4> QED BY <4>2 DEF Take
    <3>2. u \in Seq(S) /\ Len(u) = i + 1 /\ \A k \in 1 .. i + 1 : u[k] = s[k]
      BY <1>1, <3>1
    <3>3. Append(a, x) \in Seq(S) /\ Len(Append(a, x)) = i + 1
          /\ \A k \in 1 .. i + 1 : Append(a, x)[k] = s[k]
      BY <1>1, <1>3
    <3> HIDE DEF u, a
    <3>4. \A k \in 1 .. Len(u) : u[k] = Append(a, x)[k]
      BY <3>2, <3>3
    <3> QED BY <3>2, <3>3, <3>4, SeqEqual
  <2>3. Append(a, x) = a \o <<x>>
    BY <1>3, <1>4, AppendIsConcat
  <2> QED BY <2>1, <2>2, <2>3
<1> HIDE DEF a, b, c
<1> DEFINE d == a \o <<x>>
<1>6. d \in Seq(S) /\ s = d \o b
  BY <1>3, <1>4, <1>5
<1>7. ToSet(a) \subseteq ToSet(s) /\ x \notin ToSet(a) /\ x \notin ToSet(b)
  <2>1. ToSet(s) = ToSet(d) \cup ToSet(b) /\ ToSet(d) \cap ToSet(b) = {} /\ IsInjective(d)
    <3> HIDE DEF d
    <3> QED BY <1>4, <1>6, ConcatElements, ConcatInjective
  <2>2. ToSet(d) = ToSet(a) \cup ToSet(<<x>>) /\ ToSet(a) \cap ToSet(<<x>>) = {}
    <3>1. ToSet(a \o <<x>>) = ToSet(a) \cup ToSet(<<x>>)
      BY <1>3, <1>4, ConcatElements
    <3>2. IsInjective(a \o <<x>>) => ToSet(a) \cap ToSet(<<x>>) = {}
      BY <1>3, <1>4, ConcatInjective
    <3> QED BY <2>1, <3>1, <3>2
  <2>3. x \in ToSet(<<x>>)
    BY Single
  <2> QED BY <2>1, <2>2, <2>3
<1>8. ToSet(a) \cap A = {}
  <2> SUFFICES ASSUME NEW y \in ToSet(a), y \in A
               PROVE  FALSE
    OBVIOUS
  <2>1. PICK k \in DOMAIN a : a[k] = y
    BY DEF ToSet
  <2>2. k \in 1 .. i /\ s[k] = y /\ k \in DOMAIN s
    BY <1>1, <1>3, <2>1
  <2>3. IndexIn(s, y) = k - 1
    BY <1>7, <2>2, IndexInIs
  <2> QED BY <1>1, <1>2, <1>7, <2>2, <2>3
<1> HIDE DEF d
<1>9. /\ Without(s, A) = Without(d, A) \o Without(b, A)
      /\ Without(s, B) = Without(d, B) \o Without(b, B)
  <2>1. d \in Seq(S) /\ b \in Seq(S)
    BY <1>4, <1>6
  <2>2. Without(d \o b, A) = Without(d, A) \o Without(b, A)
    BY <2>1, WithoutConcat
  <2>3. Without(d \o b, B) = Without(d, B) \o Without(b, B)
    BY <2>1, WithoutConcat
  <2> QED BY <1>6, <2>2, <2>3
<1>10. /\ Without(d, A) = Without(a, A) \o Without(<<x>>, A)
       /\ Without(d, B) = Without(a, B) \o Without(<<x>>, B)
  <2> DEFINE e == <<x>>
  <2>1. a \in Seq(S) /\ e \in Seq(S)
    BY <1>3, <1>4
  <2> HIDE DEF e, B
  <2>2. Without(a \o e, A) = Without(a, A) \o Without(e, A)
    BY <2>1, WithoutConcat
  <2>3. Without(a \o e, B) = Without(a, B) \o Without(e, B)
    BY <2>1, WithoutConcat
  <2> QED BY <2>2, <2>3 DEF d, e
<1>11. Without(a, A) = a /\ Without(a, B) = a
  BY <1>3, <1>8, WithoutOthers
<1>12. Without(<<x>>, A) = <<>> /\ Without(<<x>>, B) = <<x>>
  BY Single
<1>13. Without(b, B) = c
  <2>1. ToSet(b) \cap A = ToSet(b) \cap B
    BY <1>7
  <2> QED BY <1>4, <2>1, WithoutAlike DEF c
<1>14. Without(s, A) = a \o c
  BY <1>3, <1>9, <1>10, <1>11, <1>12, ConcatEmptySeq DEF c
<1>15. Without(s, B) = (a \o <<x>>) \o c
  BY <1>9, <1>10, <1>11, <1>12, <1>13
<1>16. Splice(a \o c, i, <<x>>) = a \o <<x>> \o c
  BY <1>3, <1>4, SpliceBehind
<1> QED BY <1>14, <1>15, <1>16 DEF i

-----------------------------------------------------------------------------
(* Documents.                                                              *)

(* A document is its lists.                                                *)
LEMMA DocIs ==
  /\ \A d \in Doc : d.root \in Seq(Item) /\ d.inner \in [Group -> Seq(Track)]
  /\ \A d \in Doc : \A g \in Group : d.inner[g] \in Seq(Track)
  /\ \A d, e \in Doc : d.root = e.root /\ (\A g \in Group : d.inner[g] = e.inner[g]) => d = e
<1>1. ASSUME NEW d \in Doc
      PROVE  /\ d.root \in Seq(Item) /\ d.inner \in [Group -> Seq(Track)]
             /\ d = [root |-> d.root, inner |-> d.inner]
  BY DEF Doc
<1>2. ASSUME NEW d \in Doc, NEW e \in Doc, d.root = e.root,
             \A g \in Group : d.inner[g] = e.inner[g]
      PROVE  d = e
  <2>1. d.inner = e.inner
    BY <1>1, <1>2
  <2> QED BY <1>1, <1>2, <2>1
<1> QED BY <1>1, <1>2

(* Tracks and groups are different items, and neither is the root.         *)
LEMMA ItemsDiffer ==
  /\ \A t \in Track : t \in Item /\ t \notin Group /\ t # Root
  /\ \A g \in Group : g \in Item /\ g \notin Track /\ g # Root
  /\ \A x \in Item : x \in Track \/ x \in Group
BY UndoAssumption DEF Item

(* Whoever is in a list of the document is in the document.                *)
LEMMA ItemsAre ==
  ASSUME NEW d \in Doc
  PROVE  /\ ToSet(d.root) \subseteq ItemsOf(d) /\ ToSet(d.root) \subseteq Item
         /\ \A g \in Group : ToSet(d.inner[g]) \subseteq ItemsOf(d) /\ ToSet(d.inner[g]) \subseteq Track
         /\ ItemsOf(d) \subseteq Item
         /\ \A x \in ItemsOf(d) : x \in ToSet(d.root) \/ \E g \in Group : x \in ToSet(d.inner[g])
<1>1. ToSet(d.root) \subseteq Item
  BY DocIs DEF ToSet
<1>2. ASSUME NEW g \in Group
      PROVE  ToSet(d.inner[g]) \subseteq Track
  BY DocIs DEF ToSet
<1> QED BY <1>1, <1>2, ItemsDiffer DEF ItemsOf

(* Removing items.                                                         *)
LEMMA RemoveIdsIs ==
  ASSUME NEW d \in Doc, NEW A
  PROVE  /\ RemoveIds(d, A) \in Doc
         /\ RemoveIds(d, A).root = Without(d.root, A)
         /\ \A g \in Group : RemoveIds(d, A).inner[g] = IF g \in A THEN <<>> ELSE Without(d.inner[g], A)
<1> DEFINE e == RemoveIds(d, A)
<1>1. /\ e.root = Without(d.root, A)
      /\ \A g \in Group : e.inner[g] = IF g \in A THEN <<>> ELSE Without(d.inner[g], A)
  BY DEF RemoveIds
<1>2. Without(d.root, A) \in Seq(Item)
  BY DocIs, WithoutType
<1>3. ASSUME NEW g \in Group
      PROVE  (IF g \in A THEN <<>> ELSE Without(d.inner[g], A)) \in Seq(Track)
  BY DocIs, WithoutType
<1>4. e \in Doc
  BY <1>2, <1>3 DEF RemoveIds, Doc
<1> QED BY <1>1, <1>4

(* Removing items leaves only others, and none of those removed.           *)
LEMMA RemoveIdsItems ==
  ASSUME NEW d \in Doc, NEW A
  PROVE  ItemsOf(RemoveIds(d, A)) \subseteq ItemsOf(d) \ A
<1> DEFINE e == RemoveIds(d, A)
<1>1. ToSet(e.root) = ToSet(d.root) \ A
  BY RemoveIdsIs, DocIs, WithoutElements
<1>2. ASSUME NEW g \in Group
      PROVE  ToSet(e.inner[g]) \subseteq ToSet(d.inner[g]) \ A
  <2>1. e.inner[g] = IF g \in A THEN <<>> ELSE Without(d.inner[g], A)
    BY RemoveIdsIs
  <2>2. ToSet(Without(d.inner[g], A)) = ToSet(d.inner[g]) \ A
    BY DocIs, WithoutElements
  <2>3. ToSet(<<>>) = {}
    BY DEF ToSet
  <2> QED BY <2>1, <2>2, <2>3
<1> HIDE DEF e
<1>3. ItemsOf(e) \subseteq ItemsOf(d) \ A
  BY <1>1, <1>2 DEF ItemsOf
<1> QED BY <1>3 DEF e

(* First some, then others.                                                *)
LEMMA RemoveIdsTwice ==
  ASSUME NEW d \in Doc, NEW A, NEW B
  PROVE  RemoveIds(RemoveIds(d, A), B) = RemoveIds(d, A \cup B)
<1> DEFINE e == RemoveIds(d, A)
           f == RemoveIds(e, B)
           h == RemoveIds(d, A \cup B)
<1>1. e \in Doc
  BY RemoveIdsIs
<1>2. h \in Doc
  BY RemoveIdsIs
<1>3. f \in Doc
  BY <1>1, RemoveIdsIs
<1>4. f.root = h.root
  <2>1. e.root = Without(d.root, A)
    BY RemoveIdsIs
  <2>2. f.root = Without(e.root, B)
    BY <1>1, RemoveIdsIs
  <2>3. h.root = Without(d.root, A \cup B)
    BY RemoveIdsIs
  <2>4. Without(Without(d.root, A), B) = Without(d.root, A \cup B)
    BY DocIs, WithoutTwice
  <2> QED BY <2>1, <2>2, <2>3, <2>4
<1>5. ASSUME NEW g \in Group
      PROVE  f.inner[g] = h.inner[g]
  <2> DEFINE s == d.inner[g]
  <2>1. e.inner[g] = IF g \in A THEN <<>> ELSE Without(s, A)
    BY RemoveIdsIs
  <2>2. f.inner[g] = IF g \in B THEN <<>> ELSE Without(e.inner[g], B)
    BY <1>1, RemoveIdsIs
  <2>3. h.inner[g] = IF g \in A \cup B THEN <<>> ELSE Without(s, A \cup B)
    BY RemoveIdsIs
  <2>4. Without(Without(s, A), B) = Without(s, A \cup B)
    BY DocIs, WithoutTwice
  <2>5. Without(<<>>, B) = <<>>
    BY WithoutNothing
  <2> QED BY <2>1, <2>2, <2>3, <2>4, <2>5
<1> HIDE DEF f, h
<1>6. f = h
  BY <1>2, <1>3, <1>4, <1>5, DocIs
<1> QED BY <1>6 DEF f, h

(* Removing what is not there.                                             *)
LEMMA RemoveIdsOthers ==
  ASSUME NEW d \in Doc, NEW A, ItemsOf(d) \cap A = {},
         \A g \in Group : g \in A => d.inner[g] = <<>>
  PROVE  RemoveIds(d, A) = d
<1> DEFINE e == RemoveIds(d, A)
<1>1. e \in Doc
  BY RemoveIdsIs
<1>2. e.root = d.root
  <2>1. ToSet(d.root) \cap A = {}
    BY ItemsAre
  <2>2. Without(d.root, A) = d.root
    BY <2>1, DocIs, WithoutOthers
  <2> QED BY <2>2, RemoveIdsIs
<1>3. ASSUME NEW g \in Group
      PROVE  e.inner[g] = d.inner[g]
  <2>1. ToSet(d.inner[g]) \cap A = {}
    BY ItemsAre
  <2>2. Without(d.inner[g], A) = d.inner[g]
    BY <2>1, DocIs, WithoutOthers
  <2> QED BY <2>2, RemoveIdsIs
<1> HIDE DEF e
<1>4. e = d
  BY <1>1, <1>2, <1>3, DocIs
<1> QED BY <1>4 DEF e

(* What is neat stays so.                                                  *)
LEMMA RemoveIdsNeat ==
  ASSUME NEW d \in Doc, NEW A, Neat(d)
  PROVE  Neat(RemoveIds(d, A))
<1> DEFINE e == RemoveIds(d, A)
<1>1. ToSet(e.root) = ToSet(d.root) \ A /\ IsInjective(e.root)
  <2>1. IsInjective(d.root)
    BY DEF Neat
  <2> QED BY <2>1, RemoveIdsIs, DocIs, WithoutElements, WithoutInjective
<1>2. ASSUME NEW g \in Group
      PROVE  /\ ToSet(e.inner[g]) \subseteq ToSet(d.inner[g])
             /\ IsInjective(e.inner[g])
             /\ g \in A \/ d.inner[g] = <<>> => e.inner[g] = <<>>
  <2> DEFINE s == d.inner[g]
             t == Without(s, A)
  <2>1. e.inner[g] = IF g \in A THEN <<>> ELSE t
    BY RemoveIdsIs
  <2>2. ToSet(t) = ToSet(s) \ A
    BY DocIs, WithoutElements
  <2>3. IsInjective(t)
    <3>1. IsInjective(s) /\ s \in Seq(Track)
      BY DocIs DEF Neat
    <3> HIDE DEF s
    <3> QED BY <3>1, WithoutInjective
  <2>4. s = <<>> => t = <<>>
    BY WithoutNothing
  <2>5. IsInjective(<<>>) /\ ToSet(<<>>) = {}
    BY DEF IsInjective, ToSet
  <2> HIDE DEF e, t
  <2> QED BY <2>1, <2>2, <2>3, <2>4, <2>5
<1> HIDE DEF e
<1>3. Neat(e)
  <2> SUFFICES ASSUME NEW g \in Group
               PROVE  /\ IsInjective(e.inner[g])
                      /\ ToSet(e.inner[g]) \cap ToSet(e.root) = {}
                      /\ g \notin ToSet(e.root) => e.inner[g] = <<>>
                      /\ \A h \in Group \ {g} : ToSet(e.inner[g]) \cap ToSet(e.inner[h]) = {}
    BY <1>1 DEF Neat
  <2>1. /\ ToSet(d.inner[g]) \cap ToSet(d.root) = {}
        /\ g \notin ToSet(d.root) => d.inner[g] = <<>>
        /\ \A h \in Group \ {g} : ToSet(d.inner[g]) \cap ToSet(d.inner[h]) = {}
    BY DEF Neat
  <2> QED BY <1>1, <1>2, <2>1
<1> QED BY <1>3 DEF e

-----------------------------------------------------------------------------
(* Inserting an item.                                                      *)

(* Only tracks go into groups.                                             *)
Fits(p) == p \in Position /\ (p.parent # Root => p.item \in Track)

(* A position's parts.                                                     *)
LEMMA PositionIs ==
  /\ \A p \in Position : /\ p.item \in Item /\ p.tracks \in Seq(Track)
                         /\ p.parent \in Group \cup {Root} /\ p.index \in Nat
  /\ \A p : Fits(p) => p \in Position /\ (p.parent # Root => p.item \in Track)
BY DEF Position, Fits

(* Into the root, into a group, or not at all.                             *)
LEMMA InsertItemIs ==
  ASSUME NEW d \in Doc, NEW p, Fits(p)
  PROVE  /\ InsertItem(d, p) \in Doc
         /\ p.parent = Root =>
              /\ InsertItem(d, p).root = Splice(d.root, p.index, <<p.item>>)
              /\ \A g \in Group : InsertItem(d, p).inner[g] = IF g = p.item THEN p.tracks ELSE d.inner[g]
         /\ p.parent # Root /\ p.parent \in ToSet(d.root) =>
              /\ InsertItem(d, p).root = d.root
              /\ \A g \in Group : InsertItem(d, p).inner[g] =
                   IF g = p.parent THEN Splice(d.inner[g], p.index, <<p.item>>) ELSE d.inner[g]
         /\ p.parent # Root /\ p.parent \notin ToSet(d.root) => InsertItem(d, p) = d
<1> DEFINE e == InsertItem(d, p)
<1>1. /\ p.item \in Item /\ p.tracks \in Seq(Track) /\ p.index \in Nat
      /\ p.parent \in Group \cup {Root} /\ (p.parent # Root => p.item \in Track)
  BY PositionIs
<1>2. d.root \in Seq(Item) /\ d.inner \in [Group -> Seq(Track)]
  BY DocIs
<1>3. CASE p.parent = Root
  <2> DEFINE r == Splice(d.root, p.index, <<p.item>>)
             n == [g \in Group |-> IF g = p.item THEN p.tracks ELSE d.inner[g]]
  <2>1. e = [root |-> r, inner |-> n]
    <3>1. p.parent \notin ToSet(d.root)
      BY <1>3, ItemsAre, ItemsDiffer
    <3> QED BY <1>3, <3>1 DEF InsertItem
  <2>2. r \in Seq(Item)
    <3>1. <<p.item>> \in Seq(Item)
      BY <1>1, Single
    <3> QED BY <1>1, <1>2, <3>1, SpliceIs
  <2>3. n \in [Group -> Seq(Track)]
    BY <1>1, <1>2
  <2>4. \A g \in Group : n[g] = IF g = p.item THEN p.tracks ELSE d.inner[g]
    OBVIOUS
  <2> HIDE DEF e, r, n
  <2>5. e \in Doc /\ e.root = r /\ e.inner = n
    BY <2>1, <2>2, <2>3 DEF Doc
  <2> QED BY <1>3, <2>4, <2>5 DEF e, r
<1>4. CASE p.parent # Root /\ p.parent \in ToSet(d.root)
  <2> DEFINE q == p.parent
             r == Splice(d.inner[q], p.index, <<p.item>>)
             n == [d.inner EXCEPT ![q] = r]
  <2>0. q \in Group
    BY <1>1, <1>4
  <2>1. e = [d EXCEPT !.inner[q] = r]
    BY <1>4 DEF InsertItem
  <2>2. r \in Seq(Track)
    <3>1. d.inner[q] \in Seq(Track)
      BY <1>2, <2>0
    <3>2. p.item \in Track
      BY <1>1, <1>4
    <3> QED BY <1>1, <3>1, <3>2, SpliceTrack
  <2>3. n \in [Group -> Seq(Track)] /\ \A g \in Group : n[g] = IF g = q THEN r ELSE d.inner[g]
    BY <1>2, <2>0, <2>2
  <2>4. [d EXCEPT !.inner[q] = r] = [d EXCEPT !.inner = n]
    BY DEF Doc
  <2> HIDE DEF e, n
  <2>5. e \in Doc /\ e.root = d.root /\ e.inner = n
    BY <1>2, <2>1, <2>3, <2>4 DEF Doc
  <2> QED BY <1>4, <2>3, <2>5 DEF e
<1>5. CASE p.parent # Root /\ p.parent \notin ToSet(d.root)
  BY <1>5 DEF InsertItem
<1> QED BY <1>3, <1>4, <1>5

(* It is new to the document, and its place exists.                        *)
Lands(d, p) ==
  /\ Fits(p)
  /\ p.item \notin ItemsOf(d)
  /\ p.parent # Root => p.parent \in ToSet(d.root)
  /\ p.item \in Group =>
       /\ IsInjective(p.tracks) /\ ToSet(p.tracks) \cap ItemsOf(d) = {}
       /\ d.inner[p.item] = <<>>

(* Then the document has it besides all that it had.                       *)
LEMMA LandedItems ==
  ASSUME NEW d \in Doc, NEW p, Lands(d, p)
  PROVE  /\ InsertItem(d, p) \in Doc
         /\ ItemsOf(InsertItem(d, p)) \subseteq ItemsOf(d) \cup {p.item} \cup ToSet(p.tracks)
         /\ ToSet(d.root) \subseteq ToSet(InsertItem(d, p).root)
         /\ \A g \in Group : g # p.item /\ g # p.parent => InsertItem(d, p).inner[g] = d.inner[g]
<1> DEFINE e == InsertItem(d, p)
<1>1. /\ p.item \in Item /\ p.tracks \in Seq(Track) /\ p.index \in Nat /\ Fits(p)
      /\ p.parent \in Group \cup {Root} /\ (p.parent # Root => p.item \in Track)
  BY PositionIs DEF Lands
<1>2. e \in Doc
  BY <1>1, InsertItemIs
<1>3. CASE p.parent = Root
  <2>1. /\ e.root = Splice(d.root, p.index, <<p.item>>)
        /\ \A g \in Group : e.inner[g] = IF g = p.item THEN p.tracks ELSE d.inner[g]
    BY <1>1, <1>3, InsertItemIs
  <2>2. ToSet(e.root) = ToSet(d.root) \cup {p.item}
    <3>1. d.root \in Seq(Item)
      BY DocIs
    <3>2. ToSet(Splice(d.root, p.index, <<p.item>>)) = ToSet(d.root) \cup {p.item}
      BY <1>1, <3>1, SpliceItem
    <3> QED BY <2>1, <3>2
  <2> HIDE DEF e
  <2> QED BY <1>2, <2>1, <2>2, ItemsAre DEF e
<1>4. CASE p.parent # Root
  <2>1. p.parent \in ToSet(d.root) /\ p.parent \in Group
    BY <1>1, <1>4 DEF Lands
  <2>2. /\ e.root = d.root
        /\ \A g \in Group : e.inner[g] =
             IF g = p.parent THEN Splice(d.inner[g], p.index, <<p.item>>) ELSE d.inner[g]
    BY <1>1, <1>4, <2>1, InsertItemIs
  <2>3. ToSet(e.inner[p.parent]) = ToSet(d.inner[p.parent]) \cup {p.item}
    <3>1. d.inner[p.parent] \in Seq(Track)
      BY <2>1, DocIs
    <3>2. ToSet(Splice(d.inner[p.parent], p.index, <<p.item>>)) = ToSet(d.inner[p.parent]) \cup {p.item}
      BY <1>1, <1>4, <3>1, SpliceTrack
    <3> QED BY <2>1, <2>2, <3>2
  <2> HIDE DEF e
  <2> QED BY <1>2, <2>1, <2>2, <2>3, ItemsAre DEF e
<1> QED BY <1>3, <1>4

(* Removing it again leaves what was before.                               *)
LEMMA LandedRemoved ==
  ASSUME NEW d \in Doc, NEW p, Lands(d, p)
  PROVE  RemoveIds(InsertItem(d, p), {p.item}) = d
<1> DEFINE x == p.item
           e == InsertItem(d, p)
           f == RemoveIds(e, {x})
<1>1. /\ x \in Item /\ p.tracks \in Seq(Track) /\ p.index \in Nat /\ Fits(p)
      /\ p.parent \in Group \cup {Root} /\ (p.parent # Root => x \in Track)
  BY PositionIs DEF Lands
<1>2. e \in Doc
  BY <1>1, InsertItemIs
<1>3. f \in Doc /\ f.root = Without(e.root, {x})
      /\ \A g \in Group : f.inner[g] = IF g = x THEN <<>> ELSE Without(e.inner[g], {x})
  BY <1>2, RemoveIdsIs
<1>4. x \notin ToSet(d.root) /\ \A g \in Group : x \notin ToSet(d.inner[g])
  BY ItemsAre DEF Lands
<1>5. Without(d.root, {x}) = d.root
  BY <1>4, DocIs, WithoutOthers
<1>6. ASSUME NEW g \in Group
      PROVE  Without(d.inner[g], {x}) = d.inner[g]
  BY <1>4, DocIs, WithoutOthers
<1>7. CASE p.parent = Root
  <2>1. /\ e.root = Splice(d.root, p.index, <<x>>)
        /\ \A g \in Group : e.inner[g] = IF g = x THEN p.tracks ELSE d.inner[g]
    BY <1>1, <1>7, InsertItemIs
  <2>2. Without(Splice(d.root, p.index, <<x>>), {x}) = d.root
    <3>1. d.root \in Seq(Item) /\ ToSet(d.root) \cap {x} = {}
      BY <1>4, DocIs
    <3> QED BY <1>1, <1>4, <3>1, SpliceItem
  <2>3. f.root = d.root
    BY <1>3, <2>1, <2>2
  <2>4. ASSUME NEW g \in Group
        PROVE  f.inner[g] = d.inner[g]
    <3>1. g = x => d.inner[g] = <<>>
      BY DEF Lands
    <3> QED BY <1>3, <1>6, <2>1, <3>1
  <2> HIDE DEF f
  <2>5. f = d
    BY <1>3, <2>3, <2>4, DocIs
  <2> QED BY <2>5 DEF f
<1>8. CASE p.parent # Root
  <2>1. p.parent \in ToSet(d.root) /\ p.parent \in Group /\ x \in Track
    BY <1>1, <1>8 DEF Lands
  <2>2. /\ e.root = d.root
        /\ \A g \in Group : e.inner[g] =
             IF g = p.parent THEN Splice(d.inner[g], p.index, <<x>>) ELSE d.inner[g]
    BY <1>1, <1>8, <2>1, InsertItemIs
  <2>3. f.root = d.root
    BY <1>3, <1>5, <2>2
  <2>4. ASSUME NEW g \in Group
        PROVE  f.inner[g] = d.inner[g]
    <3> DEFINE s == d.inner[g]
    <3>1. s \in Seq(Track) /\ ToSet(s) \cap {x} = {}
      BY <1>4, DocIs
    <3>3. Without(Splice(s, p.index, <<x>>), {x}) = s
      <4> HIDE DEF s, x
      <4> QED BY <1>1, <2>1, <3>1, SpliceTrack
    <3>4. g # x
      BY <2>1, ItemsDiffer
    <3> QED BY <1>3, <1>6, <2>2, <3>3, <3>4
  <2> HIDE DEF f
  <2>5. f = d
    BY <1>3, <2>3, <2>4, DocIs
  <2> QED BY <2>5 DEF f
<1> QED BY <1>7, <1>8

(* No item gets twice into the document.                                   *)
LEMMA LandedNeat ==
  ASSUME NEW d \in Doc, NEW p, Lands(d, p), Neat(d)
  PROVE  Neat(InsertItem(d, p))
<1> DEFINE x == p.item
           e == InsertItem(d, p)
<1>1. /\ x \in Item /\ p.tracks \in Seq(Track) /\ p.index \in Nat /\ Fits(p)
      /\ p.parent \in Group \cup {Root} /\ (p.parent # Root => x \in Track)
  BY PositionIs DEF Lands
<1>2. x \notin ToSet(d.root) /\ \A g \in Group : x \notin ToSet(d.inner[g])
  BY ItemsAre DEF Lands
<1>3. /\ IsInjective(d.root)
      /\ \A g \in Group :
           /\ IsInjective(d.inner[g])
           /\ ToSet(d.inner[g]) \cap ToSet(d.root) = {}
           /\ g \notin ToSet(d.root) => d.inner[g] = <<>>
           /\ \A h \in Group \ {g} : ToSet(d.inner[g]) \cap ToSet(d.inner[h]) = {}
  BY DEF Neat
<1>4. CASE p.parent = Root
  <2>1. /\ e.root = Splice(d.root, p.index, <<x>>)
        /\ \A g \in Group : e.inner[g] = IF g = x THEN p.tracks ELSE d.inner[g]
    BY <1>1, <1>4, InsertItemIs
  <2>2. ToSet(e.root) = ToSet(d.root) \cup {x} /\ IsInjective(e.root)
    <3> DEFINE s == d.root
    <3>1. s \in Seq(Item) /\ x \notin ToSet(s) /\ IsInjective(s)
      BY <1>2, <1>3, DocIs
    <3>2. /\ ToSet(Splice(s, p.index, <<x>>)) = ToSet(s) \cup {x}
          /\ IsInjective(Splice(s, p.index, <<x>>))
      <4> HIDE DEF s, x
      <4> QED BY <1>1, <3>1, SpliceItem
    <3> QED BY <2>1, <3>2
  <2>3. x \in Group => /\ IsInjective(p.tracks) /\ x \notin ToSet(p.tracks)
                       /\ ToSet(p.tracks) \cap ToSet(d.root) = {}
                       /\ \A g \in Group : ToSet(p.tracks) \cap ToSet(d.inner[g]) = {}
    <3>1. ToSet(p.tracks) \subseteq Track
      BY <1>1 DEF ToSet
    <3> QED BY <3>1, ItemsAre, ItemsDiffer DEF Lands
  <2> HIDE DEF e, x
  <2>4. ASSUME NEW g \in Group
        PROVE  /\ IsInjective(e.inner[g])
               /\ ToSet(e.inner[g]) \cap ToSet(e.root) = {}
               /\ g \notin ToSet(e.root) => e.inner[g] = <<>>
    BY <1>2, <1>3, <2>1, <2>2, <2>3
  <2>5. ASSUME NEW g \in Group, NEW h \in Group \ {g}
        PROVE  ToSet(e.inner[g]) \cap ToSet(e.inner[h]) = {}
    BY <1>3, <2>1, <2>3
  <2>6. Neat(e)
    BY <2>2, <2>4, <2>5 DEF Neat
  <2> QED BY <2>6 DEF e
<1>5. CASE p.parent # Root
  <2> DEFINE q == p.parent
  <2>1. q \in ToSet(d.root) /\ q \in Group /\ x \in Track /\ x \notin Group /\ x # q
    BY <1>1, <1>5, ItemsDiffer DEF Lands
  <2>2. /\ e.root = d.root
        /\ \A g \in Group : e.inner[g] =
             IF g = q THEN Splice(d.inner[g], p.index, <<x>>) ELSE d.inner[g]
    BY <1>1, <1>5, <2>1, InsertItemIs
  <2>3. ToSet(e.inner[q]) = ToSet(d.inner[q]) \cup {x} /\ IsInjective(e.inner[q])
    <3> DEFINE s == d.inner[q]
    <3>1. s \in Seq(Track) /\ x \notin ToSet(s) /\ IsInjective(s)
      BY <1>2, <1>3, <2>1, DocIs
    <3>2. /\ ToSet(Splice(s, p.index, <<x>>)) = ToSet(s) \cup {x}
          /\ IsInjective(Splice(s, p.index, <<x>>))
      <4> HIDE DEF s, x
      <4> QED BY <1>1, <2>1, <3>1, SpliceTrack
    <3> QED BY <2>1, <2>2, <3>2
  <2> HIDE DEF e, x, q
  <2>4. ASSUME NEW g \in Group
        PROVE  /\ IsInjective(e.inner[g])
               /\ ToSet(e.inner[g]) \cap ToSet(e.root) = {}
               /\ g \notin ToSet(e.root) => e.inner[g] = <<>>
    BY <1>2, <1>3, <2>1, <2>2, <2>3
  <2>5. ASSUME NEW g \in Group, NEW h \in Group \ {g}
        PROVE  ToSet(e.inner[g]) \cap ToSet(e.inner[h]) = {}
    BY <1>2, <1>3, <2>1, <2>2, <2>3
  <2>6. Neat(e)
    BY <1>3, <2>2, <2>4, <2>5 DEF Neat
  <2> QED BY <2>6 DEF e
<1> QED BY <1>4, <1>5

-----------------------------------------------------------------------------
(* Inserting items one after the other.                                    *)

(* f[k] is the document with the first k of them.                          *)
Inserting(d, sorted, f, n) ==
  f = [k \in 0 .. n |-> IF k = 0 THEN d ELSE InsertItem(f[k - 1], sorted[k])]

(* There is such a function.                                               *)
LEMMA InsertingExists ==
  ASSUME NEW d, NEW sorted, NEW n \in Nat
  PROVE  \E f : Inserting(d, sorted, f, n)
<1> DEFINE T == {m \in Nat : \E f : Inserting(d, sorted, f, m)}
<1>1. 0 \in T
  <2> DEFINE f == [k \in 0 .. 0 |-> d]
  <2>1. Inserting(d, sorted, f, 0)
    BY DEF Inserting
  <2> QED BY <2>1
<1>2. ASSUME NEW m \in Nat, m \in T
      PROVE  m + 1 \in T
  <2>1. PICK f : Inserting(d, sorted, f, m)
    BY <1>2
  <2> DEFINE last == InsertItem(f[m], sorted[m + 1])
             g == [k \in 0 .. (m + 1) |-> IF k <= m THEN f[k] ELSE last]
  <2>2. Inserting(d, sorted, g, m + 1)
    <3>1. ASSUME NEW k \in 0 .. (m + 1)
          PROVE  g[k] = IF k = 0 THEN d ELSE InsertItem(g[k - 1], sorted[k])
      <4>1. CASE k = m + 1
        BY <4>1
      <4>2. CASE k # m + 1
        <5>1. k \in 0 .. m /\ (k # 0 => k - 1 \in 0 .. m)
          BY <4>2
        <5>2. f[k] = IF k = 0 THEN d ELSE InsertItem(f[k - 1], sorted[k])
          BY <2>1, <5>1 DEF Inserting
        <5> QED BY <5>1, <5>2
      <4> QED BY <4>1, <4>2
    <3> QED BY <3>1 DEF Inserting
  <2>3. \E h : Inserting(d, sorted, h, m + 1)
    BY <2>2
  <2> QED BY <2>3
<1>3. \A k \in Nat : k < n /\ k \in T => k + 1 \in T
  BY <1>2
<1> HIDE DEF T
<1>4. n \in T
  BY <1>1, <1>3, Reaches
<1> QED BY <1>4 DEF T

(* What holds of the document at first, and with k items and one more, is  *)
(* so of the document with all of them.                                    *)
LEMMA InsertAllKeeps ==
  ASSUME NEW d, NEW positions, Len(positions) \in Nat, NEW Good,
         <<0, d>> \in Good,
         \A k \in Nat : \A e : k < Len(positions) /\ <<k, e>> \in Good =>
            <<k + 1, InsertItem(e, ByIndex(positions)[k + 1])>> \in Good
  PROVE  <<Len(positions), InsertAll(d, positions)>> \in Good
<1> DEFINE n == Len(positions)
           sorted == ByIndex(positions)
           f == CHOOSE f : Inserting(d, sorted, f, n)
           T == {k \in Nat : k <= n => <<k, f[k]>> \in Good}
<1>1. Inserting(d, sorted, f, n)
  BY InsertingExists
<1>2. InsertAll(d, positions) = f[n]
  BY DEF InsertAll, Inserting
<1>3. n \in Nat
  OBVIOUS
<1> HIDE DEF f
<1>4. \A k \in 0 .. n : f[k] = IF k = 0 THEN d ELSE InsertItem(f[k - 1], sorted[k])
  BY <1>1 DEF Inserting
<1>5. 0 \in T
  <2>1. f[0] = d
    BY <1>3, <1>4
  <2> QED BY <2>1
<1>6. ASSUME NEW k \in Nat, k < n, k \in T
      PROVE  k + 1 \in T
  <2>1. <<k, f[k]>> \in Good
    BY <1>3, <1>6
  <2>2. f[k + 1] = InsertItem(f[k], sorted[k + 1])
    <3>1. k + 1 \in 0 .. n /\ k + 1 # 0 /\ (k + 1) - 1 = k
      BY <1>3, <1>6
    <3> QED BY <1>4, <3>1
  <2>3. <<k + 1, InsertItem(f[k], sorted[k + 1])>> \in Good
    BY <1>6, <2>1
  <2> QED BY <2>2, <2>3
<1>7. n \in T
  <2> HIDE DEF T, n
  <2> QED BY <1>3, <1>5, <1>6, Reaches
<1> QED BY <1>2, <1>3, <1>7

-----------------------------------------------------------------------------
(* Positions in the order of their indices.                                *)

(* Before is a strict total order.                                         *)
LEMMA BeforeIs ==
  ASSUME NEW n \in Nat, NEW s, DOMAIN s = 1 .. n, \A k \in 1 .. n : s[k].index \in Nat
  PROVE  /\ \A k \in 1 .. n : Before(s, k) \subseteq (1 .. n) \ {k}
         /\ \A j, k \in 1 .. n : j # k => j \in Before(s, k) \/ k \in Before(s, j)
         /\ \A j, k \in 1 .. n : j \in Before(s, k) => Before(s, j) \subseteq Before(s, k) \ {j}
         /\ \A j, k \in 1 .. n : j \in Before(s, k) => s[j].index <= s[k].index
<1> DEFINE v == [k \in 1 .. n |-> s[k].index]
<1>1. /\ \A k \in 1 .. n : v[k] \in Nat
      /\ \A k \in 1 .. n : v[k] = s[k].index
  OBVIOUS
<1>2. \A j, k \in 1 .. n : j \in Before(s, k) <=> v[j] < v[k] \/ (v[j] = v[k] /\ j < k)
  BY <1>1 DEF Before
<1>3. \A k \in 1 .. n : Before(s, k) \subseteq 1 .. n
  BY DEF Before
<1> HIDE DEF v
<1>4. ASSUME NEW k \in 1 .. n
      PROVE  Before(s, k) \subseteq (1 .. n) \ {k}
  BY <1>1, <1>2, <1>3
<1>5. ASSUME NEW j \in 1 .. n, NEW k \in 1 .. n, j # k
      PROVE  j \in Before(s, k) \/ k \in Before(s, j)
  BY <1>1, <1>2, <1>5
<1>6. ASSUME NEW j \in 1 .. n, NEW k \in 1 .. n, j \in Before(s, k)
      PROVE  Before(s, j) \subseteq Before(s, k) \ {j}
  <2> SUFFICES ASSUME NEW i \in Before(s, j)
               PROVE  i \in Before(s, k) /\ i # j
    OBVIOUS
  <2>1. i \in 1 .. n /\ (v[i] < v[j] \/ (v[i] = v[j] /\ i < j))
    BY <1>2, <1>3
  <2>2. v[j] < v[k] \/ (v[j] = v[k] /\ j < k)
    BY <1>2, <1>6
  <2>3. v[i] \in Nat /\ v[j] \in Nat /\ v[k] \in Nat
    BY <1>1, <2>1
  <2>4. v[i] < v[k] \/ (v[i] = v[k] /\ i < k)
    BY <2>1, <2>2, <2>3
  <2> QED BY <1>2, <2>1, <2>3, <2>4
<1>7. ASSUME NEW j \in 1 .. n, NEW k \in 1 .. n, j \in Before(s, k)
      PROVE  s[j].index <= s[k].index
  BY <1>1, <1>2, <1>7
<1> QED BY <1>4, <1>5, <1>6, <1>7

(* How many are before a position: a bijection to 0 .. n - 1.              *)
LEMMA Ranks ==
  ASSUME NEW n \in Nat, NEW s, DOMAIN s = 1 .. n, \A k \in 1 .. n : s[k].index \in Nat
  PROVE  /\ \A k \in 1 .. n : Cardinality(Before(s, k)) \in 0 .. n - 1
         /\ \A j, k \in 1 .. n : j \in Before(s, k) =>
              Cardinality(Before(s, j)) < Cardinality(Before(s, k))
         /\ \A m \in 1 .. n : \E k \in 1 .. n : Cardinality(Before(s, k)) = m - 1
<1> DEFINE r == [k \in 1 .. n |-> Cardinality(Before(s, k))]
<1>1. IsFiniteSet(1 .. n) /\ Cardinality(1 .. n) = n
  BY FS_Interval
<1>2. ASSUME NEW k \in 1 .. n
      PROVE  IsFiniteSet(Before(s, k)) /\ Cardinality(Before(s, k)) \in 0 .. n - 1
  <2> DEFINE U == (1 .. n) \ {k}
  <2>1. Before(s, k) \in SUBSET U
    BY BeforeIs
  <2>2. IsFiniteSet(U) /\ Cardinality(U) = n - 1
    BY <1>1, FS_RemoveElement
  <2> HIDE DEF U
  <2>3. IsFiniteSet(Before(s, k)) /\ Cardinality(Before(s, k)) <= n - 1
    BY <2>1, <2>2, FS_Subset
  <2> QED BY <2>3, FS_CardinalityType
<1>3. ASSUME NEW j \in 1 .. n, NEW k \in 1 .. n, j \in Before(s, k)
      PROVE  Cardinality(Before(s, j)) < Cardinality(Before(s, k))
  <2> DEFINE U == Before(s, k) \ {j}
  <2>1. Before(s, j) \in SUBSET U
    BY <1>3, BeforeIs
  <2>2. IsFiniteSet(U) /\ Cardinality(U) = Cardinality(Before(s, k)) - 1
    BY <1>2, <1>3, FS_RemoveElement
  <2> HIDE DEF U
  <2>3. Cardinality(Before(s, j)) <= Cardinality(U)
    BY <2>1, <2>2, FS_Subset
  <2>4. Cardinality(Before(s, k)) \in Nat /\ Cardinality(Before(s, j)) \in Nat
    BY <1>2
  <2> QED BY <2>2, <2>3, <2>4
<1>4. r \in [1 .. n -> 0 .. n - 1]
  BY <1>2
<1>5. IsInjective(r)
  <2> SUFFICES ASSUME NEW j \in 1 .. n, NEW k \in 1 .. n, r[j] = r[k], j # k
               PROVE  FALSE
    BY <1>4 DEF IsInjective
  <2>1. Cardinality(Before(s, j)) = Cardinality(Before(s, k))
    OBVIOUS
  <2>2. Cardinality(Before(s, j)) \in Nat /\ Cardinality(Before(s, k)) \in Nat
    BY <1>2
  <2>3. j \in Before(s, k) \/ k \in Before(s, j)
    BY BeforeIs
  <2> QED BY <1>3, <2>1, <2>2, <2>3
<1>6. r \in Surjection(1 .. n, 0 .. n - 1)
  <2>1. r \in Injection(1 .. n, 0 .. n - 1)
    BY <1>4, <1>5 DEF Injection
  <2>2. IsFiniteSet(0 .. n - 1) /\ Cardinality(0 .. n - 1) = n
    BY FS_Interval
  <2> HIDE DEF r
  <2> QED BY <1>1, <2>1, <2>2, FS_Injection
<1>7. ASSUME NEW m \in 1 .. n
      PROVE  \E k \in 1 .. n : Cardinality(Before(s, k)) = m - 1
  <2>1. m - 1 \in 0 .. n - 1
    OBVIOUS
  <2>2. PICK k \in 1 .. n : r[k] = m - 1
    BY <1>6, <2>1 DEF Surjection
  <2> QED BY <2>2
<1> QED BY <1>2, <1>3, <1>7

(* Which position is the m-th.                                             *)
Nth(s, m) == CHOOSE j \in DOMAIN s : Cardinality(Before(s, j)) = m - 1

(* Each position is taken once, the lower index first.                     *)
LEMMA ByIndexIs ==
  ASSUME NEW n \in Nat, NEW s, DOMAIN s = 1 .. n, \A k \in 1 .. n : s[k].index \in Nat
  PROVE  /\ DOMAIN ByIndex(s) = 1 .. n
         /\ \A m \in 1 .. n : Nth(s, m) \in 1 .. n /\ ByIndex(s)[m] = s[Nth(s, m)]
         /\ \A m, k \in 1 .. n : m < k => /\ Nth(s, m) # Nth(s, k)
                                          /\ s[Nth(s, m)].index <= s[Nth(s, k)].index
         /\ \A j \in 1 .. n : \E m \in 1 .. n : Nth(s, m) = j
<1>1. ASSUME NEW m \in 1 .. n
      PROVE  Nth(s, m) \in 1 .. n /\ Cardinality(Before(s, Nth(s, m))) = m - 1
  <2>1. \A i \in 1 .. n : \E j \in 1 .. n : Cardinality(Before(s, j)) = i - 1
    BY Ranks
  <2>2. \E j \in DOMAIN s : Cardinality(Before(s, j)) = m - 1
    BY <2>1
  <2>3. Nth(s, m) \in DOMAIN s /\ Cardinality(Before(s, Nth(s, m))) = m - 1
    BY <2>2 DEF Nth
  <2> QED BY <2>3
<1>2. /\ DOMAIN ByIndex(s) = 1 .. n
      /\ \A m \in 1 .. n : ByIndex(s)[m] = s[Nth(s, m)]
  BY DEF ByIndex, Nth
<1>3. ASSUME NEW m \in 1 .. n, NEW k \in 1 .. n, m < k
      PROVE  /\ Nth(s, m) # Nth(s, k)
             /\ s[Nth(s, m)].index <= s[Nth(s, k)].index
  <2> DEFINE i == Nth(s, m)
             j == Nth(s, k)
  <2>1. /\ i \in 1 .. n /\ Cardinality(Before(s, i)) = m - 1
        /\ j \in 1 .. n /\ Cardinality(Before(s, j)) = k - 1
    BY <1>1
  <2> HIDE DEF i, j
  <2>2. i # j
    BY <1>3, <2>1
  <2>3. j \notin Before(s, i)
    <3>1. ASSUME j \in Before(s, i) PROVE FALSE
      <4>1. Cardinality(Before(s, j)) < Cardinality(Before(s, i))
        BY <2>1, <3>1, Ranks
      <4> QED BY <1>3, <2>1, <4>1
    <3> QED BY <3>1
  <2>4. i \in Before(s, j)
    BY <2>1, <2>2, <2>3, BeforeIs
  <2>5. s[i].index <= s[j].index
    BY <2>1, <2>4, BeforeIs
  <2> QED BY <2>2, <2>5 DEF i, j
<1>4. ASSUME NEW j \in 1 .. n
      PROVE  \E m \in 1 .. n : Nth(s, m) = j
  <2> DEFINE c == Cardinality(Before(s, j))
             m == c + 1
             i == Nth(s, m)
  <2>1. c \in 0 .. n - 1
    BY Ranks
  <2>2. m \in 1 .. n
    BY <2>1
  <2>3. i \in 1 .. n /\ Cardinality(Before(s, i)) = m - 1
    <3> HIDE DEF m
    <3> QED BY <1>1, <2>2
  <2>4. Cardinality(Before(s, i)) = Cardinality(Before(s, j)) /\ Cardinality(Before(s, j)) \in Nat
    BY <2>1, <2>3
  <2> HIDE DEF i
  <2>5. i = j
    <3>1. ASSUME i # j PROVE FALSE
      <4>1. i \in Before(s, j) \/ j \in Before(s, i)
        BY <2>3, <3>1, BeforeIs
      <4>2. \/ Cardinality(Before(s, i)) < Cardinality(Before(s, j))
            \/ Cardinality(Before(s, j)) < Cardinality(Before(s, i))
        BY <2>3, <4>1, Ranks
      <4> QED BY <2>4, <4>2
    <3> QED BY <3>1
  <2> QED BY <2>2, <2>5 DEF i
<1> QED BY <1>1, <1>2, <1>3, <1>4

(* A sequence of positions.                                                *)
LEMMA PositionsAre ==
  ASSUME NEW s \in Seq(Position)
  PROVE  /\ Len(s) \in Nat /\ DOMAIN s = 1 .. Len(s)
         /\ \A k \in 1 .. Len(s) : s[k] \in Position /\ s[k].index \in Nat
<1>1. Len(s) \in Nat /\ DOMAIN s = 1 .. Len(s) /\ \A k \in 1 .. Len(s) : s[k] \in Position
  OBVIOUS
<1> QED BY <1>1, PositionIs

(* In the order of their indices.                                          *)
LEMMA Sorted ==
  ASSUME NEW s \in Seq(Position)
  PROVE  /\ \A m \in 1 .. Len(s) : Nth(s, m) \in 1 .. Len(s) /\ ByIndex(s)[m] = s[Nth(s, m)]
         /\ \A m, k \in 1 .. Len(s) : m < k => /\ Nth(s, m) # Nth(s, k)
                                               /\ s[Nth(s, m)].index <= s[Nth(s, k)].index
         /\ \A j \in 1 .. Len(s) : \E m \in 1 .. Len(s) : Nth(s, m) = j
         /\ DOMAIN ByIndex(s) = 1 .. Len(s)
<1> DEFINE n == Len(s)
<1>1. n \in Nat /\ DOMAIN s = 1 .. n /\ \A k \in 1 .. n : s[k].index \in Nat
  BY PositionsAre
<1> HIDE DEF n
<1>2. /\ DOMAIN ByIndex(s) = 1 .. n
      /\ \A m \in 1 .. n : Nth(s, m) \in 1 .. n /\ ByIndex(s)[m] = s[Nth(s, m)]
      /\ \A m, k \in 1 .. n : m < k => /\ Nth(s, m) # Nth(s, k)
                                       /\ s[Nth(s, m)].index <= s[Nth(s, k)].index
      /\ \A j \in 1 .. n : \E m \in 1 .. n : Nth(s, m) = j
  BY <1>1, ByIndexIs
<1> QED BY <1>2 DEF n

(* A document stays one.                                                   *)
LEMMA InsertAllType ==
  ASSUME NEW d \in Doc, NEW s \in Seq(Position), \A k \in 1 .. Len(s) : Fits(s[k])
  PROVE  InsertAll(d, s) \in Doc
<1> DEFINE n == Len(s)
           Good == Nat \X Doc
<1>1. n \in Nat /\ DOMAIN s = 1 .. n /\ \A k \in 1 .. n : s[k].index \in Nat
  BY PositionsAre
<1>2. <<0, d>> \in Good
  OBVIOUS
<1>3. ASSUME NEW k \in Nat, NEW e, k < n, <<k, e>> \in Good
      PROVE  <<k + 1, InsertItem(e, ByIndex(s)[k + 1])>> \in Good
  <2>1. k + 1 \in 1 .. n /\ e \in Doc
    BY <1>1, <1>3
  <2>2. Nth(s, k + 1) \in 1 .. n /\ ByIndex(s)[k + 1] = s[Nth(s, k + 1)]
    <3>1. \A m \in 1 .. n : Nth(s, m) \in 1 .. n /\ ByIndex(s)[m] = s[Nth(s, m)]
      <4> HIDE DEF n
      <4> QED BY <1>1, ByIndexIs
    <3> QED BY <2>1, <3>1
  <2>3. Fits(ByIndex(s)[k + 1])
    BY <2>2
  <2>4. InsertItem(e, ByIndex(s)[k + 1]) \in Doc
    BY <2>1, <2>3, InsertItemIs
  <2> QED BY <2>4
<1> HIDE DEF Good
<1>4. <<n, InsertAll(d, s)>> \in Good
  BY <1>1, <1>2, <1>3, InsertAllKeeps
<1> QED BY <1>4 DEF Good

(* One position.                                                           *)
LEMMA InsertAllOne ==
  ASSUME NEW d, NEW p \in Position
  PROVE  InsertAll(d, <<p>>) = InsertItem(d, p)
<1> DEFINE s == <<p>>
           Good == {<<0, d>>, <<1, InsertItem(d, p)>>}
<1>0. s \in Seq(Position) /\ Len(s) = 1 /\ s[1] = p
  OBVIOUS
<1> HIDE DEF s
<1>1. DOMAIN s = 1 .. 1 /\ \A k \in 1 .. 1 : s[k].index \in Nat
  BY <1>0, PositionsAre
<1>2. ByIndex(s)[1] = p
  <2>1. 1 \in 1 .. 1 /\ 1 \in Nat
    OBVIOUS
  <2>2. \A m \in 1 .. 1 : Nth(s, m) \in 1 .. 1 /\ ByIndex(s)[m] = s[Nth(s, m)]
    BY <1>1, <2>1, ByIndexIs
  <2>3. Nth(s, 1) = 1
    BY <2>1, <2>2
  <2> QED BY <1>0, <2>1, <2>2, <2>3
<1>3. ASSUME NEW k \in Nat, NEW e, k < Len(s), <<k, e>> \in Good
      PROVE  <<k + 1, InsertItem(e, ByIndex(s)[k + 1])>> \in Good
  <2>1. k = 0
    BY <1>0, <1>3
  <2>2. e = d
    BY <1>3, <2>1
  <2> QED BY <1>2, <2>1, <2>2
<1>4. <<0, d>> \in Good
  OBVIOUS
<1> HIDE DEF Good
<1>5. Len(s) \in Nat
  BY <1>0
<1>6. <<Len(s), InsertAll(d, s)>> \in Good
  BY <1>3, <1>4, <1>5, InsertAllKeeps
<1>7. <<1, InsertAll(d, s)>> \in Good
  BY <1>0, <1>6
<1>8. InsertAll(d, s) = InsertItem(d, p)
  BY <1>7 DEF Good
<1> QED BY <1>8 DEF s

-----------------------------------------------------------------------------
(* Where an item is.                                                       *)

(* A position's parts, where an item would go.                             *)
LEMMA AtIs ==
  ASSUME NEW d \in Doc, NEW x \in Item, NEW q \in Group \cup {Root}, NEW i \in Nat
  PROVE  LET p == At(d, x, q, i) IN
         /\ p \in Position /\ p.item = x /\ p.parent = q /\ p.index = i
         /\ x \in Group => p.tracks = d.inner[x]
         /\ x \notin Group => p.tracks = <<>>
<1> DEFINE t == IF x \in Group THEN d.inner[x] ELSE <<>>
           p == At(d, x, q, i)
<1>1. t \in Seq(Track)
  <2>1. <<>> \in Seq(Track)
    OBVIOUS
  <2> QED BY <2>1, DocIs
<1>2. p = [item |-> x, parent |-> q, index |-> i, tracks |-> t]
  BY DEF At
<1>3. (x \in Group => t = d.inner[x]) /\ (x \notin Group => t = <<>>)
  OBVIOUS
<1> HIDE DEF t
<1>4. p \in Position
  BY <1>1, <1>2 DEF Position
<1> QED BY <1>2, <1>3, <1>4

(* Where the document has an item: at the root or in a group.              *)
LEMMA WhereIs ==
  ASSUME NEW d \in Doc, NEW x \in ItemsOf(d)
  PROVE  LET p == Where(d, x) IN
         /\ Fits(p) /\ p \in Position /\ p.item = x
         /\ x \in Group => p.tracks = d.inner[x]
         /\ x \notin Group => p.tracks = <<>>
         /\ x \in ToSet(d.root) => p.parent = Root /\ p.index = IndexIn(d.root, x)
         /\ x \notin ToSet(d.root) =>
              /\ p.parent \in Group /\ x \in ToSet(d.inner[p.parent])
              /\ p.index = IndexIn(d.inner[p.parent], x)
<1> DEFINE q == ParentOf(d, x)
           i == IndexIn(Kids(d, q), x)
           p == Where(d, x)
<1>1. x \in Item
  BY ItemsAre
<1>2. p = At(d, x, q, i)
  BY DEF Where
<1>3. CASE x \in ToSet(d.root)
  <2>1. q = Root /\ Kids(d, q) = d.root
    BY <1>3 DEF ParentOf, Kids
  <2>2. i = IndexIn(d.root, x) /\ i \in Nat
    BY <1>3, <2>1, DocIs, IndexInIs
  <2> HIDE DEF q, i
  <2>3. LET r == At(d, x, q, i) IN
         /\ r \in Position /\ r.item = x /\ r.parent = q /\ r.index = i
         /\ x \in Group => r.tracks = d.inner[x]
         /\ x \notin Group => r.tracks = <<>>
    BY <1>1, <2>1, <2>2, AtIs
  <2> HIDE DEF p
  <2>4. Fits(p)
    BY <1>2, <2>1, <2>3 DEF Fits
  <2> QED BY <1>2, <1>3, <2>1, <2>2, <2>3, <2>4 DEF p
<1>4. CASE x \notin ToSet(d.root)
  <2>1. q \in Group /\ x \in ToSet(d.inner[q])
    <3>1. \E g \in Group : x \in ToSet(d.inner[g])
      BY <1>4, ItemsAre
    <3> QED BY <1>4, <3>1 DEF ParentOf
  <2>2. q # Root /\ x \in Track
    BY <2>1, ItemsAre, ItemsDiffer
  <2>3. i = IndexIn(d.inner[q], x) /\ i \in Nat
    <3>1. Kids(d, q) = d.inner[q]
      BY <2>2 DEF Kids
    <3>2. d.inner[q] \in Seq(Track)
      BY <2>1, DocIs
    <3> HIDE DEF q
    <3> QED BY <2>1, <3>1, <3>2, IndexInIs
  <2> HIDE DEF q, i
  <2>4. LET r == At(d, x, q, i) IN
         /\ r \in Position /\ r.item = x /\ r.parent = q /\ r.index = i
         /\ x \in Group => r.tracks = d.inner[x]
         /\ x \notin Group => r.tracks = <<>>
    BY <1>1, <2>1, <2>3, AtIs
  <2> HIDE DEF p
  <2>5. Fits(p)
    BY <1>2, <2>2, <2>4 DEF Fits
  <2> QED BY <1>2, <1>4, <2>1, <2>3, <2>4, <2>5 DEF p
<1> QED BY <1>3, <1>4

(* In a neat document there is only one place.                             *)
LEMMA WhereNeat ==
  ASSUME NEW d \in Doc, Neat(d), NEW g \in Group, NEW x \in ToSet(d.inner[g])
  PROVE  /\ Where(d, x).parent = g /\ Where(d, x).index = IndexIn(d.inner[g], x)
         /\ x \notin ToSet(d.root) /\ g \in ToSet(d.root) /\ x \in ItemsOf(d)
         /\ \A h \in Group \ {g} : x \notin ToSet(d.inner[h])
<1>1. x \in ItemsOf(d)
  BY ItemsAre
<1>2. /\ ToSet(d.inner[g]) \cap ToSet(d.root) = {}
      /\ g \notin ToSet(d.root) => d.inner[g] = <<>>
      /\ \A h \in Group \ {g} : ToSet(d.inner[g]) \cap ToSet(d.inner[h]) = {}
  BY DEF Neat
<1>3. x \notin ToSet(d.root) /\ \A h \in Group \ {g} : x \notin ToSet(d.inner[h])
  BY <1>2
<1>4. g \in ToSet(d.root)
  <2>1. d.inner[g] # <<>>
    BY DEF ToSet
  <2> QED BY <1>2, <2>1
<1>5. LET p == Where(d, x) IN
      /\ p.parent \in Group /\ x \in ToSet(d.inner[p.parent])
      /\ p.index = IndexIn(d.inner[p.parent], x)
  BY <1>1, <1>3, WhereIs
<1> QED BY <1>1, <1>3, <1>4, <1>5

-----------------------------------------------------------------------------
(* Removed items are put back where they were.                             *)

(* One of the items that are left out, A, if none before it in its list is *)
(* left out, nor its group, nor one of its own tracks.                     *)
LEMMA RestoreStep ==
  ASSUME NEW d \in Doc, Neat(d), NEW x \in ItemsOf(d), NEW A, x \in A,
         Where(d, x).parent \notin A,
         x \in Group => ToSet(d.inner[x]) \cap A = {},
         \A y \in ItemsOf(d) \cap A : Where(d, y).parent = Where(d, x).parent =>
             Where(d, y).index >= Where(d, x).index
  PROVE  InsertItem(RemoveIds(d, A), Where(d, x)) = RemoveIds(d, A \ {x})
<1> DEFINE p == Where(d, x)
           B == A \ {x}
           e == RemoveIds(d, A)
           f == RemoveIds(d, B)
           h == InsertItem(e, p)
<1>1. /\ Fits(p) /\ p \in Position /\ p.item = x
      /\ x \in Group => p.tracks = d.inner[x]
      /\ x \in ToSet(d.root) => p.parent = Root /\ p.index = IndexIn(d.root, x)
  BY WhereIs
<1>2. /\ e \in Doc /\ e.root = Without(d.root, A)
      /\ \A g \in Group : e.inner[g] = IF g \in A THEN <<>> ELSE Without(d.inner[g], A)
  BY RemoveIdsIs
<1>3. /\ f \in Doc /\ f.root = Without(d.root, B)
      /\ \A g \in Group : f.inner[g] = IF g \in B THEN <<>> ELSE Without(d.inner[g], B)
  BY RemoveIdsIs
<1>4. h \in Doc
  BY <1>1, <1>2, InsertItemIs
<1>5. x \in Item
  BY ItemsAre
<1>6. \A y \in ItemsOf(d) \cap A : Where(d, y).parent = p.parent => Where(d, y).index >= p.index
  OBVIOUS
<1>7. p.parent \notin A
  OBVIOUS
<1>8. CASE x \in ToSet(d.root)
  <2>0. p.parent = Root /\ p.index = IndexIn(d.root, x)
    BY <1>1, <1>8
  <2>1. /\ h.root = Splice(e.root, p.index, <<x>>)
        /\ \A g \in Group : h.inner[g] = IF g = x THEN p.tracks ELSE e.inner[g]
    BY <1>1, <1>2, <2>0, InsertItemIs
  <2>2. ASSUME NEW y \in ToSet(d.root) \cap A
        PROVE  IndexIn(d.root, y) >= IndexIn(d.root, x)
    <3>1. y \in ItemsOf(d)
      BY ItemsAre
    <3>2. Where(d, y).parent = Root /\ Where(d, y).index = IndexIn(d.root, y)
      BY <3>1, WhereIs
    <3> QED BY <1>6, <2>0, <3>1, <3>2
  <2>3. Splice(Without(d.root, A), IndexIn(d.root, x), <<x>>) = Without(d.root, B)
    <3>1. d.root \in Seq(Item) /\ IsInjective(d.root)
      BY DocIs DEF Neat
    <3> QED BY <1>5, <1>8, <2>2, <3>1, PutBack
  <2>4. h.root = f.root
    BY <1>2, <1>3, <2>0, <2>1, <2>3
  <2>5. ASSUME NEW g \in Group
        PROVE  h.inner[g] = f.inner[g]
    <3>1. d.inner[g] \in Seq(Track)
      BY DocIs
    <3>2. CASE g = x
      <4>1. h.inner[g] = d.inner[g]
        BY <1>1, <2>1, <3>2
      <4>2. ToSet(d.inner[g]) \cap B = {}
        BY <3>2
      <4>3. Without(d.inner[g], B) = d.inner[g]
        <5> HIDE DEF B
        <5> QED BY <3>1, <4>2, WithoutOthers
      <4> QED BY <1>3, <3>2, <4>1, <4>3
    <3>3. CASE g # x
      <4>1. h.inner[g] = e.inner[g]
        BY <2>1, <3>3
      <4>2. x \notin ToSet(d.inner[g])
        BY <1>8 DEF Neat
      <4>3. ToSet(d.inner[g]) \cap A = ToSet(d.inner[g]) \cap B
        BY <4>2
      <4>4. Without(d.inner[g], A) = Without(d.inner[g], B)
        <5> HIDE DEF B
        <5> QED BY <3>1, <4>3, WithoutAlike
      <4> QED BY <1>2, <1>3, <3>3, <4>1, <4>4
    <3> QED BY <3>2, <3>3
  <2> HIDE DEF h, f
  <2>6. h = f
    BY <1>3, <1>4, <2>4, <2>5, DocIs
  <2> QED BY <2>6 DEF h, f
<1>9. CASE x \notin ToSet(d.root)
  <2> DEFINE q == p.parent
  <2>0. /\ q \in Group /\ x \in ToSet(d.inner[q]) /\ q # Root
        /\ p.index = IndexIn(d.inner[q], x) /\ q \in ToSet(d.root)
        /\ x \in Track /\ x \notin Group
    <3>1. q \in Group /\ x \in ToSet(d.inner[q]) /\ p.index = IndexIn(d.inner[q], x)
      BY <1>9, WhereIs
    <3>2. q \in ToSet(d.root)
      <4> HIDE DEF q
      <4> QED BY <3>1, WhereNeat
    <3>3. x \in Track
      BY <3>1, ItemsAre
    <3> QED BY <3>1, <3>2, <3>3, ItemsDiffer
  <2>1. q \in ToSet(e.root)
    <3>1. ToSet(e.root) = ToSet(d.root) \ A
      BY <1>2, DocIs, WithoutElements
    <3> QED BY <1>7, <2>0, <3>1
  <2>2. /\ h.root = e.root
        /\ \A g \in Group : h.inner[g] =
             IF g = q THEN Splice(e.inner[g], p.index, <<x>>) ELSE e.inner[g]
    BY <1>1, <1>2, <2>0, <2>1, InsertItemIs
  <2>3. h.root = f.root
    <3>1. ToSet(d.root) \cap A = ToSet(d.root) \cap B
      BY <1>9
    <3>2. Without(d.root, A) = Without(d.root, B)
      <4> HIDE DEF B
      <4> QED BY <3>1, DocIs, WithoutAlike
    <3> QED BY <1>2, <1>3, <2>2, <3>2
  <2>4. ASSUME NEW g \in Group
        PROVE  h.inner[g] = f.inner[g]
    <3>1. d.inner[g] \in Seq(Track)
      BY DocIs
    <3>2. CASE g = q
      <4>1. ASSUME NEW y \in ToSet(d.inner[g]) \cap A
            PROVE  IndexIn(d.inner[g], y) >= IndexIn(d.inner[g], x)
        <5>1. Where(d, y).parent = g /\ Where(d, y).index = IndexIn(d.inner[g], y) /\ y \in ItemsOf(d)
          BY WhereNeat
        <5> QED BY <1>6, <2>0, <3>2, <5>1
      <4>2. Splice(Without(d.inner[g], A), IndexIn(d.inner[g], x), <<x>>) = Without(d.inner[g], B)
        <5>1. IsInjective(d.inner[g]) /\ x \in ToSet(d.inner[g])
          BY <2>0, <3>2 DEF Neat
        <5> QED BY <2>0, <3>1, <4>1, <5>1, PutBack
      <4>3. g \notin A /\ g \notin B
        BY <1>7, <3>2
      <4> QED BY <1>2, <1>3, <2>0, <2>2, <3>2, <4>2, <4>3
    <3>3. CASE g # q
      <4>1. h.inner[g] = e.inner[g]
        BY <2>2, <3>3
      <4>2. x \notin ToSet(d.inner[g])
        <5> HIDE DEF q
        <5> QED BY <2>0, <3>3, WhereNeat
      <4>3. ToSet(d.inner[g]) \cap A = ToSet(d.inner[g]) \cap B
        BY <4>2
      <4>4. Without(d.inner[g], A) = Without(d.inner[g], B)
        <5> HIDE DEF B
        <5> QED BY <3>1, <4>3, WithoutAlike
      <4>5. g # x
        BY <2>0
      <4> QED BY <1>2, <1>3, <4>1, <4>4, <4>5
    <3> QED BY <3>2, <3>3
  <2> HIDE DEF h, f
  <2>5. h = f
    BY <1>3, <1>4, <2>3, <2>4, DocIs
  <2> QED BY <2>5 DEF h, f
<1> QED BY <1>8, <1>9

(* All of them, from where they were.                                      *)
LEMMA Restore ==
  ASSUME NEW d \in Doc, Neat(d), NEW n \in Nat, NEW sel \in [1 .. n -> ItemsOf(d)],
         IsInjective(sel), NEW s, s = [k \in 1 .. n |-> Where(d, sel[k])],
         \A k \in 1 .. n : s[k].parent \notin ToSet(sel)
  PROVE  /\ s \in Seq(Position) /\ Len(s) = n /\ \A k \in 1 .. n : Fits(s[k])
         /\ Ids(s) = ToSet(sel)
         /\ InsertAll(RemoveIds(d, ToSet(sel)), s) = d
<1> DEFINE Left == [k \in 0 .. n |-> {sel[Nth(s, j)] : j \in (k + 1) .. n}]
           Good == {<<k, RemoveIds(d, Left[k])>> : k \in 0 .. n}
           e == RemoveIds(d, ToSet(sel))
<1>1. ASSUME NEW k \in 1 .. n
      PROVE  /\ s[k] = Where(d, sel[k]) /\ s[k] \in Position /\ Fits(s[k]) /\ s[k].item = sel[k]
             /\ s[k].index \in Nat /\ sel[k] \in ItemsOf(d)
  <2>1. s[k] = Where(d, sel[k]) /\ sel[k] \in ItemsOf(d)
    OBVIOUS
  <2>2. LET p == Where(d, sel[k]) IN Fits(p) /\ p \in Position /\ p.item = sel[k]
    BY <2>1, WhereIs
  <2> QED BY <2>1, <2>2, PositionIs
<1>2. s \in Seq(Position) /\ Len(s) = n /\ DOMAIN s = 1 .. n
  BY <1>1
<1>3. Ids(s) = ToSet(sel)
  <2>1. DOMAIN sel = 1 .. n
    OBVIOUS
  <2> QED BY <1>1, <1>2, <2>1 DEF Ids, ToSet
<1>40. /\ \A m \in 1 .. Len(s) : Nth(s, m) \in 1 .. Len(s) /\ ByIndex(s)[m] = s[Nth(s, m)]
       /\ \A m, k \in 1 .. Len(s) : m < k => /\ Nth(s, m) # Nth(s, k)
                                             /\ s[Nth(s, m)].index <= s[Nth(s, k)].index
       /\ \A j \in 1 .. Len(s) : \E m \in 1 .. Len(s) : Nth(s, m) = j
  BY <1>2, Sorted
<1>41. \A m \in 1 .. n : Nth(s, m) \in 1 .. n /\ ByIndex(s)[m] = s[Nth(s, m)]
  BY <1>2, <1>40
<1>42. \A m, k \in 1 .. n : m < k => /\ Nth(s, m) # Nth(s, k)
                                     /\ s[Nth(s, m)].index <= s[Nth(s, k)].index
  BY <1>2, <1>40
<1>43. \A j \in 1 .. n : \E m \in 1 .. n : Nth(s, m) = j
  BY <1>2, <1>40
<1>4. /\ \A m \in 1 .. n : Nth(s, m) \in 1 .. n /\ ByIndex(s)[m] = s[Nth(s, m)]
      /\ \A m, k \in 1 .. n : m < k => /\ Nth(s, m) # Nth(s, k)
                                       /\ s[Nth(s, m)].index <= s[Nth(s, k)].index
      /\ \A j \in 1 .. n : \E m \in 1 .. n : Nth(s, m) = j
  BY <1>41, <1>42, <1>43
<1>44. /\ Left[0] = {sel[Nth(s, j)] : j \in 1 .. n}
       /\ Left[n] = {}
       /\ \A k \in Nat : k < n => /\ Left[k] = {sel[Nth(s, j)] : j \in (k + 1) .. n}
                                  /\ Left[k + 1] = {sel[Nth(s, j)] : j \in (k + 2) .. n}
  <2>1. ASSUME NEW k \in Nat, k < n
        PROVE  /\ Left[k] = {sel[Nth(s, j)] : j \in (k + 1) .. n}
               /\ Left[k + 1] = {sel[Nth(s, j)] : j \in (k + 2) .. n}
    <3>1. k \in 0 .. n /\ k + 1 \in 0 .. n /\ (k + 1) + 1 = k + 2
      BY <2>1
    <3> QED BY <3>1
  <2>2. Left[0] = {sel[Nth(s, j)] : j \in 1 .. n} /\ Left[n] = {}
    OBVIOUS
  <2> QED BY <2>1, <2>2
<1> HIDE DEF Left
<1>5. Left[0] = ToSet(sel)
  <2>1. ToSet(sel) = {sel[i] : i \in 1 .. n}
    BY DEF ToSet
  <2>2. ASSUME NEW x \in ToSet(sel) PROVE x \in Left[0]
    <3>1. PICK i \in 1 .. n : x = sel[i]
      BY <2>1
    <3>2. PICK m \in 1 .. n : Nth(s, m) = i
      BY <1>43
    <3> QED BY <1>44, <3>1, <3>2
  <2>3. ASSUME NEW x \in Left[0] PROVE x \in ToSet(sel)
    <3>1. PICK m \in 1 .. n : x = sel[Nth(s, m)]
      BY <1>44
    <3>2. Nth(s, m) \in 1 .. n
      BY <1>41
    <3> QED BY <2>1, <3>1, <3>2
  <2> QED BY <2>2, <2>3
<1>6. <<0, e>> \in Good
  <2>1. e = RemoveIds(d, Left[0])
    BY <1>5
  <2> HIDE DEF e
  <2>2. 0 \in 0 .. n
    OBVIOUS
  <2> QED BY <2>1, <2>2
<1>7. ASSUME NEW k \in Nat, NEW c, k < n, <<k, c>> \in Good
      PROVE  <<k + 1, InsertItem(c, ByIndex(s)[k + 1])>> \in Good
  <2> DEFINE A == Left[k]
             i == Nth(s, k + 1)
             x == sel[i]
  <2>1. c = RemoveIds(d, A) /\ k + 1 \in 1 .. n
    BY <1>7
  <2>0. A = {sel[Nth(s, j)] : j \in (k + 1) .. n}
    BY <1>44, <1>7
  <2>2. i \in 1 .. n /\ ByIndex(s)[k + 1] = s[i]
    BY <1>4, <2>1
  <2>3. x \in ItemsOf(d) /\ s[i] = Where(d, x)
    BY <1>1, <2>2
  <2>4. x \in A
    <3>1. k + 1 \in (k + 1) .. n
      BY <2>1
    <3> QED BY <2>0, <3>1
  <2>5. A \subseteq ToSet(sel)
    <3>1. \A j \in (k + 1) .. n : Nth(s, j) \in 1 .. n
      BY <1>4
    <3> QED BY <2>0, <3>1 DEF ToSet
  <2>6. Where(d, x).parent \notin A
    BY <2>2, <2>3, <2>5
  <2>7. x \in Group => ToSet(d.inner[x]) \cap A = {}
    <3> SUFFICES ASSUME x \in Group, NEW y \in ToSet(d.inner[x]), y \in A
                 PROVE  FALSE
      OBVIOUS
    <3>1. PICK j \in 1 .. n : y = sel[j]
      BY <2>5 DEF ToSet
    <3>2. Where(d, y).parent = x
      <4> HIDE DEF x
      <4> QED BY WhereNeat
    <3>3. s[j].parent = x
      BY <1>1, <3>1, <3>2
    <3>4. x \in ToSet(sel)
      BY <2>4, <2>5
    <3> QED BY <3>3, <3>4
  <2>8. ASSUME NEW y \in ItemsOf(d) \cap A
        PROVE  Where(d, y).index >= Where(d, x).index
    <3>1. PICK j \in (k + 1) .. n : y = sel[Nth(s, j)]
      BY <2>0
    <3>2. j \in 1 .. n /\ k + 1 <= j
      BY <2>1, <3>1
    <3>3. Nth(s, j) \in 1 .. n /\ s[Nth(s, j)] = Where(d, y)
      BY <1>1, <1>4, <3>1, <3>2
    <3>4. s[i].index \in Nat /\ s[Nth(s, j)].index \in Nat
      BY <1>1, <2>2, <3>3
    <3>5. s[i].index <= s[Nth(s, j)].index
      <4>1. CASE k + 1 = j
        BY <3>4, <4>1
      <4>2. CASE k + 1 < j
        BY <1>4, <2>1, <3>2, <4>2
      <4> QED BY <3>2, <4>1, <4>2
    <3> QED BY <2>3, <3>3, <3>4, <3>5
  <2>9. InsertItem(RemoveIds(d, A), Where(d, x)) = RemoveIds(d, A \ {x})
    <3> HIDE DEF A, x
    <3> QED BY <2>3, <2>4, <2>6, <2>7, <2>8, RestoreStep
  <2>10. A \ {x} = Left[k + 1]
    <3>1. ASSUME NEW j \in (k + 2) .. n
          PROVE  sel[Nth(s, j)] # x /\ sel[Nth(s, j)] \in A
      <4>1. j \in 1 .. n /\ k + 1 < j /\ j \in (k + 1) .. n
        BY <2>1, <3>1
      <4>2. Nth(s, j) \in 1 .. n /\ Nth(s, j) # i
        BY <1>4, <2>1, <4>1
      <4>3. DOMAIN sel = 1 .. n
        OBVIOUS
      <4>4. sel[Nth(s, j)] # sel[i]
        BY <2>2, <4>2, <4>3 DEF IsInjective
      <4> QED BY <2>0, <4>1, <4>4
    <3>0. Left[k + 1] = {sel[Nth(s, j)] : j \in (k + 2) .. n}
      <4>1. k + 1 \in 0 .. n /\ (k + 1) + 1 = k + 2
        BY <2>1
      <4> QED BY <1>44, <4>1
    <3>2. ASSUME NEW y \in A \ {x}
          PROVE  y \in Left[k + 1]
      <4>1. PICK j \in (k + 1) .. n : y = sel[Nth(s, j)]
        BY <2>0
      <4>2. j # k + 1
        BY <3>2, <4>1
      <4>3. j \in (k + 2) .. n
        BY <4>1, <4>2
      <4> QED BY <3>0, <4>1, <4>3
    <3>3. ASSUME NEW y \in Left[k + 1]
          PROVE  y \in A \ {x}
      <4>1. PICK j \in (k + 2) .. n : y = sel[Nth(s, j)]
        BY <3>0
      <4> HIDE DEF A, x
      <4> QED BY <3>1, <4>1
    <3> QED BY <3>2, <3>3
  <2>11. k + 1 \in 0 .. n
    BY <2>1
  <2> HIDE DEF A, x, i
  <2> QED BY <2>1, <2>2, <2>3, <2>9, <2>10, <2>11
<1>8. Left[n] = {}
  BY <1>44
<1>9. RemoveIds(d, Left[n]) = d
  <2>1. RemoveIds(d, {}) = d
    BY RemoveIdsOthers
  <2> QED BY <1>8, <2>1
<1>10. <<n, InsertAll(e, s)>> \in Good
  <2> HIDE DEF Good, e
  <2>1. Len(s) \in Nat
    BY <1>2
  <2>2. <<Len(s), InsertAll(e, s)>> \in Good
    BY <1>2, <1>6, <1>7, <2>1, InsertAllKeeps
  <2> QED BY <1>2, <2>2
<1>11. InsertAll(e, s) = RemoveIds(d, Left[n])
  <2> HIDE DEF e
  <2> QED BY <1>10
<1> QED BY <1>1, <1>2, <1>3, <1>9, <1>11

-----------------------------------------------------------------------------
(* Moved items are taken out of the place they were moved to.              *)

(* An item still lands after another one landed.                           *)
LEMMA LandsAfter ==
  ASSUME NEW d \in Doc, NEW p, Lands(d, p), NEW r, Lands(d, r),
         p.item # r.item, r.item # p.parent, r.item \notin ToSet(p.tracks),
         r.item \in Group => /\ p.item \notin ToSet(r.tracks)
                             /\ ToSet(p.tracks) \cap ToSet(r.tracks) = {}
  PROVE  Lands(InsertItem(d, p), r)
<1> DEFINE e == InsertItem(d, p)
<1>1. /\ e \in Doc
      /\ ItemsOf(e) \subseteq ItemsOf(d) \cup {p.item} \cup ToSet(p.tracks)
      /\ ToSet(d.root) \subseteq ToSet(e.root)
      /\ \A g \in Group : g # p.item /\ g # p.parent => e.inner[g] = d.inner[g]
  BY LandedItems
<1>2. /\ Fits(r) /\ r.item \notin ItemsOf(d)
      /\ r.parent # Root => r.parent \in ToSet(d.root)
      /\ r.item \in Group =>
           /\ IsInjective(r.tracks) /\ ToSet(r.tracks) \cap ItemsOf(d) = {}
           /\ d.inner[r.item] = <<>>
  BY DEF Lands
<1> HIDE DEF e
<1>3. r.item \notin ItemsOf(e)
  BY <1>1, <1>2
<1>4. r.parent # Root => r.parent \in ToSet(e.root)
  BY <1>1, <1>2
<1>5. ASSUME r.item \in Group
      PROVE  /\ IsInjective(r.tracks) /\ ToSet(r.tracks) \cap ItemsOf(e) = {}
             /\ e.inner[r.item] = <<>>
  BY <1>1, <1>2, <1>5
<1>6. Lands(e, r)
  BY <1>2, <1>3, <1>4, <1>5 DEF Lands
<1> QED BY <1>6 DEF e

(* A removed item lands.                                                   *)
LEMMA RemovedLands ==
  ASSUME NEW d \in Doc, Neat(d), NEW S, NEW x \in ItemsOf(d) \cap S,
         NEW q \in Parents(d) \ S, q # Root => x \in Track, NEW i \in Nat
  PROVE  Lands(RemoveIds(d, S), At(d, x, q, i))
<1> DEFINE e == RemoveIds(d, S)
           p == At(d, x, q, i)
<1>1. x \in Item /\ q \in Group \cup {Root} /\ (q # Root => q \in ToSet(d.root))
  BY ItemsAre DEF Parents
<1>2. /\ p \in Position /\ p.item = x /\ p.parent = q
      /\ x \in Group => p.tracks = d.inner[x]
  BY <1>1, AtIs
<1>3. Fits(p)
  BY <1>2 DEF Fits
<1>4. /\ e \in Doc /\ e.root = Without(d.root, S)
      /\ \A g \in Group : e.inner[g] = IF g \in S THEN <<>> ELSE Without(d.inner[g], S)
  BY RemoveIdsIs
<1>5. x \notin ItemsOf(e)
  BY RemoveIdsItems
<1>6. ToSet(e.root) = ToSet(d.root) \ S
  BY <1>4, DocIs, WithoutElements
<1>7. q # Root => q \in ToSet(e.root)
  BY <1>1, <1>6
<1>8. ASSUME x \in Group
      PROVE  /\ IsInjective(p.tracks) /\ ToSet(p.tracks) \cap ItemsOf(e) = {}
             /\ e.inner[x] = <<>>
  <2>1. p.tracks = d.inner[x] /\ IsInjective(d.inner[x])
    BY <1>2, <1>8 DEF Neat
  <2>2. e.inner[x] = <<>>
    BY <1>4, <1>8
  <2>3. ASSUME NEW t \in ToSet(d.inner[x]), t \in ItemsOf(e)
        PROVE  FALSE
    <3>1. t \notin ToSet(d.root) /\ \A h \in Group \ {x} : t \notin ToSet(d.inner[h])
      BY <1>8, WhereNeat
    <3>2. t \notin ToSet(e.root)
      BY <1>6, <3>1
    <3>3. PICK g \in Group : t \in ToSet(e.inner[g])
      BY <1>4, <2>3, <3>2, ItemsAre
    <3>4. g = x
      <4>1. g \notin S => ToSet(e.inner[g]) = ToSet(d.inner[g]) \ S
        BY <1>4, DocIs, WithoutElements
      <4>2. ToSet(<<>>) = {}
        BY DEF ToSet
      <4> QED BY <1>4, <3>1, <3>3, <4>1, <4>2
    <3> QED BY <2>2, <3>3, <3>4 DEF ToSet
  <2> QED BY <2>1, <2>2, <2>3
<1> HIDE DEF e, p
<1>9. Lands(e, p)
  BY <1>2, <1>3, <1>5, <1>7, <1>8 DEF Lands
<1> QED BY <1>9 DEF e, p

(* The positions of items that go behind one another into a list.          *)
Going(d, n, sel, q, i, s) == s = [k \in 1 .. n |-> At(d, sel[k], q, i + k - 1)]

(* All of them land, and removing them again leaves the rest.              *)
LEMMA MoveThere ==
  ASSUME NEW d \in Doc, Neat(d), NEW n \in Nat, NEW sel \in [1 .. n -> ItemsOf(d)],
         IsInjective(sel), \A k \in 1 .. n : Where(d, sel[k]).parent \notin ToSet(sel),
         NEW q \in Parents(d) \ ToSet(sel), q # Root => ToSet(sel) \subseteq Track,
         NEW i \in Nat, NEW s, Going(d, n, sel, q, i, s)
  PROVE  LET e == RemoveIds(d, ToSet(sel)) IN
         /\ s \in Seq(Position) /\ \A k \in 1 .. Len(s) : Fits(s[k])
         /\ Ids(s) = ToSet(sel)
         /\ InsertAll(e, s) \in Doc /\ Neat(InsertAll(e, s))
         /\ RemoveIds(InsertAll(e, s), ToSet(sel)) = e
<1> DEFINE S == ToSet(sel)
           e == RemoveIds(d, S)
           Lasts == {c \in Doc : Neat(c) /\ RemoveIds(c, S) = e}
           Land(k) == {c \in Lasts : \A j \in (k + 1) .. n : Lands(c, s[Nth(s, j)])}
           Good == {z \in Nat \X Doc : z[2] \in Land(z[1])}
<1>0. s = [k \in 1 .. n |-> At(d, sel[k], q, i + k - 1)]
  BY DEF Going
<1>1. ASSUME NEW k \in 1 .. n
      PROVE  /\ s[k] \in Position /\ Fits(s[k]) /\ s[k].item = sel[k] /\ s[k].parent = q
             /\ sel[k] \in Group => s[k].tracks = d.inner[sel[k]]
             /\ sel[k] \notin Group => s[k].tracks = <<>>
             /\ Lands(e, s[k]) /\ sel[k] \in S /\ sel[k] \in ItemsOf(d)
  <2>1. s[k] = At(d, sel[k], q, i + k - 1) /\ sel[k] \in ItemsOf(d) /\ i + k - 1 \in Nat
    BY <1>0
  <2>2. sel[k] \in S /\ sel[k] \in Item
    BY ItemsAre DEF ToSet
  <2>3. q \in Group \cup {Root} /\ q \notin S
    BY DEF Parents
  <2>4. q # Root => sel[k] \in Track
    BY <2>2
  <2> DEFINE x == sel[k]
             m == i + k - 1
  <2>25. x \in Item /\ m \in Nat
    BY <2>1, <2>2
  <2> HIDE DEF x, m, S
  <2>5. LET p == At(d, x, q, m) IN
         /\ p \in Position /\ p.item = x /\ p.parent = q /\ p.index = m
         /\ x \in Group => p.tracks = d.inner[x]
         /\ x \notin Group => p.tracks = <<>>
    BY <2>25, <2>3, AtIs
  <2>6. Lands(RemoveIds(d, S), At(d, x, q, m))
    <3>1. x \in ItemsOf(d) \cap S /\ q \in Parents(d) \ S /\ (q # Root => x \in Track) /\ m \in Nat
      BY <2>1, <2>2, <2>3, <2>4 DEF x, m
    <3> QED BY <3>1, RemovedLands
  <2>7. s[k] = At(d, x, q, m)
    BY <2>1 DEF x, m
  <2>8. Fits(s[k])
    BY <2>6, <2>7 DEF Lands
  <2> QED BY <2>1, <2>2, <2>5, <2>6, <2>7, <2>8 DEF x
<1>2. s \in Seq(Position) /\ Len(s) = n /\ DOMAIN s = 1 .. n
  BY <1>0, <1>1
<1>3. Ids(s) = S
  <2>1. DOMAIN sel = 1 .. n
    OBVIOUS
  <2>2. S = {sel[k] : k \in 1 .. n}
    BY <2>1 DEF ToSet
  <2>3. Ids(s) = {s[k].item : k \in 1 .. n}
    BY <1>2 DEF Ids
  <2>4. \A k \in 1 .. n : s[k].item = sel[k]
    BY <1>1
  <2> HIDE DEF S
  <2>5. ASSUME NEW y \in Ids(s) PROVE y \in S
    <3>1. PICK k \in 1 .. n : y = s[k].item
      BY <2>3
    <3> QED BY <2>2, <2>4, <3>1
  <2>6. ASSUME NEW y \in S PROVE y \in Ids(s)
    <3>1. PICK k \in 1 .. n : y = sel[k]
      BY <2>2
    <3>2. y = s[k].item
      BY <2>4, <3>1
    <3> QED BY <2>3, <3>2
  <2> QED BY <2>5, <2>6
<1>39. /\ \A m \in 1 .. Len(s) : Nth(s, m) \in 1 .. Len(s) /\ ByIndex(s)[m] = s[Nth(s, m)]
       /\ \A m, k \in 1 .. Len(s) : m < k => /\ Nth(s, m) # Nth(s, k)
                                             /\ s[Nth(s, m)].index <= s[Nth(s, k)].index
       /\ \A j \in 1 .. Len(s) : \E m \in 1 .. Len(s) : Nth(s, m) = j
  BY <1>2, Sorted
<1>40. /\ \A m \in 1 .. Len(s) : Nth(s, m) \in 1 .. Len(s) /\ ByIndex(s)[m] = s[Nth(s, m)]
       /\ \A m, k \in 1 .. Len(s) : m < k => Nth(s, m) # Nth(s, k)
  BY <1>39
<1>41. \A m \in 1 .. n : Nth(s, m) \in 1 .. n /\ ByIndex(s)[m] = s[Nth(s, m)]
  BY <1>2, <1>40
<1>42. \A m, k \in 1 .. n : m < k => Nth(s, m) # Nth(s, k)
  BY <1>2, <1>40
<1>5. e \in Doc /\ Neat(e) /\ RemoveIds(e, S) = e
  <2>1. RemoveIds(e, S) = RemoveIds(d, S \cup S)
    BY RemoveIdsTwice
  <2>2. S \cup S = S
    OBVIOUS
  <2> QED BY <2>1, <2>2, RemoveIdsIs, RemoveIdsNeat
(* No removed item is in a removed group, and no track in two groups.      *)
<1>6. ASSUME NEW j \in 1 .. n, NEW k \in 1 .. n, j # k
      PROVE  /\ s[j].item # s[k].item /\ s[k].item # s[j].parent
             /\ s[k].item \notin ToSet(s[j].tracks)
             /\ s[k].item \in Group => ToSet(s[j].tracks) \cap ToSet(s[k].tracks) = {}
  <2>1. s[j].item # s[k].item
    <3>1. DOMAIN sel = 1 .. n
      OBVIOUS
    <3>2. sel[j] # sel[k]
      BY <1>6, <3>1 DEF IsInjective
    <3> QED BY <1>1, <3>2
  <2>2. s[k].item # s[j].parent
    BY <1>1
  <2>3. sel[j] \notin Group => ToSet(s[j].tracks) = {}
    <3>1. ToSet(<<>>) = {}
      BY DEF ToSet
    <3>2. sel[j] \notin Group => s[j].tracks = <<>>
      BY <1>1
    <3> QED BY <3>1, <3>2
  <2>4. ASSUME sel[j] \in Group, NEW t \in ToSet(s[j].tracks)
        PROVE  t # sel[k] /\ (sel[k] \in Group => t \notin ToSet(s[k].tracks))
    <3> DEFINE g == sel[j]
    <3>1. t \in ToSet(d.inner[g]) /\ g \in S
      BY <1>1, <2>4
    <3>2. g \in Group
      BY <2>4
    <3> HIDE DEF g
    <3>3. Where(d, t).parent = g /\ \A h \in Group \ {g} : t \notin ToSet(d.inner[h])
      BY <3>1, <3>2, WhereNeat
    <3>4. t # sel[k]
      BY <3>1, <3>3
    <3>5. sel[k] # g
      BY <1>1, <2>1 DEF g
    <3>6. sel[k] \in Group => t \notin ToSet(s[k].tracks)
      BY <1>1, <3>3, <3>5
    <3> QED BY <3>4, <3>6
  <2>5. s[k].item = sel[k]
    BY <1>1
  <2> QED BY <2>1, <2>2, <2>3, <2>4, <2>5
<1> HIDE DEF S, e
<1>7. <<0, e>> \in Good
  <2>1. ASSUME NEW j \in 1 .. n
        PROVE  Lands(e, s[Nth(s, j)])
    BY <1>1, <1>41
  <2>2. e \in Land(0)
    BY <1>5, <2>1
  <2> HIDE DEF Land
  <2> QED BY <1>5, <2>2
<1>8. ASSUME NEW k \in Nat, NEW c, k < n, <<k, c>> \in Good
      PROVE  <<k + 1, InsertItem(c, ByIndex(s)[k + 1])>> \in Good
  <2> DEFINE a == Nth(s, k + 1)
             h == InsertItem(c, s[a])
  <2>1. c \in Doc /\ c \in Land(k)
    <3> HIDE DEF Land
    <3> QED BY <1>8
  <2>2. k + 1 \in 1 .. n /\ a \in 1 .. n /\ ByIndex(s)[k + 1] = s[a]
    <3>1. k + 1 \in 1 .. n
      BY <1>8
    <3> QED BY <1>41, <3>1
  <2>3. Neat(c) /\ RemoveIds(c, S) = e /\ \A j \in (k + 1) .. n : Lands(c, s[Nth(s, j)])
    BY <2>1
  <2>4. Lands(c, s[a])
    <3>1. k + 1 \in (k + 1) .. n
      BY <2>2
    <3> QED BY <2>3, <3>1
  <2>5. h \in Doc /\ Neat(h)
    <3> HIDE DEF a
    <3> QED BY <2>1, <2>3, <2>4, LandedItems, LandedNeat
  <2>6. RemoveIds(h, S) = e
    <3> DEFINE x == s[a].item
    <3>1. RemoveIds(h, {x}) = c
      <4> HIDE DEF a
      <4> QED BY <2>1, <2>4, LandedRemoved
    <3>2. RemoveIds(RemoveIds(h, {x}), S) = RemoveIds(h, {x} \cup S)
      <4> HIDE DEF h, x
      <4> QED BY <2>5, RemoveIdsTwice
    <3>3. {x} \cup S = S
      BY <1>1, <2>2
    <3> QED BY <2>3, <3>1, <3>2, <3>3
  <2>7. ASSUME NEW j \in (k + 2) .. n
        PROVE  Lands(h, s[Nth(s, j)])
    <3> DEFINE b == Nth(s, j)
    <3>1. j \in 1 .. n /\ j \in (k + 1) .. n /\ k + 1 < j
      BY <2>2
    <3>2. b \in 1 .. n /\ b # a
      BY <1>41, <1>42, <2>2, <3>1
    <3>3. Lands(c, s[b])
      BY <2>3, <3>1
    <3> HIDE DEF a, b, h
    <3>4. /\ s[a].item # s[b].item /\ s[b].item # s[a].parent
          /\ s[b].item \notin ToSet(s[a].tracks)
          /\ s[a].item \notin ToSet(s[b].tracks)
          /\ s[b].item \in Group => ToSet(s[a].tracks) \cap ToSet(s[b].tracks) = {}
      BY <1>6, <2>2, <3>2
    <3>5. Lands(InsertItem(c, s[a]), s[b])
      BY <2>1, <2>4, <3>3, <3>4, LandsAfter
    <3> QED BY <3>5 DEF h, b
  <2>8. h \in Land(k + 1)
    <3>1. (k + 1) + 1 = k + 2
      OBVIOUS
    <3> HIDE DEF h
    <3> QED BY <2>5, <2>6, <2>7, <3>1
  <2> HIDE DEF h, Land
  <2>9. <<k + 1, h>> \in Good
    BY <2>5, <2>8
  <2> QED BY <2>2, <2>9 DEF h
<1>9. <<n, InsertAll(e, s)>> \in Good
  <2> HIDE DEF Good
  <2>1. Len(s) \in Nat
    BY <1>2
  <2>2. <<Len(s), InsertAll(e, s)>> \in Good
    BY <1>2, <1>7, <1>8, <2>1, InsertAllKeeps
  <2> QED BY <1>2, <2>2
<1>10. InsertAll(e, s) \in Lasts
  <2>1. InsertAll(e, s) \in Land(n)
    <3> HIDE DEF Land
    <3> QED BY <1>9
  <2> QED BY <2>1
<1> QED BY <1>1, <1>2, <1>3, <1>10 DEF S, e

-----------------------------------------------------------------------------
(* Groups.                                                                 *)

(* An element between what is before and behind it.                        *)
Between(s, a, x, b) == s = (a \o <<x>>) \o b

(* Where it is, and what is around it.                                     *)
LEMMA Around ==
  ASSUME NEW a \in Seq(Item), NEW b \in Seq(Item), NEW x \in Item,
         NEW s \in Seq(Item), Between(s, a, x, b)
  PROVE  /\ x \in ToSet(s)
         /\ Take(s, Len(a)) = a /\ Drop(s, Len(a) + 1) = b
         /\ IsInjective(s) => IndexIn(s, x) = Len(a)
<1> DEFINE n == Len(a)
           m == Len(b)
<1>1. n \in Nat /\ m \in Nat /\ <<x>> \in Seq(Item)
  OBVIOUS
<1>2. /\ s \in Seq(Item) /\ Len(s) = n + 1 + m
      /\ \A k \in 1 .. n : s[k] = a[k]
      /\ s[n + 1] = x
      /\ \A k \in 1 .. m : s[n + 1 + k] = b[k]
  BY DEF Between
<1>3. n + 1 \in DOMAIN s /\ x \in ToSet(s)
  BY <1>1, <1>2 DEF ToSet
<1>4. Take(s, n) = a
  <2>1. Take(s, n) = SubSeq(s, 1, n)
    BY <1>1, <1>2 DEF Take
  <2>2. a = SubSeq(s, 1, n)
    BY <1>1, <1>2
  <2> QED BY <2>1, <2>2
<1>5. Drop(s, n + 1) = b
  <2>1. Drop(s, n + 1) = SubSeq(s, n + 2, n + 1 + m)
    BY <1>1, <1>2 DEF Drop
  <2>2. b = SubSeq(s, n + 2, n + 1 + m)
    <3>1. /\ SubSeq(s, n + 2, n + 1 + m) \in Seq(Item)
          /\ Len(SubSeq(s, n + 2, n + 1 + m)) = m
          /\ \A k \in 1 .. m : SubSeq(s, n + 2, n + 1 + m)[k] = s[n + 1 + k]
      BY <1>1, <1>2
    <3> HIDE DEF n, m
    <3> QED BY <1>1, <1>2, <3>1 DEF m
  <2> QED BY <2>1, <2>2
<1>6. IsInjective(s) => IndexIn(s, x) = n
  <2>1. IsInjective(s) => \A k \in DOMAIN s : s[k] = x => IndexIn(s, x) = k - 1
    BY <1>2, <1>3, IndexInIs
  <2>2. IsInjective(s) => IndexIn(s, x) = (n + 1) - 1
    BY <1>2, <1>3, <2>1
  <2> QED BY <1>1, <2>2
<1> QED BY <1>3, <1>4, <1>5, <1>6

(* The place of an element splits a sequence.                              *)
LEMMA SplitAt ==
  ASSUME NEW S, NEW s \in Seq(S), NEW x \in S, x \in ToSet(s)
  PROVE  LET i == IndexIn(s, x) IN
         /\ i \in Nat /\ Take(s, i) \in Seq(S) /\ Drop(s, i + 1) \in Seq(S)
         /\ Len(Take(s, i)) = i
         /\ Between(s, Take(s, i), x, Drop(s, i + 1))
<1> DEFINE i == IndexIn(s, x)
           a == Take(s, i)
           b == Drop(s, i + 1)
           u == Take(s, i + 1)
<1>1. i \in Nat /\ i < Len(s) /\ s[i + 1] = x
  BY IndexInIs
<1> HIDE DEF i
<1>2. i + 1 \in Nat /\ i <= Len(s) /\ Len(s) \in Nat
  BY <1>1
<1>3. a \in Seq(S) /\ Len(a) = i
  BY <1>1, <1>2, TakeDrop
<1>4. b \in Seq(S) /\ u \o b = s
  BY <1>2, TakeDrop
<1>5. u = a \o <<x>>
  <2>1. u = SubSeq(s, 1, i + 1)
    <3>1. i + 1 < Len(s) \/ i + 1 = Len(s)
      BY <1>1, <1>2
    <3> QED BY <3>1 DEF Take
  <2>2. a = SubSeq(s, 1, i)
    BY <1>1 DEF Take
  <2>3. SubSeq(s, 1, i + 1) = SubSeq(s, 1, i) \o <<s[i + 1]>>
    BY <1>1, <1>2
  <2> QED BY <1>1, <2>1, <2>2, <2>3
<1> QED BY <1>1, <1>3, <1>4, <1>5 DEF i, Between

(* Opening a group leaves a document.                                      *)
LEMMA OpenGroupType ==
  ASSUME NEW d \in Doc, NEW g \in Group
  PROVE  OpenGroup(d, g) \in Doc
<1> DEFINE i == IndexIn(d.root, g)
           r == Take(d.root, i) \o d.inner[g] \o Drop(d.root, i + 1)
           n == [d.inner EXCEPT ![g] = <<>>]
<1>1. CASE g \notin ToSet(d.root)
  BY <1>1 DEF OpenGroup
<1>2. CASE g \in ToSet(d.root)
  <2>1. OpenGroup(d, g) = [root |-> r, inner |-> n]
    BY <1>2 DEF OpenGroup
  <2>2. g \in Item /\ d.root \in Seq(Item) /\ d.inner[g] \in Seq(Track) /\ d.inner \in [Group -> Seq(Track)]
    BY DocIs, ItemsDiffer
  <2>3. Take(d.root, i) \in Seq(Item) /\ Drop(d.root, i + 1) \in Seq(Item)
    BY <1>2, <2>2, SplitAt
  <2>4. d.inner[g] \in Seq(Item)
    BY <2>2, ItemsDiffer
  <2>5. r \in Seq(Item)
    <3> HIDE DEF i
    <3> QED BY <2>3, <2>4
  <2>6. n \in [Group -> Seq(Track)]
    <3>1. <<>> \in Seq(Track)
      OBVIOUS
    <3> QED BY <2>2, <3>1
  <2> HIDE DEF r, n
  <2> QED BY <2>1, <2>5, <2>6 DEF Doc
<1> QED BY <1>1, <1>2

(* What is around a group in the root, and its tracks.                     *)
LEMMA OpenGroupIs ==
  ASSUME NEW e \in Doc, NEW g \in Group, IsInjective(e.root),
         NEW a \in Seq(Item), NEW b \in Seq(Item), Between(e.root, a, g, b)
  PROVE  /\ OpenGroup(e, g) \in Doc
         /\ OpenGroup(e, g).root = (a \o e.inner[g]) \o b
         /\ \A h \in Group : OpenGroup(e, g).inner[h] = IF h = g THEN <<>> ELSE e.inner[h]
<1> DEFINE i == IndexIn(e.root, g)
           r == Take(e.root, i) \o e.inner[g] \o Drop(e.root, i + 1)
           n == [e.inner EXCEPT ![g] = <<>>]
<1>1. /\ g \in ToSet(e.root) /\ i = Len(a)
      /\ Take(e.root, Len(a)) = a /\ Drop(e.root, Len(a) + 1) = b
  <2>1. g \in Item
    BY ItemsDiffer
  <2>2. e.root \in Seq(Item)
    BY DocIs
  <2>3. /\ g \in ToSet(e.root)
        /\ Take(e.root, Len(a)) = a /\ Drop(e.root, Len(a) + 1) = b
        /\ IsInjective(e.root) => IndexIn(e.root, g) = Len(a)
    BY <2>1, <2>2, Around
  <2> QED BY <2>3
<1>2. OpenGroup(e, g) = [root |-> r, inner |-> n]
  BY <1>1 DEF OpenGroup
<1>3. r = (a \o e.inner[g]) \o b
  BY <1>1
<1>4. \A h \in Group : n[h] = IF h = g THEN <<>> ELSE e.inner[h]
  BY DocIs
<1> HIDE DEF r, n
<1>5. OpenGroup(e, g).root = r /\ OpenGroup(e, g).inner = n
  BY <1>2
<1> QED BY <1>3, <1>4, <1>5, OpenGroupType

(* Three sequences one behind the other.                                   *)
LEMMA Three ==
  ASSUME NEW a \in Seq(Item), NEW t \in Seq(Item), NEW b \in Seq(Item)
  PROVE  LET s == (a \o t) \o b IN
         /\ s \in Seq(Item)
         /\ ToSet(s) = ToSet(a) \cup ToSet(t) \cup ToSet(b)
         /\ IsInjective(s) <=>
              /\ IsInjective(a) /\ IsInjective(t) /\ IsInjective(b)
              /\ ToSet(a) \cap ToSet(t) = {} /\ ToSet(a) \cap ToSet(b) = {}
              /\ ToSet(t) \cap ToSet(b) = {}
<1> DEFINE u == a \o t
           s == u \o b
<1>1. u \in Seq(Item)
  OBVIOUS
<1>2. ToSet(u) = ToSet(a) \cup ToSet(t)
  BY ConcatElements
<1>3. IsInjective(u) <=> IsInjective(a) /\ IsInjective(t) /\ ToSet(a) \cap ToSet(t) = {}
  BY ConcatInjective
<1> HIDE DEF u
<1>4. s \in Seq(Item)
  BY <1>1
<1>5. ToSet(s) = ToSet(u) \cup ToSet(b)
  BY <1>1, ConcatElements
<1>6. IsInjective(s) <=> IsInjective(u) /\ IsInjective(b) /\ ToSet(u) \cap ToSet(b) = {}
  BY <1>1, ConcatInjective
<1>7. IsInjective(s) <=>
        /\ IsInjective(a) /\ IsInjective(t) /\ IsInjective(b)
        /\ ToSet(a) \cap ToSet(t) = {} /\ ToSet(a) \cap ToSet(b) = {}
        /\ ToSet(t) \cap ToSet(b) = {}
  <2> HIDE DEF s
  <2>1. ToSet(u) \cap ToSet(b) = {} <=> ToSet(a) \cap ToSet(b) = {} /\ ToSet(t) \cap ToSet(b) = {}
    BY <1>2
  <2> QED BY <1>3, <1>6, <2>1
<1>8. ToSet(s) = ToSet(a) \cup ToSet(t) \cup ToSet(b)
  BY <1>2, <1>5
<1> QED BY <1>4, <1>7, <1>8 DEF u

(* A beginning is a shorter one and what is behind it.                     *)
LEMMA SubSeqSplit ==
  ASSUME NEW S, NEW s \in Seq(S), NEW i \in Nat, NEW j \in Nat, i <= j, j <= Len(s)
  PROVE  SubSeq(s, 1, j) = SubSeq(s, 1, i) \o SubSeq(s, i + 1, j)
<1> DEFINE u == SubSeq(s, 1, i)
           v == SubSeq(s, i + 1, j)
           w == SubSeq(s, 1, j)
<1>0. Len(s) \in Nat
  OBVIOUS
<1>1. u \in Seq(S) /\ Len(u) = i /\ \A k \in 1 .. i : u[k] = s[k]
  BY <1>0
<1>2. v \in Seq(S) /\ Len(v) = j - i /\ \A k \in 1 .. (j - i) : v[k] = s[i + k]
  BY <1>0
<1>3. w \in Seq(S) /\ Len(w) = j /\ \A k \in 1 .. j : w[k] = s[k]
  BY <1>0
<1> HIDE DEF u, v, w
<1>4. u \o v \in Seq(S) /\ Len(u \o v) = j
  <2>0. u \in Seq(S) /\ v \in Seq(S)
    BY <1>1, <1>2
  <2>1. u \o v \in Seq(S) /\ Len(u \o v) = Len(u) + Len(v)
    BY <2>0, ConcatProperties
  <2> QED BY <1>1, <1>2, <2>1
<1>5. ASSUME NEW k \in 1 .. j
      PROVE  (u \o v)[k] = w[k]
  <2>1. CASE k <= i
    BY <1>1, <1>2, <1>3, <2>1
  <2>2. CASE k > i
    <3>1. (u \o v)[k] = v[k - i]
      BY <1>1, <1>2, <2>2
    <3>2. k - i \in 1 .. (j - i) /\ i + (k - i) = k
      BY <2>2
    <3> QED BY <1>2, <1>3, <3>1, <3>2
  <2>3. k <= i \/ k > i
    OBVIOUS
  <2> QED BY <2>1, <2>2, <2>3
<1>6. u \o v = w
  BY <1>3, <1>4, <1>5
<1> QED BY <1>6 DEF u, v, w

(* The command of a new group.                                             *)
Grouping(d, g, i, j) ==
  [item |-> g, parent |-> Root, index |-> i, tracks |-> SubSeq(d.root, i + 1, j)]

(* A run of tracks becomes a group and, undone, a run of tracks again.     *)
LEMMA GroupUndone ==
  ASSUME NEW d \in Doc, Neat(d), NEW g \in Group, g \notin ItemsOf(d),
         NEW i \in Nat, NEW j \in Nat, i <= j, j <= Len(d.root),
         ToSet(SubSeq(d.root, i + 1, j)) \subseteq Track,
         NEW c, c.type = "group", c.positions = <<Grouping(d, g, i, j)>>
  PROVE  /\ Fits(Grouping(d, g, i, j))
         /\ Execute(c, d) \in Doc /\ Neat(Execute(c, d))
         /\ UndoCommand(c, Execute(c, d)) = d
<1> DEFINE p == Grouping(d, g, i, j)
           t == SubSeq(d.root, i + 1, j)
           a == Take(d.root, i)
           b == Drop(d.root, j)
           e == Execute(c, d)
<1>1. d.root \in Seq(Item) /\ Len(d.root) \in Nat /\ g \in Item /\ g \notin Track /\ g # Root
  BY DocIs, ItemsDiffer
<1>2. /\ a \in Seq(Item) /\ t \in Seq(Item) /\ b \in Seq(Item)
      /\ Len(a) = i /\ Len(t) = j - i /\ i + Len(t) = j
  <2>0. i <= Len(d.root)
    BY <1>1
  <2>1. a \in Seq(Item) /\ Len(a) = i
    BY <1>1, <2>0, TakeDrop
  <2>2. b \in Seq(Item)
    BY <1>1, TakeDrop
  <2>3. t \in Seq(Item) /\ Len(t) = j - i
    BY <1>1
  <2> QED BY <2>1, <2>2, <2>3
<1>3. d.root = (a \o t) \o b
  <2> DEFINE u == Take(d.root, j)
  <2>1. u \o b = d.root
    BY <1>1, TakeDrop
  <2>2. u = SubSeq(d.root, 1, j)
    <3>1. j < Len(d.root) \/ j = Len(d.root)
      BY <1>1
    <3> QED BY <3>1 DEF Take
  <2>3. a = SubSeq(d.root, 1, i)
    <3>1. i < Len(d.root) \/ i = Len(d.root)
      BY <1>1
    <3> QED BY <3>1 DEF Take
  <2>4. SubSeq(d.root, 1, j) = SubSeq(d.root, 1, i) \o SubSeq(d.root, i + 1, j)
    BY <1>1, SubSeqSplit
  <2> QED BY <2>1, <2>2, <2>3, <2>4
<1>4. t \in Seq(Track)
  <2>1. \A k \in 1 .. Len(t) : t[k] \in Track
    BY <1>2 DEF ToSet
  <2> HIDE DEF t
  <2> QED BY <1>2, <2>1
<1>5. /\ p.item = g /\ p.parent = Root /\ p.index = i /\ p.tracks = t
      /\ p \in Position /\ Fits(p)
  <2> HIDE DEF t
  <2>1. p = [item |-> g, parent |-> Root, index |-> i, tracks |-> t]
    BY DEF Grouping, t
  <2> HIDE DEF p
  <2>2. p.item = g /\ p.parent = Root /\ p.index = i /\ p.tracks = t
    BY <2>1
  <2>3. p \in Position
    BY <1>1, <1>4, <2>1 DEF Position
  <2> QED BY <2>2, <2>3 DEF Fits
<1> DEFINE f == [d EXCEPT !.root = a \o b]
<1>6. c.positions[1] = p
  OBVIOUS
<1>7. e = InsertItem(f, p)
  <2>1. e = InsertItem([d EXCEPT !.root = Take(@, p.index) \o Drop(@, p.index + Len(p.tracks))], p)
    <3> HIDE DEF p
    <3> QED BY <1>6 DEF Execute
  <2> HIDE DEF p, t
  <2> QED BY <1>2, <1>5, <2>1
<1> HIDE DEF p, t, a, b, e
<1>8. f \in Doc /\ f.root = a \o b /\ f.inner = d.inner
  <2>1. a \o b \in Seq(Item)
    BY <1>2
  <2> QED BY <2>1 DEF Doc
<1> HIDE DEF f
<1>9. /\ e \in Doc /\ e.root = (a \o <<g>>) \o b
      /\ \A h \in Group : e.inner[h] = IF h = g THEN t ELSE d.inner[h]
  <2>1. /\ e \in Doc /\ e.root = Splice(f.root, i, <<g>>)
        /\ \A h \in Group : e.inner[h] = IF h = g THEN t ELSE f.inner[h]
    BY <1>5, <1>7, <1>8, InsertItemIs
  <2>2. Splice(a \o b, Len(a), <<g>>) = a \o <<g>> \o b
    <3> DEFINE v == <<g>>
    <3>1. v \in Seq(Item)
      BY <1>1
    <3> HIDE DEF v
    <3>2. Splice(a \o b, Len(a), v) = a \o v \o b
      BY <1>2, <3>1, SpliceBehind
    <3> QED BY <3>2 DEF v
  <2> QED BY <1>2, <1>8, <2>1, <2>2
<1>10. /\ IsInjective(a) /\ IsInjective(t) /\ IsInjective(b)
       /\ ToSet(a) \cap ToSet(t) = {} /\ ToSet(a) \cap ToSet(b) = {}
       /\ ToSet(t) \cap ToSet(b) = {}
       /\ ToSet(d.root) = ToSet(a) \cup ToSet(t) \cup ToSet(b)
  <2>1. IsInjective(d.root)
    BY DEF Neat
  <2> DEFINE s == (a \o t) \o b
  <2>2. LET z == (a \o t) \o b IN
         /\ z \in Seq(Item)
         /\ ToSet(z) = ToSet(a) \cup ToSet(t) \cup ToSet(b)
         /\ IsInjective(z) <=>
              /\ IsInjective(a) /\ IsInjective(t) /\ IsInjective(b)
              /\ ToSet(a) \cap ToSet(t) = {} /\ ToSet(a) \cap ToSet(b) = {}
              /\ ToSet(t) \cap ToSet(b) = {}
    BY <1>2, Three
  <2>3. s = d.root
    BY <1>3
  <2>4. /\ ToSet(s) = ToSet(a) \cup ToSet(t) \cup ToSet(b)
        /\ IsInjective(s) <=>
              /\ IsInjective(a) /\ IsInjective(t) /\ IsInjective(b)
              /\ ToSet(a) \cap ToSet(t) = {} /\ ToSet(a) \cap ToSet(b) = {}
              /\ ToSet(t) \cap ToSet(b) = {}
    BY <2>2
  <2> HIDE DEF s
  <2> QED BY <2>1, <2>3, <2>4
<1>11. g \notin ToSet(d.root) /\ \A h \in Group : g \notin ToSet(d.inner[h])
  BY ItemsAre
<1>12. ToSet(e.root) = ToSet(a) \cup {g} \cup ToSet(b) /\ IsInjective(e.root)
  <2> DEFINE v == <<g>>
  <2>1. v \in Seq(Item) /\ ToSet(v) = {g} /\ IsInjective(v)
    BY <1>1, Single
  <2>2. e.root = (a \o v) \o b
    BY <1>9
  <2> HIDE DEF v
  <2> DEFINE s == (a \o v) \o b
  <2>3. LET z == (a \o v) \o b IN
         /\ z \in Seq(Item)
         /\ ToSet(z) = ToSet(a) \cup ToSet(v) \cup ToSet(b)
         /\ IsInjective(z) <=>
              /\ IsInjective(a) /\ IsInjective(v) /\ IsInjective(b)
              /\ ToSet(a) \cap ToSet(v) = {} /\ ToSet(a) \cap ToSet(b) = {}
              /\ ToSet(v) \cap ToSet(b) = {}
    BY <1>2, <2>1, Three
  <2>4. /\ ToSet(s) = ToSet(a) \cup ToSet(v) \cup ToSet(b)
        /\ IsInjective(s) <=>
              /\ IsInjective(a) /\ IsInjective(v) /\ IsInjective(b)
              /\ ToSet(a) \cap ToSet(v) = {} /\ ToSet(a) \cap ToSet(b) = {}
              /\ ToSet(v) \cap ToSet(b) = {}
    BY <2>3
  <2>5. e.root = s
    BY <2>2
  <2> HIDE DEF s
  <2> QED BY <1>10, <1>11, <2>1, <2>4, <2>5
<1>13. Neat(e)
  <2>1. ToSet(t) \subseteq Track
    BY <1>4 DEF ToSet
  <2>2. /\ \A h \in Group :
             /\ IsInjective(d.inner[h])
             /\ ToSet(d.inner[h]) \cap ToSet(d.root) = {}
             /\ h \notin ToSet(d.root) => d.inner[h] = <<>>
             /\ \A k \in Group \ {h} : ToSet(d.inner[h]) \cap ToSet(d.inner[k]) = {}
    BY DEF Neat
  <2>3. \A h \in Group : h \notin Track
    BY ItemsDiffer
  <2>4. ASSUME NEW h \in Group
        PROVE  /\ IsInjective(e.inner[h])
               /\ ToSet(e.inner[h]) \cap ToSet(e.root) = {}
               /\ h \notin ToSet(e.root) => e.inner[h] = <<>>
    <3>1. CASE h = g
      BY <1>1, <1>9, <1>10, <1>12, <2>1, <3>1
    <3>2. CASE h # g
      <4>1. e.inner[h] = d.inner[h]
        BY <1>9, <3>2
      <4>2. ToSet(e.inner[h]) \cap ToSet(e.root) = {}
        BY <1>10, <1>11, <1>12, <2>2, <4>1
      <4>3. h \notin ToSet(e.root) => h \notin ToSet(d.root)
        BY <1>10, <1>12, <2>1, <2>3, <3>2
      <4> QED BY <2>2, <4>1, <4>2, <4>3
    <3> QED BY <3>1, <3>2
  <2>5. ASSUME NEW h \in Group, NEW k \in Group \ {h}
        PROVE  ToSet(e.inner[h]) \cap ToSet(e.inner[k]) = {}
    <3>1. \A l \in Group : ToSet(d.inner[l]) \cap ToSet(t) = {}
      BY <1>10, <2>2
    <3> QED BY <1>9, <2>2, <3>1
  <2> QED BY <1>12, <2>4, <2>5 DEF Neat
<1>14. UndoCommand(c, e) = OpenGroup(e, g)
  BY <1>5, <1>6 DEF UndoCommand
<1>15. OpenGroup(e, g) = d
  <2> DEFINE o == OpenGroup(e, g)
  <2>1. Between(e.root, a, g, b)
    BY <1>9 DEF Between
  <2>2. /\ o \in Doc /\ o.root = (a \o e.inner[g]) \o b
        /\ \A h \in Group : o.inner[h] = IF h = g THEN <<>> ELSE e.inner[h]
    <3>1. e \in Doc /\ IsInjective(e.root) /\ a \in Seq(Item) /\ b \in Seq(Item)
      BY <1>2, <1>9, <1>12
    <3> QED BY <2>1, <3>1, OpenGroupIs
  <2>3. o.root = d.root
    BY <1>3, <1>9, <2>2
  <2>4. ASSUME NEW h \in Group
        PROVE  o.inner[h] = d.inner[h]
    <3>1. d.inner[g] = <<>>
      BY <1>11 DEF Neat
    <3> QED BY <1>9, <2>2, <3>1
  <2> HIDE DEF o
  <2>5. o = d
    BY <2>2, <2>3, <2>4, DocIs
  <2> QED BY <2>5 DEF o
<1> QED BY <1>5, <1>9, <1>13, <1>14, <1>15 DEF e, p

(* A group becomes its tracks and, undone, a group of them again.          *)
LEMMA UngroupUndone ==
  ASSUME NEW d \in Doc, Neat(d), NEW g \in Group, g \in ToSet(d.root),
         NEW c, c.type = "ungroup", c.positions = <<Where(d, g)>>
  PROVE  /\ Fits(Where(d, g)) /\ Where(d, g).item = g
         /\ Execute(c, d) = OpenGroup(d, g)
         /\ Execute(c, d) \in Doc /\ Neat(Execute(c, d))
         /\ UndoCommand(c, Execute(c, d)) = d
<1> DEFINE p == Where(d, g)
           i == IndexIn(d.root, g)
           t == d.inner[g]
           a == Take(d.root, i)
           b == Drop(d.root, i + 1)
           e == OpenGroup(d, g)
           v == <<g>>
<1>1. d.root \in Seq(Item) /\ g \in Item /\ g \notin Track /\ g # Root /\ g \in ItemsOf(d)
  BY DocIs, ItemsDiffer, ItemsAre
<1>2. /\ Fits(p) /\ p \in Position /\ p.item = g /\ p.tracks = t
      /\ p.parent = Root /\ p.index = i
  BY <1>1, WhereIs
<1>3. c.positions[1] = p
  OBVIOUS
<1>4. Execute(c, d) = e
  <2> HIDE DEF p
  <2>1. Execute(c, d) = OpenGroup(d, p.item)
    BY <1>3 DEF Execute
  <2> QED BY <1>2, <2>1
<1>5. UndoCommand(c, e) = InsertItem([e EXCEPT !.root = Without(@, ToSet(t))], p)
  <2> HIDE DEF p, e, t
  <2>1. UndoCommand(c, e) = InsertItem([e EXCEPT !.root = Without(@, ToSet(p.tracks))], p)
    BY <1>3 DEF UndoCommand
  <2> QED BY <1>2, <2>1
<1>6. /\ i \in Nat /\ a \in Seq(Item) /\ b \in Seq(Item) /\ Len(a) = i
      /\ Between(d.root, a, g, b)
  BY <1>1, SplitAt
<1>7. d.root = (a \o v) \o b
  BY <1>6 DEF Between
<1>8. v \in Seq(Item) /\ ToSet(v) = {g} /\ IsInjective(v)
  BY <1>1, Single
<1>9. t \in Seq(Item) /\ t \in Seq(Track)
  <2>1. t \in Seq(Track)
    BY DocIs
  <2> HIDE DEF t
  <2> QED BY <2>1, ItemsDiffer
<1>10. IsInjective(d.root)
  BY DEF Neat
<1>11. /\ e \in Doc /\ e.root = (a \o t) \o b
       /\ \A h \in Group : e.inner[h] = IF h = g THEN <<>> ELSE d.inner[h]
  <2> HIDE DEF a, b
  <2> QED BY <1>6, <1>10, OpenGroupIs
<1> HIDE DEF p, i, t, a, b, e, v
<1>12. /\ IsInjective(a) /\ IsInjective(b)
       /\ g \notin ToSet(a) /\ g \notin ToSet(b) /\ ToSet(a) \cap ToSet(b) = {}
       /\ ToSet(d.root) = ToSet(a) \cup {g} \cup ToSet(b)
  <2> DEFINE s == (a \o v) \o b
  <2>1. LET z == (a \o v) \o b IN
         /\ z \in Seq(Item)
         /\ ToSet(z) = ToSet(a) \cup ToSet(v) \cup ToSet(b)
         /\ IsInjective(z) <=>
              /\ IsInjective(a) /\ IsInjective(v) /\ IsInjective(b)
              /\ ToSet(a) \cap ToSet(v) = {} /\ ToSet(a) \cap ToSet(b) = {}
              /\ ToSet(v) \cap ToSet(b) = {}
    BY <1>6, <1>8, Three
  <2>2. /\ ToSet(s) = ToSet(a) \cup ToSet(v) \cup ToSet(b)
        /\ IsInjective(s) <=>
              /\ IsInjective(a) /\ IsInjective(v) /\ IsInjective(b)
              /\ ToSet(a) \cap ToSet(v) = {} /\ ToSet(a) \cap ToSet(b) = {}
              /\ ToSet(v) \cap ToSet(b) = {}
    BY <2>1
  <2>3. d.root = s
    BY <1>7
  <2> HIDE DEF s
  <2> QED BY <1>8, <1>10, <2>2, <2>3
<1>13. /\ IsInjective(t) /\ ToSet(t) \cap ToSet(d.root) = {}
       /\ \A h \in Group \ {g} : ToSet(t) \cap ToSet(d.inner[h]) = {}
  BY DEF Neat, t
<1>14. ToSet(e.root) = ToSet(a) \cup ToSet(t) \cup ToSet(b) /\ IsInjective(e.root)
  <2> DEFINE s == (a \o t) \o b
  <2>1. LET z == (a \o t) \o b IN
         /\ z \in Seq(Item)
         /\ ToSet(z) = ToSet(a) \cup ToSet(t) \cup ToSet(b)
         /\ IsInjective(z) <=>
              /\ IsInjective(a) /\ IsInjective(t) /\ IsInjective(b)
              /\ ToSet(a) \cap ToSet(t) = {} /\ ToSet(a) \cap ToSet(b) = {}
              /\ ToSet(t) \cap ToSet(b) = {}
    BY <1>6, <1>9, Three
  <2>2. /\ ToSet(s) = ToSet(a) \cup ToSet(t) \cup ToSet(b)
        /\ IsInjective(s) <=>
              /\ IsInjective(a) /\ IsInjective(t) /\ IsInjective(b)
              /\ ToSet(a) \cap ToSet(t) = {} /\ ToSet(a) \cap ToSet(b) = {}
              /\ ToSet(t) \cap ToSet(b) = {}
    BY <2>1
  <2>3. e.root = s
    BY <1>11
  <2> HIDE DEF s
  <2> QED BY <1>12, <1>13, <2>2, <2>3
<1>15. Neat(e)
  <2>1. \A h \in Group :
             /\ IsInjective(d.inner[h])
             /\ ToSet(d.inner[h]) \cap ToSet(d.root) = {}
             /\ h \notin ToSet(d.root) => d.inner[h] = <<>>
             /\ \A k \in Group \ {h} : ToSet(d.inner[h]) \cap ToSet(d.inner[k]) = {}
    BY DEF Neat
  <2>2. IsInjective(<<>>) /\ ToSet(<<>>) = {}
    BY DEF IsInjective, ToSet
  <2>3. ASSUME NEW h \in Group
        PROVE  /\ IsInjective(e.inner[h])
               /\ ToSet(e.inner[h]) \cap ToSet(e.root) = {}
               /\ h \notin ToSet(e.root) => e.inner[h] = <<>>
    <3>1. CASE h = g
      <4>1. e.inner[h] = <<>>
        BY <1>11, <3>1
      <4> QED BY <2>2, <4>1
    <3>2. CASE h # g
      <4>1. e.inner[h] = d.inner[h]
        BY <1>11, <3>2
      <4>2. ToSet(e.inner[h]) \cap ToSet(e.root) = {}
        BY <1>12, <1>13, <1>14, <2>1, <3>2, <4>1
      <4>3. h \notin ToSet(e.root) => h \notin ToSet(d.root)
        BY <1>12, <1>14, <3>2
      <4> QED BY <2>1, <4>1, <4>2, <4>3
    <3> QED BY <3>1, <3>2
  <2>4. ASSUME NEW h \in Group, NEW k \in Group \ {h}
        PROVE  ToSet(e.inner[h]) \cap ToSet(e.inner[k]) = {}
    <3>1. CASE h = g \/ k = g
      <4>1. e.inner[g] = <<>>
        BY <1>11
      <4> QED BY <2>2, <3>1, <4>1
    <3>2. CASE h # g /\ k # g
      BY <1>11, <2>1, <3>2
    <3> QED BY <3>1, <3>2
  <2> QED BY <1>14, <2>3, <2>4 DEF Neat
<1> DEFINE f == [e EXCEPT !.root = Without(@, ToSet(t))]
<1>16. f \in Doc /\ f.root = a \o b /\ f.inner = e.inner
  <2>1. Without((a \o t) \o b, ToSet(t)) = a \o b
    <3> DEFINE u == a \o t
    <3>1. u \in Seq(Item)
      BY <1>6, <1>9
    <3>2. Without(u, ToSet(t)) = Without(a, ToSet(t)) \o Without(t, ToSet(t))
      BY <1>6, <1>9, WithoutConcat
    <3> HIDE DEF u
    <3>3. Without(u \o b, ToSet(t)) = Without(u, ToSet(t)) \o Without(b, ToSet(t))
      BY <1>6, <3>1, WithoutConcat
    <3>4. ToSet(a) \cap ToSet(t) = {} /\ ToSet(b) \cap ToSet(t) = {}
      BY <1>12, <1>13
    <3>5. Without(a, ToSet(t)) = a
      BY <1>6, <3>4, WithoutOthers
    <3>6. Without(b, ToSet(t)) = b
      BY <1>6, <3>4, WithoutOthers
    <3>7. Without(t, ToSet(t)) = <<>>
      <4> DEFINE w == Without(t, ToSet(t))
      <4>1. w \in Seq(Item) /\ ToSet(w) = {}
        BY <1>9, WithoutType, WithoutElements
      <4> HIDE DEF w
      <4>2. Len(w) \in Nat /\ DOMAIN w = 1 .. Len(w)
        BY <4>1
      <4>3. Len(w) = 0
        <5>1. ASSUME Len(w) # 0 PROVE FALSE
          <6>1. 1 \in DOMAIN w
            BY <4>2, <5>1
          <6> QED BY <4>1, <6>1 DEF ToSet
        <5> QED BY <5>1
      <4>4. w = <<>>
        BY <4>1, <4>3
      <4> QED BY <4>4 DEF w
    <3>8. a \o <<>> = a
      BY <1>6, ConcatEmptySeq
    <3> QED BY <3>2, <3>3, <3>5, <3>6, <3>7, <3>8 DEF u
  <2>2. f = [e EXCEPT !.root = a \o b]
    BY <1>11, <2>1
  <2>3. a \o b \in Seq(Item)
    BY <1>6
  <2> HIDE DEF f
  <2> QED BY <1>11, <2>2, <2>3 DEF Doc
<1>17. InsertItem(f, p) = d
  <2> HIDE DEF f
  <2> DEFINE h == InsertItem(f, p)
  <2>1. /\ h \in Doc /\ h.root = Splice(f.root, i, <<g>>)
        /\ \A k \in Group : h.inner[k] = IF k = g THEN t ELSE f.inner[k]
    BY <1>2, <1>16, InsertItemIs
  <2>2. Splice(a \o b, Len(a), v) = a \o v \o b
    BY <1>6, <1>8, SpliceBehind
  <2>3. h.root = d.root
    BY <1>6, <1>7, <1>16, <2>1, <2>2 DEF v
  <2>4. ASSUME NEW k \in Group
        PROVE  h.inner[k] = d.inner[k]
    BY <1>11, <1>16, <2>1 DEF t
  <2> HIDE DEF h
  <2>5. h = d
    BY <2>1, <2>3, <2>4, DocIs
  <2> QED BY <2>5 DEF h
<1> QED BY <1>2, <1>4, <1>5, <1>11, <1>15, <1>17 DEF p, e

-----------------------------------------------------------------------------
(* Commands.                                                               *)

(* What the edits record.                                                  *)
Command ==
  {c \in [type : {"add", "addRoot", "remove", "group", "ungroup"}, positions : Seq(Position)] :
     /\ \A k \in 1 .. Len(c.positions) : Fits(c.positions[k])
     /\ c.type \in {"group", "ungroup"} => c.positions[1] \in Position /\ c.positions[1].item \in Group
                                           /\ Fits(c.positions[1])}

(* A command takes a document to a document.                               *)
LEMMA CommandType ==
  ASSUME NEW d \in Doc, NEW c \in Command
  PROVE  Execute(c, d) \in Doc /\ UndoCommand(c, d) \in Doc
<1> DEFINE p == c.positions[1]
<1>1. /\ c.type \in {"add", "addRoot", "remove", "group", "ungroup"}
      /\ c.positions \in Seq(Position)
      /\ \A k \in 1 .. Len(c.positions) : Fits(c.positions[k])
      /\ c.type \in {"group", "ungroup"} => p \in Position /\ p.item \in Group /\ Fits(p)
  BY DEF Command
<1>2. InsertAll(d, c.positions) \in Doc
  BY <1>1, InsertAllType
<1>3. RemoveIds(d, Ids(c.positions)) \in Doc
  BY RemoveIdsIs
<1>4. \A r \in Seq(Item) : [d EXCEPT !.root = r] \in Doc
  BY DEF Doc
<1>5. d.root \in Seq(Item) /\ \A A : Without(d.root, A) \in Seq(Item)
  BY DocIs, WithoutType
<1>6. CASE c.type = "add"
  BY <1>2, <1>3, <1>6 DEF Execute, UndoCommand
<1>7. CASE c.type = "addRoot"
  <2>1. [d EXCEPT !.root = Without(d.root, Ids(c.positions))] \in Doc
    BY <1>4, <1>5
  <2> QED BY <1>2, <1>7, <2>1 DEF Execute, UndoCommand
<1>8. CASE c.type = "remove"
  BY <1>2, <1>3, <1>8 DEF Execute, UndoCommand
<1>9. CASE c.type = "group"
  <2> DEFINE m == p.index
             n == p.index + Len(p.tracks)
             r == Take(d.root, m) \o Drop(d.root, n)
  <2>1. p \in Position /\ p.item \in Group /\ Fits(p)
    BY <1>1, <1>9
  <2>2. m \in Nat /\ n \in Nat
    <3> HIDE DEF p
    <3>1. p.index \in Nat /\ p.tracks \in Seq(Track)
      BY <2>1, PositionIs
    <3> QED BY <3>1
  <2>3. Take(d.root, m) \in Seq(Item) /\ Drop(d.root, n) \in Seq(Item)
    <3> HIDE DEF m, n
    <3> QED BY <1>5, <2>2, TakeDrop
  <2>4. r \in Seq(Item)
    <3> HIDE DEF m, n
    <3> QED BY <2>3
  <2>5. InsertItem([d EXCEPT !.root = r], p) \in Doc
    <3> HIDE DEF r, p
    <3> QED BY <1>4, <2>1, <2>4, InsertItemIs
  <2>6. Execute(c, d) = InsertItem([d EXCEPT !.root = r], p)
    BY <1>9 DEF Execute
  <2>7. UndoCommand(c, d) = OpenGroup(d, p.item)
    BY <1>9 DEF UndoCommand
  <2>8. OpenGroup(d, p.item) \in Doc
    <3> HIDE DEF p
    <3> QED BY <2>1, OpenGroupType
  <2> QED BY <2>5, <2>6, <2>7, <2>8
<1>10. CASE c.type = "ungroup"
  <2> DEFINE r == Without(d.root, ToSet(p.tracks))
  <2>1. p \in Position /\ p.item \in Group /\ Fits(p)
    BY <1>1, <1>10
  <2>2. r \in Seq(Item)
    BY <1>5
  <2>3. InsertItem([d EXCEPT !.root = r], p) \in Doc
    <3> HIDE DEF r, p
    <3> QED BY <1>4, <2>1, <2>2, InsertItemIs
  <2>4. UndoCommand(c, d) = InsertItem([d EXCEPT !.root = r], p)
    BY <1>10 DEF UndoCommand
  <2>5. Execute(c, d) = OpenGroup(d, p.item)
    BY <1>10 DEF Execute
  <2>6. OpenGroup(d, p.item) \in Doc
    <3> HIDE DEF p
    <3> QED BY <2>1, OpenGroupType
  <2> QED BY <2>3, <2>4, <2>5, <2>6
<1> QED BY <1>1, <1>6, <1>7, <1>8, <1>9, <1>10

-----------------------------------------------------------------------------
(* Composite actions.                                                      *)

(* A command for a workspace.                                              *)
PartRecord == [workspace : Workspace, command : Command]

(* What a command does to a document, done or undone.                      *)
Effect(mode, c, d) == IF mode = "undo" THEN UndoCommand(c, d) ELSE Execute(c, d)

(* One part changes the document of its workspace.                         *)
LEMMA ApplyIs ==
  ASSUME NEW mode, NEW ds \in [Workspace -> Doc], NEW part \in PartRecord
  PROVE  /\ Apply(mode, ds, part) \in [Workspace -> Doc]
         /\ \A w \in Workspace : Apply(mode, ds, part)[w] =
              IF w = part.workspace THEN Effect(mode, part.command, ds[w]) ELSE ds[w]
<1> DEFINE v == part.workspace
           c == part.command
           x == Effect(mode, c, ds[v])
<1>1. v \in Workspace /\ c \in Command
  BY DEF PartRecord
<1>2. Apply(mode, ds, part) = [ds EXCEPT ![v] = x]
  BY DEF Apply, Effect
<1>3. x \in Doc
  <2>1. ds[v] \in Doc
    BY <1>1
  <2> HIDE DEF v, c
  <2> QED BY <1>1, <2>1, CommandType DEF Effect
<1> HIDE DEF x
<1>4. Apply(mode, ds, part) \in [Workspace -> Doc]
  BY <1>1, <1>2, <1>3
<1>5. ASSUME NEW w \in Workspace
      PROVE  Apply(mode, ds, part)[w] = IF w = v THEN x ELSE ds[w]
  BY <1>1, <1>2
<1> QED BY <1>4, <1>5 DEF x

(* f[k] are the documents after the first k parts.                         *)
Applying(mode, ds, parts, f, n) ==
  f = [k \in 0 .. n |-> IF k = 0 THEN ds ELSE Apply(mode, f[k - 1], parts[k])]

(* There is such a function.                                               *)
LEMMA ApplyingExists ==
  ASSUME NEW mode, NEW ds, NEW parts, NEW n \in Nat
  PROVE  \E f : Applying(mode, ds, parts, f, n)
<1> DEFINE T == {m \in Nat : \E f : Applying(mode, ds, parts, f, m)}
<1>1. 0 \in T
  <2> DEFINE f == [k \in 0 .. 0 |-> ds]
  <2>1. Applying(mode, ds, parts, f, 0)
    BY DEF Applying
  <2> QED BY <2>1
<1>2. ASSUME NEW m \in Nat, m \in T
      PROVE  m + 1 \in T
  <2>1. PICK f : Applying(mode, ds, parts, f, m)
    BY <1>2
  <2> DEFINE last == Apply(mode, f[m], parts[m + 1])
             g == [k \in 0 .. (m + 1) |-> IF k <= m THEN f[k] ELSE last]
  <2>2. Applying(mode, ds, parts, g, m + 1)
    <3>1. ASSUME NEW k \in 0 .. (m + 1)
          PROVE  g[k] = IF k = 0 THEN ds ELSE Apply(mode, g[k - 1], parts[k])
      <4>1. CASE k = m + 1
        BY <4>1
      <4>2. CASE k # m + 1
        <5>1. k \in 0 .. m /\ (k # 0 => k - 1 \in 0 .. m)
          BY <4>2
        <5>2. f[k] = IF k = 0 THEN ds ELSE Apply(mode, f[k - 1], parts[k])
          BY <2>1, <5>1 DEF Applying
        <5> QED BY <5>1, <5>2
      <4> QED BY <4>1, <4>2
    <3> QED BY <3>1 DEF Applying
  <2>3. \E h : Applying(mode, ds, parts, h, m + 1)
    BY <2>2
  <2> QED BY <2>3
<1>3. \A k \in Nat : k < n /\ k \in T => k + 1 \in T
  BY <1>2
<1> HIDE DEF T
<1>4. n \in T
  BY <1>1, <1>3, Reaches
<1> QED BY <1>4 DEF T

(* The choice that ApplyAll makes.                                         *)
LEMMA ApplyAllIs ==
  ASSUME NEW mode, NEW ds, NEW parts, Len(parts) \in Nat
  PROVE  \E f : /\ ApplyAll(mode, ds, parts) = f[Len(parts)]
                /\ \A k \in 0 .. Len(parts) :
                      f[k] = IF k = 0 THEN ds ELSE Apply(mode, f[k - 1], parts[k])
<1> DEFINE n == Len(parts)
           f == CHOOSE f : Applying(mode, ds, parts, f, n)
<1>1. Applying(mode, ds, parts, f, n)
  BY ApplyingExists
<1>2. ApplyAll(mode, ds, parts) = f[n]
  BY DEF ApplyAll, Applying
<1> HIDE DEF f
<1>3. \A k \in 0 .. n : f[k] = IF k = 0 THEN ds ELSE Apply(mode, f[k - 1], parts[k])
  BY <1>1 DEF Applying
<1> QED BY <1>2, <1>3

(* Documents stay documents.                                               *)
LEMMA ApplyAllType ==
  ASSUME NEW mode, NEW ds \in [Workspace -> Doc], NEW parts \in Seq(PartRecord)
  PROVE  ApplyAll(mode, ds, parts) \in [Workspace -> Doc]
<1> DEFINE n == Len(parts)
<1>1. n \in Nat /\ \A k \in 1 .. n : parts[k] \in PartRecord
  OBVIOUS
<1>2. PICK f : /\ ApplyAll(mode, ds, parts) = f[n]
               /\ \A k \in 0 .. n : f[k] = IF k = 0 THEN ds ELSE Apply(mode, f[k - 1], parts[k])
  BY <1>1, ApplyAllIs
<1> DEFINE T == {k \in Nat : k <= n => f[k] \in [Workspace -> Doc]}
<1> HIDE DEF n
<1>3. 0 \in T
  <2>1. f[0] = ds
    BY <1>1, <1>2
  <2> QED BY <2>1
<1>4. ASSUME NEW k \in Nat, k < n, k \in T
      PROVE  k + 1 \in T
  <2>1. k + 1 \in 0 .. n /\ k + 1 # 0 /\ (k + 1) - 1 = k /\ k + 1 \in 1 .. n
    BY <1>1, <1>4
  <2>2. f[k + 1] = Apply(mode, f[k], parts[k + 1])
    BY <1>2, <2>1
  <2>3. f[k] \in [Workspace -> Doc] /\ parts[k + 1] \in PartRecord
    BY <1>1, <1>4, <2>1
  <2>4. Apply(mode, f[k], parts[k + 1]) \in [Workspace -> Doc]
    BY <2>3, ApplyIs
  <2> QED BY <2>2, <2>4
<1>5. n \in T
  <2> HIDE DEF T
  <2> QED BY <1>1, <1>3, <1>4, Reaches
<1>6. f[n] \in [Workspace -> Doc]
  BY <1>1, <1>5
<1> QED BY <1>2, <1>6

(* A workspace that no part names keeps its document.                      *)
LEMMA ApplyAllOthers ==
  ASSUME NEW mode, NEW ds \in [Workspace -> Doc], NEW parts \in Seq(PartRecord),
         NEW w \in Workspace, \A k \in 1 .. Len(parts) : parts[k].workspace # w
  PROVE  ApplyAll(mode, ds, parts)[w] = ds[w]
<1> DEFINE n == Len(parts)
<1>1. n \in Nat /\ \A k \in 1 .. n : parts[k] \in PartRecord /\ parts[k].workspace # w
  OBVIOUS
<1>2. PICK f : /\ ApplyAll(mode, ds, parts) = f[n]
               /\ \A k \in 0 .. n : f[k] = IF k = 0 THEN ds ELSE Apply(mode, f[k - 1], parts[k])
  BY <1>1, ApplyAllIs
<1> DEFINE T == {k \in Nat : k <= n => f[k] \in [Workspace -> Doc] /\ f[k][w] = ds[w]}
<1> HIDE DEF n
<1>3. 0 \in T
  <2>1. f[0] = ds
    BY <1>1, <1>2
  <2> QED BY <2>1
<1>4. ASSUME NEW k \in Nat, k < n, k \in T
      PROVE  k + 1 \in T
  <2>1. k + 1 \in 0 .. n /\ k + 1 # 0 /\ (k + 1) - 1 = k /\ k + 1 \in 1 .. n
    BY <1>1, <1>4
  <2>2. f[k + 1] = Apply(mode, f[k], parts[k + 1])
    BY <1>2, <2>1
  <2> DEFINE p == parts[k + 1]
             cs == f[k]
  <2>3. cs \in [Workspace -> Doc] /\ cs[w] = ds[w] /\ p \in PartRecord /\ p.workspace # w
    BY <1>1, <1>4, <2>1
  <2> HIDE DEF p, cs
  <2>4. /\ Apply(mode, cs, p) \in [Workspace -> Doc]
        /\ \A v \in Workspace : Apply(mode, cs, p)[v] =
              IF v = p.workspace THEN Effect(mode, p.command, cs[v]) ELSE cs[v]
    BY <2>3, ApplyIs
  <2>5. f[k + 1] \in [Workspace -> Doc] /\ f[k + 1][w] = ds[w]
    BY <2>2, <2>3, <2>4 DEF p, cs
  <2> QED BY <2>5
<1>5. n \in T
  <2> HIDE DEF T
  <2> QED BY <1>1, <1>3, <1>4, Reaches
<1>6. f[n][w] = ds[w]
  BY <1>1, <1>5
<1> QED BY <1>2, <1>6

(* No part, one part, two parts.                                           *)
LEMMA ApplyAllFew ==
  ASSUME NEW mode, NEW ds, NEW parts, Len(parts) \in Nat
  PROVE  /\ Len(parts) = 0 => ApplyAll(mode, ds, parts) = ds
         /\ Len(parts) = 1 => ApplyAll(mode, ds, parts) = Apply(mode, ds, parts[1])
         /\ Len(parts) = 2 => ApplyAll(mode, ds, parts) = Apply(mode, Apply(mode, ds, parts[1]), parts[2])
<1> DEFINE n == Len(parts)
<1>1. PICK f : /\ ApplyAll(mode, ds, parts) = f[n]
               /\ \A k \in 0 .. n : f[k] = IF k = 0 THEN ds ELSE Apply(mode, f[k - 1], parts[k])
  BY ApplyAllIs
<1>2. f[0] = ds
  BY <1>1
<1>3. n >= 1 => f[1] = Apply(mode, f[0], parts[1])
  <2>1. ASSUME n >= 1 PROVE f[1] = Apply(mode, f[0], parts[1])
    <3>1. 1 \in 0 .. n /\ 1 # 0 /\ 1 - 1 = 0
      BY <2>1
    <3> QED BY <1>1, <3>1
  <2> QED BY <2>1
<1>4. n >= 2 => f[2] = Apply(mode, f[1], parts[2])
  <2>1. ASSUME n >= 2 PROVE f[2] = Apply(mode, f[1], parts[2])
    <3>1. 2 \in 0 .. n /\ 2 # 0 /\ 2 - 1 = 1
      BY <2>1
    <3> QED BY <1>1, <3>1
  <2> QED BY <2>1
<1> QED BY <1>1, <1>2, <1>3, <1>4

(* The parts backwards.                                                    *)
LEMMA ReverseIs ==
  ASSUME NEW S, NEW s \in Seq(S)
  PROVE  /\ Reverse(s) \in Seq(S) /\ Len(Reverse(s)) = Len(s)
         /\ \A k \in 1 .. Len(s) : Reverse(s)[k] = s[(Len(s) - k) + 1]
<1> DEFINE n == Len(s)
<1>1. n \in Nat /\ \A k \in 1 .. n : s[k] \in S
  OBVIOUS
<1>2. Reverse(s) = [k \in 1 .. n |-> s[(n - k) + 1]]
  BY DEF Reverse
<1> HIDE DEF n
<1>3. \A k \in 1 .. n : (n - k) + 1 \in 1 .. n
  BY <1>1
<1>4. [k \in 1 .. n |-> s[(n - k) + 1]] \in Seq(S) /\ Len([k \in 1 .. n |-> s[(n - k) + 1]]) = n
  BY <1>1, <1>3
<1>5. \A k \in 1 .. n : Reverse(s)[k] = s[(n - k) + 1]
  BY <1>2
<1> QED BY <1>2, <1>4, <1>5 DEF n

(* A set of numbers has a least one.                                       *)
LEMMA Least ==
  ASSUME NEW S \in SUBSET Nat, S # {}
  PROVE  Min(S) \in S /\ \A y \in S : Min(S) <= y
<1>1. PICK m \in S : \A y \in S : ~ (<<y, m>> \in OpToRel(<, Nat))
  BY NatLessThanWellFounded, WFMin
<1>2. \A y \in S : ~ (y < m)
  BY <1>1 DEF OpToRel
<1>3. \A y \in S : y \in Nat
  OBVIOUS
<1>4. \A y \in S : m <= y
  BY <1>2, <1>3
<1> QED BY <1>4 DEF Min

(* The parts that are applied are of workspaces that are there.            *)
LEMMA AppliedIs ==
  ASSUME NEW parts \in Seq(PartRecord)
  PROVE  /\ Applied(parts) \in Seq(PartRecord)
         /\ \A k \in 1 .. Len(Applied(parts)) : Applied(parts)[k].workspace \in available
<1> DEFINE gone == {k \in DOMAIN parts : parts[k].workspace \notin available}
           n == Len(parts)
           m == Min(gone)
<1>1. n \in Nat /\ DOMAIN parts = 1 .. n
  OBVIOUS
<1>2. CASE gone = {}
  <2>1. Applied(parts) = parts
    BY <1>2 DEF Applied
  <2>2. \A k \in 1 .. n : parts[k].workspace \in available
    BY <1>1, <1>2
  <2> QED BY <2>1, <2>2
<1>3. CASE gone # {}
  <2>1. gone \in SUBSET Nat
    BY <1>1
  <2>2. m \in gone /\ \A y \in gone : m <= y
    <3> HIDE DEF gone
    <3> QED BY <1>3, <2>1, Least
  <2>3. m \in 1 .. n
    BY <1>1, <2>2
  <2>4. Applied(parts) = SubSeq(parts, 1, m - 1)
    BY <1>3 DEF Applied
  <2> HIDE DEF m
  <2>5. \A k \in 1 .. (m - 1) : parts[k].workspace \in available
    <3> SUFFICES ASSUME NEW k \in 1 .. (m - 1), parts[k].workspace \notin available
                 PROVE  FALSE
      OBVIOUS
    <3>1. k \in gone
      BY <1>1, <2>3
    <3> HIDE DEF gone
    <3> QED BY <2>2, <2>3, <3>1
  <2> HIDE DEF gone
  <2> DEFINE s == SubSeq(parts, 1, m - 1)
  <2>6. s \in Seq(PartRecord) /\ Len(s) = m - 1 /\ \A k \in 1 .. (m - 1) : s[k] = parts[k]
    BY <1>1, <2>3
  <2> HIDE DEF s
  <2>7. \A k \in 1 .. Len(s) : s[k].workspace \in available
    BY <2>5, <2>6
  <2> QED BY <2>4, <2>6, <2>7 DEF s
<1> QED BY <1>2, <1>3

-----------------------------------------------------------------------------
(* The inductive invariant.                                                *)

(* The types, with what a command may hold.                                *)
TypeInv ==
  /\ docs \in [Workspace -> Doc]
  /\ available \subseteq Workspace /\ Project \in available
  /\ history \in Seq(Seq(PartRecord)) /\ Len(history) <= MaxDepth
  /\ historyIndex \in 0 .. Len(history)
  /\ timeline \in Seq([Workspace -> Doc]) /\ Len(timeline) = Len(history) + 1
  /\ edits \in 0 .. MaxEdits
  /\ unrecorded \in BOOLEAN /\ torn \in BOOLEAN

(* A workspace that is gone has no document.                               *)
GoneInv == \A w \in Workspace \ available : docs[w] = EmptyDoc

(* The parts of a composite action take a workspace's document from a to b *)
(* whatever the other workspaces hold.                                     *)
Leads(mode, parts, w, a, b) ==
  \A ds \in [Workspace -> Doc] : ds[w] = a => ApplyAll(mode, ds, parts)[w] = b

(* Each action leads from one document of the timeline to the next and     *)
(* back, and the documents are where the index says.                       *)
WalkInv == ~ unrecorded /\ ~ torn => \A w \in available :
  /\ docs[w] = timeline[historyIndex + 1][w]
  /\ \A k \in 1 .. Len(timeline) : Neat(timeline[k][w])
  /\ \A k \in 1 .. Len(history) :
       /\ Leads("redo", history[k], w, timeline[k][w], timeline[k + 1][w])
       /\ Leads("undo", Reverse(history[k]), w, timeline[k + 1][w], timeline[k][w])

(* All of it.                                                              *)
UndoInv == TypeInv /\ GoneInv /\ WalkInv

-----------------------------------------------------------------------------
(* Pushing an action.                                                      *)

(* What is kept of a sequence, with one element more, trimmed or not.      *)
LEMMA Pushed ==
  ASSUME NEW S, NEW h \in Seq(S), NEW n \in Nat, n <= Len(h), NEW x \in S
  PROVE  LET kept == SubSeq(h, 1, n) \o <<x>> IN
         /\ kept \in Seq(S) /\ Len(kept) = n + 1
         /\ \A k \in 1 .. n + 1 : kept[k] = IF k <= n THEN h[k] ELSE x
         /\ Tail(kept) \in Seq(S) /\ Len(Tail(kept)) = n
         /\ \A k \in 1 .. n : Tail(kept)[k] = IF k + 1 <= n THEN h[k + 1] ELSE x
<1> DEFINE u == SubSeq(h, 1, n)
           kept == u \o <<x>>
<1>0. Len(h) \in Nat
  OBVIOUS
<1>1. u \in Seq(S) /\ Len(u) = n /\ \A k \in 1 .. n : u[k] = h[k]
  BY <1>0
<1> HIDE DEF u
<1>2. kept = Append(u, x)
  BY <1>1
<1>3. kept \in Seq(S) /\ Len(kept) = n + 1 /\ kept # <<>>
  BY <1>1, <1>2
<1>4. ASSUME NEW k \in 1 .. n + 1
      PROVE  kept[k] = IF k <= n THEN h[k] ELSE x
  BY <1>1, <1>2
<1> HIDE DEF kept
<1>5. /\ Tail(kept) \in Seq(S) /\ Len(Tail(kept)) = n
      /\ \A k \in 1 .. n : Tail(kept)[k] = kept[k + 1]
  BY <1>3
<1>6. ASSUME NEW k \in 1 .. n
      PROVE  Tail(kept)[k] = IF k + 1 <= n THEN h[k + 1] ELSE x
  <2>1. k + 1 \in 1 .. n + 1
    OBVIOUS
  <2> QED BY <1>4, <1>5, <2>1
<1> QED BY <1>3, <1>4, <1>5, <1>6 DEF kept, u

(* The history and the timeline after a push: s actions are forgotten.     *)
PushedBy(parts, s) ==
  /\ history' \in Seq(Seq(PartRecord)) /\ Len(history') = historyIndex + 1 - s
  /\ Len(history') <= MaxDepth /\ historyIndex' = Len(history')
  /\ timeline' \in Seq([Workspace -> Doc]) /\ Len(timeline') = Len(history') + 1
  /\ \A k \in 1 .. Len(history') :
       history'[k] = IF k + s <= historyIndex THEN history[k + s] ELSE parts
  /\ \A k \in 1 .. Len(timeline') :
       timeline'[k] = IF k + s <= historyIndex + 1 THEN timeline[k + s] ELSE docs'

(* None or one.                                                            *)
LEMMA PushIs ==
  ASSUME TypeInv, docs' \in [Workspace -> Doc], NEW parts \in Seq(PartRecord), Push(parts)
  PROVE  PushedBy(parts, 0) \/ PushedBy(parts, 1)
<1> DEFINE n == historyIndex
           kept == SubSeq(history, 1, n) \o <<parts>>
           past == SubSeq(timeline, 1, n + 1) \o <<docs'>>
           over == Len(kept) > MaxDepth
<1>1. /\ history \in Seq(Seq(PartRecord)) /\ Len(history) <= MaxDepth /\ Len(history) \in Nat
      /\ n \in Nat /\ n <= Len(history) /\ n + 1 \in Nat
      /\ timeline \in Seq([Workspace -> Doc]) /\ Len(timeline) = Len(history) + 1
      /\ n + 1 <= Len(timeline) /\ MaxDepth \in Nat /\ MaxDepth # 0
  BY UndoAssumption DEF TypeInv
<1>2. /\ kept \in Seq(Seq(PartRecord)) /\ Len(kept) = n + 1
      /\ \A k \in 1 .. n + 1 : kept[k] = IF k <= n THEN history[k] ELSE parts
      /\ Tail(kept) \in Seq(Seq(PartRecord)) /\ Len(Tail(kept)) = n
      /\ \A k \in 1 .. n : Tail(kept)[k] = IF k + 1 <= n THEN history[k + 1] ELSE parts
  <2> HIDE DEF n
  <2> QED BY <1>1, Pushed
<1>3. /\ past \in Seq([Workspace -> Doc]) /\ Len(past) = (n + 1) + 1
      /\ \A k \in 1 .. (n + 1) + 1 : past[k] = IF k <= n + 1 THEN timeline[k] ELSE docs'
      /\ Tail(past) \in Seq([Workspace -> Doc]) /\ Len(Tail(past)) = n + 1
      /\ \A k \in 1 .. n + 1 : Tail(past)[k] = IF k + 1 <= n + 1 THEN timeline[k + 1] ELSE docs'
  <2> DEFINE m == n + 1
             S == [Workspace -> Doc]
             h == timeline
             x == docs'
  <2>1. m \in Nat /\ m <= Len(h) /\ h \in Seq(S) /\ x \in S
    BY <1>1
  <2> HIDE DEF m, S, h, x
  <2>2. LET q == SubSeq(h, 1, m) \o <<x>> IN
         /\ q \in Seq(S) /\ Len(q) = m + 1
         /\ \A k \in 1 .. m + 1 : q[k] = IF k <= m THEN h[k] ELSE x
         /\ Tail(q) \in Seq(S) /\ Len(Tail(q)) = m
         /\ \A k \in 1 .. m : Tail(q)[k] = IF k + 1 <= m THEN h[k + 1] ELSE x
    BY <2>1, Pushed
  <2> QED BY <2>2 DEF m, S, h, x
<1>4. /\ history' = IF over THEN Tail(kept) ELSE kept
      /\ timeline' = IF over THEN Tail(past) ELSE past
      /\ historyIndex' = Len(history')
  BY DEF Push
<1> HIDE DEF kept, past
<1>5. CASE over
  <2>1. history' = Tail(kept) /\ timeline' = Tail(past)
    BY <1>4, <1>5
  <2>2. Len(history') = n + 1 - 1 /\ Len(history') = n
    BY <1>1, <1>2, <2>1
  <2>3. PushedBy(parts, 1)
    BY <1>1, <1>2, <1>3, <1>4, <2>1, <2>2 DEF PushedBy
  <2> QED BY <2>3
<1>6. CASE ~ over
  <2>1. history' = kept /\ timeline' = past
    BY <1>4, <1>6
  <2>2. Len(history') = n + 1 - 0 /\ Len(history') = n + 1 /\ n + 1 <= MaxDepth
    BY <1>1, <1>2, <1>6, <2>1
  <2>3. \A k \in Nat : k + 0 = k
    OBVIOUS
  <2>4. \A k \in 1 .. Len(history') : history'[k] = IF k + 0 <= n THEN history[k + 0] ELSE parts
    BY <1>1, <1>2, <2>1, <2>2, <2>3
  <2>5. \A k \in 1 .. Len(timeline') : timeline'[k] = IF k + 0 <= n + 1 THEN timeline[k + 0] ELSE docs'
    BY <1>1, <1>3, <2>1, <2>3
  <2>6. PushedBy(parts, 0)
    BY <1>1, <1>2, <1>3, <1>4, <2>1, <2>2, <2>4, <2>5 DEF PushedBy
  <2> QED BY <2>6
<1> QED BY <1>5, <1>6

(* An edit's parts match it.                                               *)
Matches(parts, ds, es) ==
  \A w \in Workspace : Neat(ds[w]) =>
    /\ Neat(es[w])
    /\ Leads("redo", parts, w, ds[w], es[w])
    /\ Leads("undo", Reverse(parts), w, es[w], ds[w])

(* A step that edits and pushes keeps the invariant.                       *)
LEMMA PushKeeps ==
  ASSUME UndoInv, docs' \in [Workspace -> Doc], NEW parts \in Seq(PartRecord), Push(parts),
         available' = available, torn' = torn, unrecorded' \in BOOLEAN,
         edits' \in 0 .. MaxEdits,
         \A w \in Workspace \ available : docs'[w] = docs[w],
         unrecorded' \/ (unrecorded' = unrecorded /\ Matches(parts, docs, docs'))
  PROVE  UndoInv'
<1>1. TypeInv /\ GoneInv /\ WalkInv
  BY DEF UndoInv
<1>2. PICK s \in {0, 1} : PushedBy(parts, s)
  BY <1>1, PushIs
<1>3. /\ history' \in Seq(Seq(PartRecord)) /\ Len(history') = historyIndex + 1 - s
      /\ Len(history') <= MaxDepth /\ historyIndex' = Len(history')
      /\ timeline' \in Seq([Workspace -> Doc]) /\ Len(timeline') = Len(history') + 1
      /\ \A k \in 1 .. Len(history') :
           history'[k] = IF k + s <= historyIndex THEN history[k + s] ELSE parts
      /\ \A k \in 1 .. Len(timeline') :
           timeline'[k] = IF k + s <= historyIndex + 1 THEN timeline[k + s] ELSE docs'
  BY <1>2 DEF PushedBy
<1>4. Len(history') \in Nat /\ historyIndex \in Nat /\ historyIndex <= Len(history)
  BY <1>1, <1>3 DEF TypeInv
<1>5. TypeInv'
  <2>1. historyIndex' \in 0 .. Len(history')
    BY <1>3, <1>4
  <2> QED BY <1>1, <1>3, <2>1 DEF TypeInv
<1>6. GoneInv'
  BY <1>1 DEF GoneInv
<1>7. WalkInv'
  <2> SUFFICES ASSUME ~ unrecorded', ~ torn', NEW w \in available'
               PROVE  /\ docs'[w] = timeline'[historyIndex' + 1][w]
                      /\ \A k \in 1 .. Len(timeline') : Neat(timeline'[k][w])
                      /\ \A k \in 1 .. Len(history') :
                           /\ Leads("redo", history'[k], w, timeline'[k][w], timeline'[k + 1][w])
                           /\ Leads("undo", Reverse(history'[k]), w, timeline'[k + 1][w], timeline'[k][w])
    BY DEF WalkInv
  <2>1. /\ docs[w] = timeline[historyIndex + 1][w]
        /\ \A k \in 1 .. Len(timeline) : Neat(timeline[k][w])
        /\ \A k \in 1 .. Len(history) :
             /\ Leads("redo", history[k], w, timeline[k][w], timeline[k + 1][w])
             /\ Leads("undo", Reverse(history[k]), w, timeline[k + 1][w], timeline[k][w])
    BY <1>1 DEF WalkInv
  <2>2. w \in Workspace /\ Len(timeline) = Len(history) + 1
    BY <1>1 DEF TypeInv
  <2>3. Neat(docs[w])
    <3>1. historyIndex + 1 \in 1 .. Len(timeline)
      BY <1>1 DEF TypeInv
    <3> QED BY <2>1, <3>1
  <2>4. /\ Neat(docs'[w])
        /\ Leads("redo", parts, w, docs[w], docs'[w])
        /\ Leads("undo", Reverse(parts), w, docs'[w], docs[w])
    BY <2>2, <2>3 DEF Matches
  <2>5. docs'[w] = timeline'[historyIndex' + 1][w]
    <3>1. historyIndex' + 1 \in 1 .. Len(timeline')
      BY <1>3, <1>4
    <3>2. ~ ((historyIndex' + 1) + s <= historyIndex + 1)
      BY <1>3, <1>4
    <3>3. timeline'[historyIndex' + 1] = docs'
      BY <1>3, <3>1, <3>2
    <3> QED BY <3>3
  <2>6. ASSUME NEW k \in 1 .. Len(timeline')
        PROVE  Neat(timeline'[k][w])
    <3>1. CASE k + s <= historyIndex + 1
      <4>1. k + s \in 1 .. Len(timeline)
        BY <1>4, <2>2, <3>1
      <4> QED BY <1>3, <2>1, <3>1, <4>1
    <3>2. CASE ~ (k + s <= historyIndex + 1)
      BY <1>3, <2>4, <3>2
    <3> QED BY <3>1, <3>2
  <2>7. ASSUME NEW k \in 1 .. Len(history')
        PROVE  /\ Leads("redo", history'[k], w, timeline'[k][w], timeline'[k + 1][w])
               /\ Leads("undo", Reverse(history'[k]), w, timeline'[k + 1][w], timeline'[k][w])
    <3>0. k \in 1 .. Len(timeline') /\ k + 1 \in 1 .. Len(timeline') /\ (k + 1) + s = (k + s) + 1
      BY <1>3, <1>4
    <3>1. CASE k + s <= historyIndex
      <4>1. k + s \in 1 .. Len(history) /\ k + s <= historyIndex + 1 /\ (k + 1) + s <= historyIndex + 1
        BY <1>4, <3>1
      <4>2. history'[k] = history[k + s] /\ timeline'[k] = timeline[k + s]
        BY <1>3, <3>0, <3>1, <4>1
      <4>3. timeline'[k + 1] = timeline[(k + s) + 1]
        BY <1>3, <3>0, <4>1
      <4> QED BY <2>1, <4>1, <4>2, <4>3
    <3>2. CASE ~ (k + s <= historyIndex)
      <4>1. k + s = historyIndex + 1 /\ k + s <= historyIndex + 1 /\ ~ ((k + 1) + s <= historyIndex + 1)
        BY <1>3, <1>4, <3>2
      <4>2. history'[k] = parts /\ timeline'[k] = timeline[historyIndex + 1]
        BY <1>3, <3>0, <3>2, <4>1
      <4>3. timeline'[k + 1] = docs'
        BY <1>3, <3>0, <4>1
      <4> QED BY <2>1, <2>4, <4>2, <4>3
    <3> QED BY <3>1, <3>2
  <2> QED BY <2>5, <2>6, <2>7
<1> QED BY <1>5, <1>6, <1>7 DEF UndoInv

-----------------------------------------------------------------------------
(* Parts that match their edit.                                            *)

(* What a part does to the document of a workspace.                        *)
Did(mode, part, w, d) ==
  IF w = part.workspace THEN Effect(mode, part.command, d) ELSE d

(* Applied, it does that to each.                                          *)
LEMMA ApplyDid ==
  ASSUME NEW mode, NEW part \in PartRecord, NEW ds \in [Workspace -> Doc]
  PROVE  /\ Apply(mode, ds, part) \in [Workspace -> Doc]
         /\ \A w \in Workspace : Apply(mode, ds, part)[w] = Did(mode, part, w, ds[w])
<1>1. /\ Apply(mode, ds, part) \in [Workspace -> Doc]
      /\ \A w \in Workspace : Apply(mode, ds, part)[w] =
              IF w = part.workspace THEN Effect(mode, part.command, ds[w]) ELSE ds[w]
  BY ApplyIs
<1> QED BY <1>1 DEF Did

(* One part, or two, one after the other.                                  *)
LEMMA FewDid ==
  ASSUME NEW mode, NEW parts, NEW ds \in [Workspace -> Doc], NEW w \in Workspace
  PROVE  /\ \A a \in PartRecord : Len(parts) = 1 /\ parts[1] = a =>
              ApplyAll(mode, ds, parts)[w] = Did(mode, a, w, ds[w])
         /\ \A a, b \in PartRecord : Len(parts) = 2 /\ parts[1] = a /\ parts[2] = b =>
              ApplyAll(mode, ds, parts)[w] = Did(mode, b, w, Did(mode, a, w, ds[w]))
<1>1. ASSUME NEW a \in PartRecord, Len(parts) = 1, parts[1] = a
      PROVE  ApplyAll(mode, ds, parts)[w] = Did(mode, a, w, ds[w])
  <2>1. ApplyAll(mode, ds, parts) = Apply(mode, ds, a)
    BY <1>1, ApplyAllFew
  <2> QED BY <2>1, ApplyDid
<1>2. ASSUME NEW a \in PartRecord, NEW b \in PartRecord, Len(parts) = 2, parts[1] = a, parts[2] = b
      PROVE  ApplyAll(mode, ds, parts)[w] = Did(mode, b, w, Did(mode, a, w, ds[w]))
  <2> DEFINE ms == Apply(mode, ds, a)
  <2>1. ApplyAll(mode, ds, parts) = Apply(mode, ms, b)
    BY <1>2, ApplyAllFew
  <2>2. ms \in [Workspace -> Doc] /\ ms[w] = Did(mode, a, w, ds[w])
    BY ApplyDid
  <2> HIDE DEF ms
  <2>3. Apply(mode, ms, b)[w] = Did(mode, b, w, ms[w])
    BY <2>2, ApplyDid
  <2> QED BY <2>1, <2>2, <2>3
<1> QED BY <1>1, <1>2

(* One part's edit: it takes each workspace there, and back.               *)
Edits(a, ds, es) ==
  \A w \in Workspace : Neat(ds[w]) =>
    /\ Neat(es[w])
    /\ Did("redo", a, w, ds[w]) = es[w]
    /\ Did("undo", a, w, es[w]) = ds[w]

(* Its part matches it.                                                    *)
LEMMA OnePart ==
  ASSUME NEW a \in PartRecord, NEW ds, NEW es, Edits(a, ds, es)
  PROVE  <<a>> \in Seq(PartRecord) /\ Matches(<<a>>, ds, es)
<1> DEFINE l == <<a>>
           rev == Reverse(l)
<1>1. l \in Seq(PartRecord) /\ Len(l) = 1 /\ l[1] = a
  OBVIOUS
<1> HIDE DEF l
<1>2. Len(rev) = 1 /\ rev[1] = a
  <2>1. Len(rev) = Len(l) /\ \A k \in 1 .. Len(l) : rev[k] = l[(Len(l) - k) + 1]
    BY <1>1, ReverseIs
  <2> QED BY <1>1, <2>1
<1> HIDE DEF rev
<1>3. ASSUME NEW w \in Workspace, Neat(ds[w])
      PROVE  /\ Neat(es[w])
             /\ Leads("redo", l, w, ds[w], es[w])
             /\ Leads("undo", rev, w, es[w], ds[w])
  <2>1. /\ Neat(es[w])
        /\ Did("redo", a, w, ds[w]) = es[w]
        /\ Did("undo", a, w, es[w]) = ds[w]
    BY <1>3 DEF Edits
  <2>2. ASSUME NEW cs \in [Workspace -> Doc]
        PROVE  /\ ApplyAll("redo", cs, l)[w] = Did("redo", a, w, cs[w])
               /\ ApplyAll("undo", cs, rev)[w] = Did("undo", a, w, cs[w])
    BY <1>1, <1>2, FewDid
  <2>3. Leads("redo", l, w, ds[w], es[w])
    BY <2>1, <2>2 DEF Leads
  <2>4. Leads("undo", rev, w, es[w], ds[w])
    BY <2>1, <2>2 DEF Leads
  <2> QED BY <2>1, <2>3, <2>4
<1> QED BY <1>1, <1>3 DEF Matches, l, rev

(* Two parts' edit: they take each workspace there, and back.              *)
EditBoth(a, b, ds, es) ==
  \A w \in Workspace : Neat(ds[w]) =>
    /\ Neat(es[w])
    /\ Did("redo", b, w, Did("redo", a, w, ds[w])) = es[w]
    /\ Did("undo", a, w, Did("undo", b, w, es[w])) = ds[w]

(* Its parts match it.                                                     *)
LEMMA TwoParts ==
  ASSUME NEW a \in PartRecord, NEW b \in PartRecord, NEW ds, NEW es, EditBoth(a, b, ds, es)
  PROVE  <<a, b>> \in Seq(PartRecord) /\ Matches(<<a, b>>, ds, es)
<1> DEFINE l == <<a, b>>
           rev == Reverse(l)
<1>1. l \in Seq(PartRecord) /\ Len(l) = 2 /\ l[1] = a /\ l[2] = b
  OBVIOUS
<1> HIDE DEF l
<1>2. Len(rev) = 2 /\ rev[1] = b /\ rev[2] = a
  <2>1. Len(rev) = Len(l) /\ \A k \in 1 .. Len(l) : rev[k] = l[(Len(l) - k) + 1]
    BY <1>1, ReverseIs
  <2> QED BY <1>1, <2>1
<1> HIDE DEF rev
<1>3. ASSUME NEW w \in Workspace, Neat(ds[w])
      PROVE  /\ Neat(es[w])
             /\ Leads("redo", l, w, ds[w], es[w])
             /\ Leads("undo", rev, w, es[w], ds[w])
  <2>1. /\ Neat(es[w])
        /\ Did("redo", b, w, Did("redo", a, w, ds[w])) = es[w]
        /\ Did("undo", a, w, Did("undo", b, w, es[w])) = ds[w]
    BY <1>3 DEF EditBoth
  <2>2. ASSUME NEW cs \in [Workspace -> Doc]
        PROVE  /\ ApplyAll("redo", cs, l)[w] = Did("redo", b, w, Did("redo", a, w, cs[w]))
               /\ ApplyAll("undo", cs, rev)[w] = Did("undo", a, w, Did("undo", b, w, cs[w]))
    BY <1>1, <1>2, FewDid
  <2>3. Leads("redo", l, w, ds[w], es[w])
    BY <2>1, <2>2 DEF Leads
  <2>4. Leads("undo", rev, w, es[w], ds[w])
    BY <2>1, <2>2 DEF Leads
  <2> QED BY <2>1, <2>3, <2>4
<1> QED BY <1>1, <1>3 DEF Matches, l, rev

(* A part's record.                                                        *)
LEMMA PartIs ==
  ASSUME NEW w \in Workspace, NEW type \in {"add", "addRoot", "remove", "group", "ungroup"},
         NEW s \in Seq(Position), \A k \in 1 .. Len(s) : Fits(s[k]),
         type \in {"group", "ungroup"} => Len(s) = 1 /\ s[1].item \in Group
  PROVE  /\ Part(w, type, s) \in PartRecord
         /\ Part(w, type, s).workspace = w
         /\ Part(w, type, s).command \in Command
         /\ Part(w, type, s).command.type = type
         /\ Part(w, type, s).command.positions = s
<1> DEFINE c == [type |-> type, positions |-> s]
<1>1. type \in {"group", "ungroup"} => s[1] \in Position /\ Fits(s[1])
  OBVIOUS
<1>2. c.type = type /\ c.positions = s
      /\ c \in [type : {"add", "addRoot", "remove", "group", "ungroup"}, positions : Seq(Position)]
  OBVIOUS
<1> HIDE DEF c
<1>3. c \in Command
  BY <1>1, <1>2 DEF Command
<1>4. Part(w, type, s) = [workspace |-> w, command |-> c]
  BY DEF Part, c
<1> QED BY <1>2, <1>3, <1>4 DEF PartRecord

(* An edit of one workspace that pushes one part keeps the invariant.      *)
LEMMA OneEdit ==
  ASSUME UndoInv, edits' \in 0 .. MaxEdits, NEW w \in available, NEW a \in PartRecord,
         a.workspace = w, NEW e \in Doc, docs' = [docs EXCEPT ![w] = e], Push(<<a>>),
         available' = available, torn' = torn, unrecorded' \in BOOLEAN,
         \/ unrecorded'
         \/ /\ unrecorded' = unrecorded
            /\ Neat(docs[w]) => /\ Neat(e) /\ Execute(a.command, docs[w]) = e
                                /\ UndoCommand(a.command, e) = docs[w]
  PROVE  UndoInv'
<1>1. docs \in [Workspace -> Doc] /\ w \in Workspace
  BY DEF UndoInv, TypeInv
<1>2. docs' \in [Workspace -> Doc] /\ docs'[w] = e /\ \A v \in Workspace \ {w} : docs'[v] = docs[v]
  BY <1>1
<1>3. \A v \in Workspace \ available : docs'[v] = docs[v]
  BY <1>2
<1>4. <<a>> \in Seq(PartRecord)
  OBVIOUS
<1>5. CASE unrecorded'
  BY <1>2, <1>3, <1>4, <1>5, PushKeeps
<1>6. CASE /\ unrecorded' = unrecorded
           /\ Neat(docs[w]) => /\ Neat(e) /\ Execute(a.command, docs[w]) = e
                               /\ UndoCommand(a.command, e) = docs[w]
  <2>1. ASSUME NEW v \in Workspace, Neat(docs[v])
        PROVE  /\ Neat(docs'[v])
               /\ Did("redo", a, v, docs[v]) = docs'[v]
               /\ Did("undo", a, v, docs'[v]) = docs[v]
    <3>1. CASE v = w
      BY <1>2, <1>6, <2>1, <3>1 DEF Did, Effect
    <3>2. CASE v # w
      BY <1>2, <2>1, <3>2 DEF Did
    <3> QED BY <3>1, <3>2
  <2>2. Edits(a, docs, docs')
    BY <2>1 DEF Edits
  <2>3. Matches(<<a>>, docs, docs')
    BY <2>2, OnePart
  <2> QED BY <1>2, <1>3, <1>4, <1>6, <2>3, PushKeeps
<1> QED BY <1>5, <1>6

-----------------------------------------------------------------------------
(* A new item.                                                             *)

(* No document holds it.                                                   *)
LEMMA FreshIs ==
  ASSUME NEW x \in Fresh
  PROVE  x \in Item /\ \A w \in Workspace : x \notin ItemsOf(docs[w])
BY DEF Fresh, Used

(* A new track's position, in a document and out of it again.              *)
LEMMA TrackLands ==
  ASSUME NEW d \in Doc, NEW t \in Track, t \notin ItemsOf(d), NEW q \in Parents(d), NEW i \in Nat
  PROVE  LET p == At(d, t, q, i) IN
         /\ p \in Position /\ Fits(p) /\ p.item = t /\ p.parent = q /\ p.index = i
         /\ q \in Group \cup {Root}
         /\ InsertItem(d, p) \in Doc
         /\ RemoveIds(InsertItem(d, p), {t}) = d
         /\ Neat(d) => Neat(InsertItem(d, p))
<1> DEFINE p == At(d, t, q, i)
<1>1. t \in Item /\ t \notin Group /\ q \in Group \cup {Root} /\ (q # Root => q \in ToSet(d.root))
  BY ItemsDiffer DEF Parents
<1>2. p \in Position /\ p.item = t /\ p.parent = q /\ p.index = i
  BY <1>1, AtIs
<1> HIDE DEF p
<1>3. Fits(p)
  BY <1>2 DEF Fits
<1>4. Lands(d, p)
  BY <1>1, <1>2, <1>3 DEF Lands
<1>5. InsertItem(d, p) \in Doc
  BY <1>4, LandedItems
<1>6. RemoveIds(InsertItem(d, p), {t}) = d
  BY <1>2, <1>4, LandedRemoved
<1>7. Neat(d) => Neat(InsertItem(d, p))
  BY <1>4, LandedNeat
<1> QED BY <1>1, <1>2, <1>3, <1>5, <1>6, <1>7 DEF p

(* One position has one item.                                              *)
LEMMA OneId ==
  ASSUME NEW p \in Position
  PROVE  /\ <<p>> \in Seq(Position) /\ Len(<<p>>) = 1 /\ <<p>>[1] = p
         /\ Ids(<<p>>) = {p.item}
<1> DEFINE s == <<p>>
<1>1. s \in Seq(Position) /\ Len(s) = 1 /\ s[1] = p /\ DOMAIN s = {1}
  OBVIOUS
<1> HIDE DEF s
<1>2. Ids(s) = {p.item}
  BY <1>1 DEF Ids
<1> QED BY <1>1, <1>2 DEF s

(* The commands that put it there.                                         *)
LEMMA AddUndone ==
  ASSUME NEW d \in Doc, NEW t \in Track, t \notin ItemsOf(d), NEW q \in Parents(d), NEW i \in Nat,
         NEW c, c.type = "add" \/ (c.type = "addRoot" /\ q = Root),
         c.positions = <<At(d, t, q, i)>>
  PROVE  /\ Execute(c, d) = InsertItem(d, At(d, t, q, i))
         /\ UndoCommand(c, InsertItem(d, At(d, t, q, i))) = d
<1> DEFINE p == At(d, t, q, i)
           e == InsertItem(d, p)
<1>1. /\ p \in Position /\ Fits(p) /\ p.item = t /\ p.parent = q /\ p.index = i
      /\ e \in Doc /\ RemoveIds(e, {t}) = d
  BY TrackLands
<1>2. c.positions = <<p>>
  OBVIOUS
<1> HIDE DEF p, e
<1>3. Execute(c, d) = InsertAll(d, c.positions)
  BY DEF Execute
<1>4. InsertAll(d, <<p>>) = e
  BY <1>1, InsertAllOne DEF e
<1>5. Ids(c.positions) = {t}
  BY <1>1, <1>2, OneId
<1>6. CASE c.type = "add"
  <2>1. UndoCommand(c, e) = RemoveIds(e, Ids(c.positions))
    BY <1>6 DEF UndoCommand
  <2> QED BY <1>1, <1>2, <1>3, <1>4, <1>5, <2>1 DEF p, e
<1>7. CASE c.type = "addRoot" /\ q = Root
  <2> DEFINE r == Without(e.root, {t})
             f == [e EXCEPT !.root = r]
  <2>1. UndoCommand(c, e) = f
    BY <1>5, <1>7 DEF UndoCommand
  <2>2. /\ e.root = Splice(d.root, i, <<t>>)
        /\ \A g \in Group : e.inner[g] = IF g = t THEN p.tracks ELSE d.inner[g]
    BY <1>1, <1>7, InsertItemIs DEF e
  <2>3. t \in Item /\ t \notin Group /\ t \notin ToSet(d.root) /\ d.root \in Seq(Item)
    BY ItemsDiffer, ItemsAre, DocIs
  <2>4. r = d.root
    BY <2>2, <2>3, SpliceItem
  <2>5. \A g \in Group : e.inner[g] = d.inner[g]
    BY <2>2, <2>3
  <2> HIDE DEF r
  <2>6. f \in Doc /\ f.root = d.root /\ f.inner = e.inner
    BY <1>1, <2>3, <2>4 DEF Doc
  <2> HIDE DEF f
  <2>7. f = d
    BY <2>5, <2>6, DocIs
  <2> QED BY <1>1, <1>2, <1>3, <1>4, <2>1, <2>7 DEF p, e
<1> QED BY <1>6, <1>7

(* addItem, addItems and addItemsToGroup keep the invariant.               *)
LEMMA AddItemKeeps ==
  ASSUME UndoInv, edits' \in 0 .. MaxEdits, NEW w \in Workspace, NEW t \in Track,
         NEW parent \in Group \cup {Root}, NEW i \in Nat, AddItem(w, t, parent, i)
  PROVE  UndoInv'
<1> DEFINE d == docs[w]
           p == At(d, t, parent, i)
           type == IF parent = Root THEN "addRoot" ELSE "add"
           a == Part(w, type, <<p>>)
           e == InsertItem(d, p)
<1>1. /\ docs \in [Workspace -> Doc] /\ unrecorded \in BOOLEAN
  BY DEF UndoInv, TypeInv
<1>2. /\ w \in available /\ t \in Fresh /\ parent \in Parents(d)
      /\ docs' = [docs EXCEPT ![w] = e] /\ Push(<<a>>)
      /\ available' = available /\ torn' = torn /\ unrecorded' = unrecorded
  BY DEF AddItem
<1>3. d \in Doc /\ t \notin ItemsOf(d)
  BY <1>1, <1>2, FreshIs
<1> HIDE DEF d
<1>4. /\ p \in Position /\ Fits(p) /\ p.item = t /\ p.parent = parent
      /\ e \in Doc /\ (Neat(d) => Neat(e))
  <2>1. parent \in Parents(d) /\ d \in Doc /\ t \notin ItemsOf(d)
    BY <1>2, <1>3
  <2>2. LET r == At(d, t, parent, i) IN
         /\ r \in Position /\ Fits(r) /\ r.item = t /\ r.parent = parent /\ r.index = i
         /\ parent \in Group \cup {Root}
         /\ InsertItem(d, r) \in Doc
         /\ RemoveIds(InsertItem(d, r), {t}) = d
         /\ Neat(d) => Neat(InsertItem(d, r))
    BY <2>1, TrackLands
  <2> QED BY <2>2
<1>5. /\ a \in PartRecord /\ a.workspace = w
      /\ a.command.type = type /\ a.command.positions = <<p>>
  <2>1. <<p>> \in Seq(Position) /\ Len(<<p>>) = 1 /\ <<p>>[1] = p
    BY <1>4, OneId
  <2> DEFINE s == <<p>>
  <2>2. s \in Seq(Position) /\ \A k \in 1 .. Len(s) : Fits(s[k])
    BY <1>4, <2>1
  <2>3. type \in {"add", "addRoot"}
    OBVIOUS
  <2> HIDE DEF s, type
  <2>4. /\ Part(w, type, s) \in PartRecord
        /\ Part(w, type, s).workspace = w
        /\ Part(w, type, s).command.type = type
        /\ Part(w, type, s).command.positions = s
    BY <2>2, <2>3, PartIs
  <2> QED BY <2>4 DEF s
<1>6. /\ Execute(a.command, d) = e
      /\ UndoCommand(a.command, e) = d
  <2> DEFINE c == a.command
  <2>1. c.type = "add" \/ (c.type = "addRoot" /\ parent = Root)
    BY <1>5
  <2>2. c.positions = <<At(d, t, parent, i)>>
    BY <1>5
  <2> HIDE DEF c
  <2>3. /\ Execute(c, d) = InsertItem(d, At(d, t, parent, i))
        /\ UndoCommand(c, InsertItem(d, At(d, t, parent, i))) = d
    BY <1>2, <1>3, <2>1, <2>2, AddUndone
  <2> QED BY <2>3 DEF c
<1>7. docs' = [docs EXCEPT ![w] = e] /\ Push(<<a>>)
  BY <1>2
<1>8. Neat(docs[w]) => /\ Neat(e) /\ Execute(a.command, docs[w]) = e
                       /\ UndoCommand(a.command, e) = docs[w]
  BY <1>4, <1>6 DEF d
<1> HIDE DEF a, e, p, type
<1> QED BY <1>1, <1>2, <1>4, <1>5, <1>7, <1>8, OneEdit

-----------------------------------------------------------------------------
(* Items that are removed.                                                 *)

(* A selection.                                                            *)
LEMMA SelectionIs ==
  ASSUME NEW w, NEW sel \in Selections(w)
  PROVE  \E n \in Nat : /\ n >= 1 /\ sel \in [1 .. n -> ItemsOf(docs[w])] /\ IsInjective(sel)
                        /\ DOMAIN sel = 1 .. n
<1>1. PICK n \in 1 .. MaxSelected : sel \in {s \in [1 .. n -> ItemsOf(docs[w])] : IsInjective(s)}
  BY DEF Selections
<1>2. n \in Nat /\ n >= 1
  BY UndoAssumption
<1>3. sel \in [1 .. n -> ItemsOf(docs[w])] /\ IsInjective(sel)
  BY <1>1
<1>4. DOMAIN sel = 1 .. n
  BY <1>3
<1> QED BY <1>2, <1>3, <1>4

(* Where its items are, one at a time.                                     *)
LEMMA FoundPositions ==
  ASSUME NEW d \in Doc, NEW n \in Nat, NEW sel \in [1 .. n -> ItemsOf(d)],
         NEW s, s = [k \in 1 .. n |-> Where(d, sel[k])]
  PROVE  s \in Seq(Position) /\ Len(s) = n /\ \A k \in 1 .. Len(s) : Fits(s[k])
<1>1. ASSUME NEW k \in 1 .. n
      PROVE  s[k] \in Position /\ Fits(s[k])
  <2>1. sel[k] \in ItemsOf(d) /\ s[k] = Where(d, sel[k])
    OBVIOUS
  <2> QED BY <2>1, WhereIs
<1>2. s \in [1 .. n -> Position]
  BY <1>1
<1>3. s \in Seq(Position) /\ Len(s) = n
  BY <1>2
<1> QED BY <1>1, <1>3

(* The command that removes them puts them back.                           *)
LEMMA RemoveUndone ==
  ASSUME NEW d \in Doc, Neat(d), NEW n \in Nat, NEW sel \in [1 .. n -> ItemsOf(d)],
         IsInjective(sel), NEW s, s = [k \in 1 .. n |-> Where(d, sel[k])],
         \A k \in 1 .. n : s[k].parent \notin ToSet(sel),
         NEW c, c.type = "remove", c.positions = s
  PROVE  LET e == RemoveIds(d, ToSet(sel)) IN
         e \in Doc /\ Neat(e) /\ Execute(c, d) = e /\ UndoCommand(c, e) = d
<1> DEFINE e == RemoveIds(d, ToSet(sel))
<1>1. Ids(s) = ToSet(sel) /\ InsertAll(RemoveIds(d, ToSet(sel)), s) = d
  BY Restore
<1>2. Execute(c, d) = RemoveIds(d, Ids(s))
  BY DEF Execute
<1>3. UndoCommand(c, e) = InsertAll(e, s)
  BY DEF UndoCommand
<1>4. e \in Doc /\ Neat(e)
  BY RemoveIdsIs, RemoveIdsNeat
<1> QED BY <1>1, <1>2, <1>3, <1>4

(* removeItemsWithHistory and the project's removeItem keep the invariant. *)
LEMMA RemoveItemsKeeps ==
  ASSUME UndoInv, edits' \in 0 .. MaxEdits, NEW w \in Workspace, NEW sel \in Selections(w),
         RemoveItems(w, sel)
  PROVE  UndoInv'
<1> DEFINE d == docs[w]
           s == [k \in DOMAIN sel |-> Where(d, sel[k])]
           a == Part(w, "remove", s)
           e == RemoveIds(d, ToSet(sel))
<1>1. /\ docs \in [Workspace -> Doc] /\ unrecorded \in BOOLEAN
  BY DEF UndoInv, TypeInv
<1>2. /\ w \in available
      /\ \A k \in DOMAIN s : s[k].parent \notin ToSet(sel)
      /\ docs' = [docs EXCEPT ![w] = e] /\ Push(<<a>>)
      /\ available' = available /\ torn' = torn /\ unrecorded' = unrecorded
  BY DEF RemoveItems
<1>3. PICK n \in Nat : /\ n >= 1 /\ sel \in [1 .. n -> ItemsOf(d)] /\ IsInjective(sel)
                       /\ DOMAIN sel = 1 .. n
  BY SelectionIs
<1>4. d \in Doc
  BY <1>1
<1> HIDE DEF d
<1>5. s = [k \in 1 .. n |-> Where(d, sel[k])]
  BY <1>3
<1>6. \A k \in 1 .. n : s[k].parent \notin ToSet(sel)
  BY <1>2, <1>3
<1>7. s \in Seq(Position) /\ Len(s) = n /\ \A k \in 1 .. Len(s) : Fits(s[k])
  <2> HIDE DEF s
  <2> QED BY <1>3, <1>4, <1>5, FoundPositions
<1>8. /\ a \in PartRecord /\ a.workspace = w
      /\ a.command.type = "remove" /\ a.command.positions = s
  <2> HIDE DEF s
  <2> QED BY <1>7, PartIs
<1>9. e \in Doc
  BY <1>4, RemoveIdsIs
<1>10. Neat(d) => /\ Neat(e) /\ Execute(a.command, d) = e
                  /\ UndoCommand(a.command, e) = d
  <2> DEFINE c == a.command
  <2> HIDE DEF s
  <2>1. c.type = "remove" /\ c.positions = s
    BY <1>8
  <2> HIDE DEF c
  <2>2. ASSUME Neat(d)
        PROVE  LET f == RemoveIds(d, ToSet(sel)) IN
               f \in Doc /\ Neat(f) /\ Execute(c, d) = f /\ UndoCommand(c, f) = d
    BY <1>3, <1>4, <1>5, <1>6, <2>1, <2>2, RemoveUndone
  <2> QED BY <2>2 DEF c
<1>11. docs' = [docs EXCEPT ![w] = e] /\ Push(<<a>>)
  BY <1>2
<1>12. Neat(docs[w]) => /\ Neat(e) /\ Execute(a.command, docs[w]) = e
                        /\ UndoCommand(a.command, e) = docs[w]
  BY <1>10 DEF d
<1> HIDE DEF a, e, s
<1> QED BY <1>1, <1>2, <1>8, <1>9, <1>11, <1>12, OneEdit

-----------------------------------------------------------------------------
(* Items that are removed as they were selected.                           *)

(* Positions in the root, with the indices sorted on their own.            *)
LEMMA SortedOnTheirOwn ==
  ASSUME NEW f \in Seq(Position), \A k \in 1 .. Len(f) : f[k].parent = Root,
         NEW s, s = [k \in 1 .. Len(f) |-> [f[k] EXCEPT !.index = ByIndex(f)[k].index]]
  PROVE  s \in Seq(Position) /\ Len(s) = Len(f) /\ \A k \in 1 .. Len(s) : Fits(s[k])
<1> DEFINE n == Len(f)
<1>1. n \in Nat /\ \A k \in 1 .. n : f[k] \in Position /\ f[k].parent = Root
  BY PositionsAre
<1>2. ASSUME NEW k \in 1 .. n
      PROVE  ByIndex(f)[k].index \in Nat
  <2>1. Nth(f, k) \in 1 .. n /\ ByIndex(f)[k] = f[Nth(f, k)]
    BY Sorted
  <2>2. f[Nth(f, k)].index \in Nat
    BY <2>1, PositionsAre
  <2> QED BY <2>1, <2>2
<1>3. s = [k \in 1 .. n |-> [f[k] EXCEPT !.index = ByIndex(f)[k].index]]
  OBVIOUS
<1> HIDE DEF n
<1>4. ASSUME NEW k \in 1 .. n
      PROVE  s[k] \in Position /\ s[k].parent = Root
  <2> DEFINE i == ByIndex(f)[k].index
             p == f[k]
  <2>1. i \in Nat /\ p \in Position /\ p.parent = Root
    BY <1>1, <1>2
  <2>2. s[k] = [p EXCEPT !.index = i]
    BY <1>3
  <2> HIDE DEF i, p
  <2> QED BY <2>1, <2>2 DEF Position
<1>5. s \in [1 .. n -> Position]
  BY <1>3, <1>4
<1>6. s \in Seq(Position) /\ Len(s) = n
  BY <1>1, <1>5
<1>7. \A k \in 1 .. n : Fits(s[k])
  BY <1>4 DEF Fits
<1> QED BY <1>6, <1>7 DEF n

(* removeSelectedItems keeps the invariant.                                *)
LEMMA RemoveSelectedKeeps ==
  ASSUME UndoInv, edits' \in 0 .. MaxEdits, NEW w \in Workspace, NEW sel \in Selections(w),
         RemoveSelectedItems(w, sel)
  PROVE  UndoInv'
<1> DEFINE d == docs[w]
           r == Without(sel, Item \ ToSet(d.root))
           f == [k \in DOMAIN r |-> At(d, r[k], Root, IndexIn(d.root, r[k]))]
           s == [k \in DOMAIN r |-> [f[k] EXCEPT !.index = ByIndex(f)[k].index]]
           exact == r = sel /\ s = f
           a == Part(w, "remove", s)
           e == RemoveIds(d, ToSet(sel))
<1>1. /\ docs \in [Workspace -> Doc] /\ unrecorded \in BOOLEAN
  BY DEF UndoInv, TypeInv
<1>2. /\ w \in available
      /\ docs' = [docs EXCEPT ![w] = e]
      /\ IF r = <<>> THEN UNCHANGED <<history, historyIndex, timeline>> ELSE Push(<<a>>)
      /\ unrecorded' = (unrecorded \/ ~ exact)
      /\ available' = available /\ torn' = torn
  BY DEF RemoveSelectedItems
<1>3. PICK n \in Nat : /\ n >= 1 /\ sel \in [1 .. n -> ItemsOf(d)] /\ IsInjective(sel)
                       /\ DOMAIN sel = 1 .. n
  BY SelectionIs
<1>4. d \in Doc
  BY <1>1
<1> HIDE DEF d
<1>5. e \in Doc
  BY <1>4, RemoveIdsIs
<1>6. sel \in Seq(Item) /\ Len(sel) = n
  <2>1. sel \in [1 .. n -> Item]
    BY <1>3, <1>4, ItemsAre
  <2> QED BY <1>3, <2>1
<1>7. r \in Seq(Item) /\ ToSet(r) = ToSet(sel) \ (Item \ ToSet(d.root))
  BY <1>6, WithoutType, WithoutElements
<1>8. ASSUME NEW k \in DOMAIN r
      PROVE  r[k] \in Item /\ r[k] \in ToSet(d.root)
  <2> HIDE DEF r
  <2>1. r[k] \in ToSet(r)
    BY DEF ToSet
  <2>2. ToSet(sel) \subseteq Item
    BY <1>6 DEF ToSet
  <2> QED BY <1>7, <2>1, <2>2
<1> HIDE DEF r
<1>9. Len(r) \in Nat /\ DOMAIN r = 1 .. Len(r)
  BY <1>7
<1>10. ASSUME NEW k \in 1 .. Len(r)
       PROVE  f[k] \in Position /\ f[k].parent = Root
  <2> DEFINE x == r[k]
             i == IndexIn(d.root, x)
  <2>1. x \in Item /\ x \in ToSet(d.root)
    BY <1>8, <1>9
  <2>2. f[k] = At(d, x, Root, i)
    BY <1>9
  <2> HIDE DEF x, f
  <2>3. i \in Nat
    BY <1>4, <2>1, DocIs, IndexInIs
  <2> HIDE DEF i
  <2>4. Root \in Group \cup {Root}
    OBVIOUS
  <2>5. LET p == At(d, x, Root, i) IN
         /\ p \in Position /\ p.item = x /\ p.parent = Root /\ p.index = i
         /\ x \in Group => p.tracks = d.inner[x]
         /\ x \notin Group => p.tracks = <<>>
    BY <1>4, <2>1, <2>3, <2>4, AtIs
  <2> QED BY <2>2, <2>5
<1>11. f \in Seq(Position) /\ Len(f) = Len(r)
  <2>1. f \in [1 .. Len(r) -> Position]
    <3>1. f = [k \in 1 .. Len(r) |-> f[k]]
      BY <1>9
    <3> HIDE DEF f
    <3> QED BY <1>10, <3>1
  <2> HIDE DEF f
  <2> QED BY <1>9, <2>1
<1>12. s \in Seq(Position) /\ Len(s) = Len(r) /\ \A k \in 1 .. Len(s) : Fits(s[k])
  <2>1. s = [k \in 1 .. Len(f) |-> [f[k] EXCEPT !.index = ByIndex(f)[k].index]]
    BY <1>9, <1>11
  <2>2. \A k \in 1 .. Len(f) : f[k].parent = Root
    BY <1>10, <1>11
  <2> HIDE DEF s, f
  <2> QED BY <1>11, <2>1, <2>2, SortedOnTheirOwn
<1>13. /\ a \in PartRecord /\ a.workspace = w
       /\ a.command.type = "remove" /\ a.command.positions = s
  <2> HIDE DEF s
  <2> QED BY <1>12, PartIs
<1>14. CASE r = <<>>
  <2>1. r # sel
    <3>1. Len(r) = 0
      BY <1>14
    <3> QED BY <1>3, <1>6, <3>1
  <2>2. unrecorded' = TRUE
    BY <1>1, <1>2, <2>1
  <2>3. history' = history /\ historyIndex' = historyIndex /\ timeline' = timeline
    BY <1>2, <1>14
  <2> HIDE DEF e, a, s, f
  <2>4. docs' \in [Workspace -> Doc] /\ \A v \in Workspace \ {w} : docs'[v] = docs[v]
    BY <1>1, <1>2, <1>5
  <2>5. TypeInv'
    BY <1>2, <2>2, <2>3, <2>4 DEF UndoInv, TypeInv
  <2>6. GoneInv'
    BY <1>2, <2>4 DEF UndoInv, GoneInv
  <2>7. WalkInv'
    BY <2>2 DEF WalkInv
  <2> QED BY <2>5, <2>6, <2>7 DEF UndoInv
<1>15. CASE r # <<>>
  <2>1. Push(<<a>>) /\ docs' = [docs EXCEPT ![w] = e]
    BY <1>2, <1>15
  <2>2. CASE ~ exact
    <3>1. unrecorded' = TRUE
      BY <1>1, <1>2, <2>2
    <3> HIDE DEF e, a, s, f
    <3>2. unrecorded' \in BOOLEAN /\ unrecorded'
      BY <3>1
    <3> QED BY <1>2, <1>5, <1>13, <2>1, <3>2, OneEdit
  <2>3. CASE exact
    <3>1. unrecorded' = unrecorded
      BY <1>1, <1>2, <2>3
    <3>2. s = f /\ r = sel
      BY <2>3
    <3>3. ASSUME NEW k \in 1 .. n
          PROVE  s[k] = Where(d, sel[k]) /\ s[k].parent \notin ToSet(sel)
      <4>1. sel[k] \in ToSet(d.root) /\ k \in DOMAIN r /\ r[k] = sel[k]
        BY <1>3, <1>8, <3>2
      <4>2. f[k] = At(d, sel[k], Root, IndexIn(d.root, sel[k]))
        BY <4>1
      <4>3. Where(d, sel[k]) = At(d, sel[k], Root, IndexIn(d.root, sel[k]))
        BY <4>1 DEF Where, ParentOf, Kids
      <4>4. f[k].parent = Root
        BY <1>6, <1>10, <3>2
      <4>5. Root \notin ToSet(sel)
        <5>1. ToSet(sel) \subseteq Item
          BY <1>6 DEF ToSet
        <5> QED BY <5>1, UndoAssumption DEF Item
      <4> HIDE DEF s, f
      <4> QED BY <3>2, <4>2, <4>3, <4>4, <4>5
    <3>4. s = [k \in 1 .. n |-> Where(d, sel[k])]
      <4>1. s = [k \in 1 .. n |-> s[k]]
        BY <1>3, <3>2
      <4> HIDE DEF s, f
      <4> QED BY <3>3, <4>1
    <3>5. Neat(d) => /\ Neat(e) /\ Execute(a.command, d) = e
                     /\ UndoCommand(a.command, e) = d
      <4> DEFINE c == a.command
      <4> HIDE DEF s
      <4>1. c.type = "remove" /\ c.positions = s
        BY <1>13
      <4> HIDE DEF c, exact, a
      <4>2. ASSUME Neat(d)
            PROVE  LET g == RemoveIds(d, ToSet(sel)) IN
                   g \in Doc /\ Neat(g) /\ Execute(c, d) = g /\ UndoCommand(c, g) = d
        <5>1. \A k \in 1 .. n : s[k].parent \notin ToSet(sel)
          BY <3>3
        <5>2. n \in Nat /\ sel \in [1 .. n -> ItemsOf(d)] /\ IsInjective(sel)
          BY <1>3
        <5> QED BY <1>4, <3>4, <4>1, <4>2, <5>1, <5>2, RemoveUndone
      <4> QED BY <4>2 DEF c
    <3>6. Neat(docs[w]) => /\ Neat(e) /\ Execute(a.command, docs[w]) = e
                           /\ UndoCommand(a.command, e) = docs[w]
      BY <3>5 DEF d
    <3> HIDE DEF e, a, s, f, exact
    <3> QED BY <1>1, <1>2, <1>5, <1>13, <2>1, <3>1, <3>6, OneEdit
  <2> QED BY <2>2, <2>3
<1> QED BY <1>14, <1>15

-----------------------------------------------------------------------------
(* Groups that are made and opened.                                        *)

(* createGroup keeps the invariant.                                        *)
LEMMA CreateGroupKeeps ==
  ASSUME UndoInv, edits' \in 0 .. MaxEdits, NEW w \in Workspace, NEW g \in Group,
         NEW i \in Nat, NEW j \in Nat, CreateGroup(w, g, i, j)
  PROVE  UndoInv'
<1> DEFINE d == docs[w]
           p == Grouping(d, g, i, j)
           command == [type |-> "group", positions |-> <<p>>]
           a == Part(w, "group", <<p>>)
           e == Execute(command, d)
<1>1. /\ docs \in [Workspace -> Doc] /\ unrecorded \in BOOLEAN
  BY DEF UndoInv, TypeInv
<1>2. /\ w \in available /\ g \in Fresh
      /\ j - i >= 2 /\ j <= Len(d.root) /\ ToSet(SubSeq(d.root, i + 1, j)) \subseteq Track
      /\ docs' = [docs EXCEPT ![w] = e] /\ Push(<<a>>)
      /\ available' = available /\ torn' = torn /\ unrecorded' = unrecorded
  BY DEF CreateGroup, Grouping
<1>3. d \in Doc /\ g \notin ItemsOf(d) /\ i <= j
  BY <1>1, <1>2, FreshIs
<1> HIDE DEF d
<1>4. p \in Position /\ Fits(p) /\ p.item = g
  <2> DEFINE t == SubSeq(d.root, i + 1, j)
  <2>1. d.root \in Seq(Item) /\ Len(d.root) \in Nat /\ g \in Item
    BY <1>3, DocIs, ItemsDiffer
  <2>2. t \in Seq(Item) /\ ToSet(t) \subseteq Track
    BY <1>2, <2>1
  <2> HIDE DEF t
  <2>3. \A k \in 1 .. Len(t) : t[k] \in Track
    BY <2>2 DEF ToSet
  <2>4. t \in Seq(Track)
    BY <2>2, <2>3
  <2>5. p = [item |-> g, parent |-> Root, index |-> i, tracks |-> t]
    BY DEF Grouping, t
  <2> HIDE DEF p
  <2>6. p.item = g /\ p.parent = Root
    BY <2>5
  <2>7. p \in Position
    BY <2>1, <2>4, <2>5 DEF Position
  <2> QED BY <2>6, <2>7 DEF Fits
<1> HIDE DEF p
<1>5. /\ a \in PartRecord /\ a.workspace = w /\ a.command = command
      /\ command \in Command /\ command.type = "group" /\ command.positions = <<p>>
  <2> DEFINE s == <<p>>
  <2>1. s \in Seq(Position) /\ Len(s) = 1 /\ s[1] = p
    BY <1>4, OneId
  <2> HIDE DEF s
  <2>2. (\A k \in 1 .. Len(s) : Fits(s[k])) /\ s[1].item \in Group
    BY <1>4, <2>1
  <2>3. /\ Part(w, "group", s) \in PartRecord
        /\ Part(w, "group", s).workspace = w
        /\ Part(w, "group", s).command \in Command
        /\ Part(w, "group", s).command.type = "group"
        /\ Part(w, "group", s).command.positions = s
    BY <2>1, <2>2, PartIs
  <2>4. Part(w, "group", s).command = [type |-> "group", positions |-> s]
    BY DEF Part
  <2> QED BY <2>3, <2>4 DEF s
<1> HIDE DEF command
<1>6. e \in Doc
  BY <1>3, <1>5, CommandType
<1>7. Neat(d) => /\ Neat(e) /\ UndoCommand(command, e) = d
  <2>1. ASSUME Neat(d)
        PROVE  /\ Neat(Execute(command, d))
               /\ UndoCommand(command, Execute(command, d)) = d
    <3>1. command.type = "group" /\ command.positions = <<Grouping(d, g, i, j)>>
      BY <1>5 DEF p
    <3>2. j <= Len(d.root) /\ ToSet(SubSeq(d.root, i + 1, j)) \subseteq Track
      BY <1>2
    <3> QED BY <1>3, <2>1, <3>1, <3>2, GroupUndone
  <2> QED BY <2>1
<1>8. docs' = [docs EXCEPT ![w] = e] /\ Push(<<a>>)
  BY <1>2
<1>9. Neat(docs[w]) => /\ Neat(e) /\ Execute(a.command, docs[w]) = e
                       /\ UndoCommand(a.command, e) = docs[w]
  BY <1>5, <1>7 DEF d
<1> HIDE DEF a, e
<1> QED BY <1>1, <1>2, <1>5, <1>6, <1>8, <1>9, OneEdit

(* ungroupGroup keeps the invariant.                                       *)
LEMMA UngroupGroupKeeps ==
  ASSUME UndoInv, edits' \in 0 .. MaxEdits, NEW w \in Workspace, NEW g \in Group,
         UngroupGroup(w, g)
  PROVE  UndoInv'
<1> DEFINE d == docs[w]
           p == Where(d, g)
           a == Part(w, "ungroup", <<p>>)
           e == OpenGroup(d, g)
<1>1. /\ docs \in [Workspace -> Doc] /\ unrecorded \in BOOLEAN
  BY DEF UndoInv, TypeInv
<1>2. /\ w \in available /\ g \in ToSet(d.root)
      /\ docs' = [docs EXCEPT ![w] = e] /\ Push(<<a>>)
      /\ available' = available /\ torn' = torn /\ unrecorded' = unrecorded
  BY DEF UngroupGroup
<1>3. d \in Doc /\ g \in ItemsOf(d)
  BY <1>1, <1>2, ItemsAre
<1> HIDE DEF d
<1>4. p \in Position /\ Fits(p) /\ p.item = g
  BY <1>3, WhereIs
<1> HIDE DEF p
<1>5. /\ a \in PartRecord /\ a.workspace = w
      /\ a.command.type = "ungroup" /\ a.command.positions = <<p>>
  <2> DEFINE s == <<p>>
  <2>1. s \in Seq(Position) /\ Len(s) = 1 /\ s[1] = p
    BY <1>4, OneId
  <2> HIDE DEF s
  <2>2. (\A k \in 1 .. Len(s) : Fits(s[k])) /\ s[1].item \in Group
    BY <1>4, <2>1
  <2>3. /\ Part(w, "ungroup", s) \in PartRecord
        /\ Part(w, "ungroup", s).workspace = w
        /\ Part(w, "ungroup", s).command \in Command
        /\ Part(w, "ungroup", s).command.type = "ungroup"
        /\ Part(w, "ungroup", s).command.positions = s
    BY <2>1, <2>2, PartIs
  <2> QED BY <2>3 DEF s
<1>6. e \in Doc
  BY <1>3, OpenGroupType
<1>7. Neat(d) => /\ Neat(e) /\ Execute(a.command, d) = e /\ UndoCommand(a.command, e) = d
  <2> DEFINE c == a.command
  <2>1. c.type = "ungroup" /\ c.positions = <<Where(d, g)>>
    BY <1>5 DEF p
  <2> HIDE DEF c
  <2>2. ASSUME Neat(d)
        PROVE  /\ Execute(c, d) = OpenGroup(d, g)
               /\ Neat(Execute(c, d))
               /\ UndoCommand(c, Execute(c, d)) = d
    <3>1. g \in ToSet(d.root)
      BY <1>2
    <3> QED BY <1>3, <2>1, <2>2, <3>1, UngroupUndone
  <2> QED BY <2>2 DEF c
<1>8. docs' = [docs EXCEPT ![w] = e] /\ Push(<<a>>)
  BY <1>2
<1>9. Neat(docs[w]) => /\ Neat(e) /\ Execute(a.command, docs[w]) = e
                       /\ UndoCommand(a.command, e) = docs[w]
  BY <1>7 DEF d
<1> HIDE DEF a, e
<1> QED BY <1>1, <1>2, <1>5, <1>6, <1>8, <1>9, OneEdit

-----------------------------------------------------------------------------
(* Items that move.                                                        *)

(* Where they go.                                                          *)
LEMMA ToPositions ==
  ASSUME NEW d \in Doc, NEW n \in Nat, NEW sel \in [1 .. n -> ItemsOf(d)],
         NEW q \in Parents(d), q # Root => ToSet(sel) \subseteq Track, NEW i \in Nat,
         NEW s, Going(d, n, sel, q, i, s)
  PROVE  s \in Seq(Position) /\ Len(s) = n /\ \A k \in 1 .. Len(s) : Fits(s[k])
<1>0. s = [k \in 1 .. n |-> At(d, sel[k], q, i + k - 1)]
  BY DEF Going
<1>1. q \in Group \cup {Root}
  BY DEF Parents
<1>2. ASSUME NEW k \in 1 .. n
      PROVE  s[k] \in Position /\ Fits(s[k])
  <2> DEFINE x == sel[k]
             m == i + k - 1
  <2>1. x \in Item /\ m \in Nat
    <3>1. x \in ItemsOf(d)
      OBVIOUS
    <3> QED BY <3>1, ItemsAre
  <2>2. q # Root => x \in Track
    <3>1. x \in ToSet(sel)
      BY DEF ToSet
    <3> QED BY <3>1
  <2>3. s[k] = At(d, x, q, m)
    BY <1>0
  <2> HIDE DEF x, m
  <2>4. LET p == At(d, x, q, m) IN
         /\ p \in Position /\ p.item = x /\ p.parent = q /\ p.index = m
         /\ x \in Group => p.tracks = d.inner[x]
         /\ x \notin Group => p.tracks = <<>>
    BY <1>1, <2>1, AtIs
  <2> QED BY <2>2, <2>3, <2>4 DEF Fits
<1>3. s \in [1 .. n -> Position]
  BY <1>0, <1>2
<1>4. s \in Seq(Position) /\ Len(s) = n
  BY <1>3
<1> QED BY <1>2, <1>4

(* executeMove within a workspace keeps the invariant.                     *)
LEMMA MoveWithinKeeps ==
  ASSUME UndoInv, edits' \in 0 .. MaxEdits, NEW w \in Workspace, NEW sel \in Selections(w),
         NEW parent \in Group \cup {Root}, NEW i \in Nat, MoveWithin(w, sel, parent, i)
  PROVE  UndoInv'
<1> DEFINE d == docs[w]
           from == [k \in DOMAIN sel |-> Where(d, sel[k])]
           to == [k \in DOMAIN sel |-> At(d, sel[k], parent, i + k - 1)]
           a == Part(w, "remove", from)
           b == Part(w, "add", to)
           m == RemoveIds(d, ToSet(sel))
           e == InsertAll(m, to)
<1>1. /\ docs \in [Workspace -> Doc] /\ unrecorded \in BOOLEAN
  BY DEF UndoInv, TypeInv
<1>2. /\ w \in available /\ parent \in Parents(d) \ ToSet(sel)
      /\ parent # Root => ToSet(sel) \subseteq Track
      /\ \A k \in DOMAIN from : from[k].parent \notin ToSet(sel)
      /\ docs' = [docs EXCEPT ![w] = e] /\ Push(<<a, b>>)
      /\ available' = available /\ torn' = torn /\ unrecorded' = unrecorded
  BY DEF MoveWithin
<1>3. PICK n \in Nat : /\ n >= 1 /\ sel \in [1 .. n -> ItemsOf(d)] /\ IsInjective(sel)
                       /\ DOMAIN sel = 1 .. n
  BY SelectionIs
<1>4. d \in Doc
  BY <1>1
<1> HIDE DEF d
<1>5. /\ from = [k \in 1 .. n |-> Where(d, sel[k])]
      /\ Going(d, n, sel, parent, i, to)
  BY <1>3 DEF Going
<1>6. \A k \in 1 .. n : from[k].parent \notin ToSet(sel) /\ from[k] = Where(d, sel[k])
  BY <1>2, <1>3
<1>7. /\ from \in Seq(Position) /\ \A k \in 1 .. Len(from) : Fits(from[k])
      /\ to \in Seq(Position) /\ \A k \in 1 .. Len(to) : Fits(to[k])
  <2> HIDE DEF from, to
  <2>1. from \in Seq(Position) /\ \A k \in 1 .. Len(from) : Fits(from[k])
    BY <1>3, <1>4, <1>5, FoundPositions
  <2>2. to \in Seq(Position) /\ \A k \in 1 .. Len(to) : Fits(to[k])
    BY <1>2, <1>3, <1>4, <1>5, ToPositions
  <2> QED BY <2>1, <2>2
<1> HIDE DEF from, to
<1>8. /\ a \in PartRecord /\ a.workspace = w
      /\ a.command.type = "remove" /\ a.command.positions = from
  BY <1>7, PartIs
<1>9. /\ b \in PartRecord /\ b.workspace = w
      /\ b.command.type = "add" /\ b.command.positions = to
  BY <1>7, PartIs
<1>10. m \in Doc /\ e \in Doc
  <2>1. m \in Doc
    BY <1>4, RemoveIdsIs
  <2> HIDE DEF m
  <2>2. e \in Doc
    BY <1>7, <2>1, InsertAllType
  <2> QED BY <2>1, <2>2
<1>11. /\ Execute(b.command, m) = e
       /\ \A c \in {b.command} : UndoCommand(c, e) = RemoveIds(e, Ids(to))
  <2> DEFINE c == b.command
  <2>1. c.type = "add" /\ c.positions = to
    BY <1>9
  <2> HIDE DEF c, m
  <2>2. Execute(c, m) = InsertAll(m, to) /\ UndoCommand(c, e) = RemoveIds(e, Ids(to))
    BY <2>1 DEF Execute, UndoCommand
  <2> QED BY <2>2 DEF c
<1>12. ASSUME Neat(d)
       PROVE  /\ Neat(e) /\ Execute(a.command, d) = m
              /\ UndoCommand(b.command, e) = m
              /\ UndoCommand(a.command, m) = d
  <2> DEFINE c == a.command
  <2>1. c.type = "remove" /\ c.positions = from
    BY <1>8
  <2> HIDE DEF c
  <2>2. LET f == RemoveIds(d, ToSet(sel)) IN
        f \in Doc /\ Neat(f) /\ Execute(c, d) = f /\ UndoCommand(c, f) = d
    <3>1. \A k \in 1 .. n : from[k].parent \notin ToSet(sel)
      BY <1>6
    <3>2. n \in Nat /\ sel \in [1 .. n -> ItemsOf(d)] /\ IsInjective(sel)
      BY <1>3
    <3> QED BY <1>4, <1>5, <1>12, <2>1, <3>1, <3>2, RemoveUndone
  <2>3. LET f == RemoveIds(d, ToSet(sel)) IN
         /\ to \in Seq(Position) /\ \A k \in 1 .. Len(to) : Fits(to[k])
         /\ Ids(to) = ToSet(sel)
         /\ InsertAll(f, to) \in Doc /\ Neat(InsertAll(f, to))
         /\ RemoveIds(InsertAll(f, to), ToSet(sel)) = f
    <3>1. \A k \in 1 .. n : Where(d, sel[k]).parent \notin ToSet(sel)
      BY <1>6
    <3>2. n \in Nat /\ sel \in [1 .. n -> ItemsOf(d)] /\ IsInjective(sel)
      BY <1>3
    <3>3. parent \in Parents(d) \ ToSet(sel) /\ (parent # Root => ToSet(sel) \subseteq Track)
      BY <1>2
    <3> QED BY <1>4, <1>5, <1>12, <3>1, <3>2, <3>3, MoveThere
  <2>4. UndoCommand(b.command, e) = RemoveIds(e, Ids(to))
    BY <1>11
  <2> QED BY <2>2, <2>3, <2>4 DEF c
<1> HIDE DEF a, b, m, e
<1>13. docs' \in [Workspace -> Doc] /\ docs'[w] = e /\ \A v \in Workspace \ {w} : docs'[v] = docs[v]
  BY <1>1, <1>2, <1>10
<1>14. EditBoth(a, b, docs, docs')
  <2>1. ASSUME NEW v \in Workspace, Neat(docs[v])
        PROVE  /\ Neat(docs'[v])
               /\ Did("redo", b, v, Did("redo", a, v, docs[v])) = docs'[v]
               /\ Did("undo", a, v, Did("undo", b, v, docs'[v])) = docs[v]
    <3>1. CASE v = w
      <4>1. Did("redo", a, w, d) = m /\ Did("redo", b, w, m) = e
        BY <1>8, <1>9, <1>11, <1>12, <2>1, <3>1 DEF Did, Effect, d
      <4>2. Did("undo", b, w, e) = m /\ Did("undo", a, w, m) = d
        BY <1>8, <1>9, <1>12, <2>1, <3>1 DEF Did, Effect, d
      <4> QED BY <1>12, <1>13, <2>1, <3>1, <4>1, <4>2 DEF d
    <3>2. CASE v # w
      BY <1>8, <1>9, <1>13, <2>1, <3>2 DEF Did
    <3> QED BY <3>1, <3>2
  <2> QED BY <2>1 DEF EditBoth
<1>15. <<a, b>> \in Seq(PartRecord) /\ Matches(<<a, b>>, docs, docs')
  BY <1>8, <1>9, <1>14, TwoParts
<1>16. \A v \in Workspace \ available : docs'[v] = docs[v]
  BY <1>2, <1>13
<1> QED BY <1>1, <1>2, <1>13, <1>15, <1>16, PushKeeps

-----------------------------------------------------------------------------
(* A track that moves or is copied to another workspace.                   *)

(* One item is removed and put back.                                       *)
LEMMA OneUndone ==
  ASSUME NEW d \in Doc, Neat(d), NEW t \in Track, t \in ItemsOf(d),
         NEW c, c.type = "remove", c.positions = <<Where(d, t)>>
  PROVE  LET e == RemoveIds(d, {t}) IN
         Neat(e) /\ Execute(c, d) = e /\ UndoCommand(c, e) = d
<1> DEFINE sel == [k \in 1 .. 1 |-> t]
           s == <<Where(d, t)>>
<1>1. sel \in [1 .. 1 -> ItemsOf(d)] /\ IsInjective(sel) /\ ToSet(sel) = {t}
  BY DEF IsInjective, ToSet
<1>2. s = [k \in 1 .. 1 |-> Where(d, sel[k])]
  OBVIOUS
<1>3. \A k \in 1 .. 1 : s[k].parent \notin ToSet(sel)
  <2>1. Where(d, t).parent # t
    <3>1. LET p == Where(d, t) IN Fits(p) /\ p \in Position
      BY WhereIs
    <3>2. Where(d, t).parent \in Group \cup {Root}
      BY <3>1, PositionIs
    <3> QED BY <3>2, ItemsDiffer
  <2>2. s[1].parent = Where(d, t).parent
    OBVIOUS
  <2> HIDE DEF s, sel
  <2> QED BY <1>1, <2>1, <2>2
<1>4. c.positions = s
  OBVIOUS
<1> HIDE DEF s, sel
<1>5. LET e == RemoveIds(d, ToSet(sel)) IN
      e \in Doc /\ Neat(e) /\ Execute(c, d) = e /\ UndoCommand(c, e) = d
  <2> DEFINE n == 1
  <2>1. /\ n \in Nat /\ sel \in [1 .. n -> ItemsOf(d)] /\ IsInjective(sel)
        /\ s = [k \in 1 .. n |-> Where(d, sel[k])]
        /\ \A k \in 1 .. n : s[k].parent \notin ToSet(sel)
        /\ c.type = "remove" /\ c.positions = s
    BY <1>1, <1>2, <1>3, <1>4
  <2> HIDE DEF n
  <2> QED BY <2>1, RemoveUndone
<1> QED BY <1>1, <1>5

(* executeMove and executeCopy between workspaces keep the invariant.      *)
LEMMA TransferKeeps ==
  ASSUME UndoInv, edits' \in 0 .. MaxEdits, NEW source \in Workspace, NEW target \in Workspace,
         NEW t \in Track, NEW new \in Track, NEW parent \in Group \cup {Root}, NEW i \in Nat,
         NEW keep \in BOOLEAN, Transfer(source, target, t, new, parent, i, keep)
  PROVE  UndoInv'
<1> DEFINE c == docs[target]
           d == docs[source]
           p == At(c, new, parent, i)
           q == Where(d, t)
           a == Part(source, "remove", <<q>>)
           b == Part(target, "add", <<p>>)
           m == RemoveIds(d, {t})
           e == InsertItem(c, p)
<1>1. /\ docs \in [Workspace -> Doc] /\ unrecorded \in BOOLEAN
  BY DEF UndoInv, TypeInv
<1>2. /\ source \in available /\ target \in available /\ source # target
      /\ t \in ItemsOf(d) /\ new \in Fresh /\ parent \in Parents(c)
      /\ docs' = [docs EXCEPT ![source] = IF keep THEN @ ELSE RemoveIds(@, {t}),
                              ![target] = InsertAll(@, <<p>>)]
      /\ Push(IF keep THEN <<b>> ELSE <<a, b>>)
      /\ available' = available /\ torn' = torn /\ unrecorded' = unrecorded
  BY DEF Transfer
<1>3. c \in Doc /\ d \in Doc /\ new \notin ItemsOf(c)
  BY <1>1, <1>2, FreshIs
<1> HIDE DEF c, d
<1>4. /\ p \in Position /\ Fits(p) /\ p.item = new /\ p.parent = parent
      /\ e \in Doc /\ (Neat(c) => Neat(e))
  <2>1. parent \in Parents(c) /\ c \in Doc /\ new \notin ItemsOf(c)
    BY <1>2, <1>3
  <2>2. LET r == At(c, new, parent, i) IN
         /\ r \in Position /\ Fits(r) /\ r.item = new /\ r.parent = parent /\ r.index = i
         /\ parent \in Group \cup {Root}
         /\ InsertItem(c, r) \in Doc
         /\ RemoveIds(InsertItem(c, r), {new}) = c
         /\ Neat(c) => Neat(InsertItem(c, r))
    BY <2>1, TrackLands
  <2> QED BY <2>2
<1>5. q \in Position /\ Fits(q)
  BY <1>2, <1>3, WhereIs
<1>6. \A x \in Position : Fits(x) =>
         <<x>> \in Seq(Position) /\ \A k \in 1 .. Len(<<x>>) : Fits(<<x>>[k])
  OBVIOUS
<1>7. /\ a \in PartRecord /\ a.workspace = source
      /\ a.command.type = "remove" /\ a.command.positions = <<q>>
  <2> DEFINE s == <<q>>
  <2>1. s \in Seq(Position) /\ \A k \in 1 .. Len(s) : Fits(s[k])
    BY <1>5, <1>6
  <2> HIDE DEF s
  <2>2. /\ Part(source, "remove", s) \in PartRecord
        /\ Part(source, "remove", s).workspace = source
        /\ Part(source, "remove", s).command.type = "remove"
        /\ Part(source, "remove", s).command.positions = s
    BY <2>1, PartIs
  <2> QED BY <2>2 DEF s
<1>8. /\ b \in PartRecord /\ b.workspace = target
      /\ b.command.type = "add" /\ b.command.positions = <<p>>
  <2> DEFINE s == <<p>>
  <2>1. s \in Seq(Position) /\ \A k \in 1 .. Len(s) : Fits(s[k])
    BY <1>4, <1>6
  <2> HIDE DEF s
  <2>2. /\ Part(target, "add", s) \in PartRecord
        /\ Part(target, "add", s).workspace = target
        /\ Part(target, "add", s).command.type = "add"
        /\ Part(target, "add", s).command.positions = s
    BY <2>1, PartIs
  <2> QED BY <2>2 DEF s
<1>9. m \in Doc
  BY <1>3, RemoveIdsIs
<1>10. InsertAll(c, <<p>>) = e
  BY <1>4, InsertAllOne
<1>11. Execute(b.command, c) = e /\ UndoCommand(b.command, e) = c
  <2> DEFINE h == b.command
  <2>1. h.type = "add" /\ h.positions = <<At(c, new, parent, i)>>
    BY <1>8
  <2> HIDE DEF h
  <2>2. /\ Execute(h, c) = InsertItem(c, At(c, new, parent, i))
        /\ UndoCommand(h, InsertItem(c, At(c, new, parent, i))) = c
    BY <1>2, <1>3, <2>1, AddUndone
  <2> QED BY <2>2 DEF h
<1>12. Neat(d) => Neat(m) /\ Execute(a.command, d) = m /\ UndoCommand(a.command, m) = d
  <2> DEFINE h == a.command
  <2>1. h.type = "remove" /\ h.positions = <<Where(d, t)>>
    BY <1>7
  <2> HIDE DEF h
  <2>2. ASSUME Neat(d)
        PROVE  LET f == RemoveIds(d, {t}) IN
               Neat(f) /\ Execute(h, d) = f /\ UndoCommand(h, f) = d
    BY <1>2, <1>3, <2>1, <2>2, OneUndone
  <2> QED BY <2>2 DEF h
<1>13. /\ docs' \in [Workspace -> Doc] /\ docs'[target] = e
       /\ docs'[source] = IF keep THEN d ELSE m
       /\ \A v \in Workspace \ {source, target} : docs'[v] = docs[v]
  <2>1. docs' = [[docs EXCEPT ![source] = IF keep THEN d ELSE m] EXCEPT ![target] = e]
    BY <1>1, <1>2, <1>10 DEF c, d
  <2>2. (IF keep THEN d ELSE m) \in Doc
    BY <1>3, <1>9
  <2> HIDE DEF m, e
  <2> QED BY <1>1, <1>2, <1>4, <2>1, <2>2
<1> HIDE DEF a, b, m, e, p, q
<1>14. \A v \in Workspace \ available : docs'[v] = docs[v]
  BY <1>2, <1>13
<1>15. CASE keep
  <2>1. ASSUME NEW v \in Workspace, Neat(docs[v])
        PROVE  /\ Neat(docs'[v])
               /\ Did("redo", b, v, docs[v]) = docs'[v]
               /\ Did("undo", b, v, docs'[v]) = docs[v]
    <3>1. CASE v = target
      BY <1>4, <1>8, <1>11, <1>13, <2>1, <3>1 DEF Did, Effect, c
    <3>2. CASE v # target
      <4>1. docs'[v] = docs[v]
        BY <1>13, <1>15, <3>2 DEF d
      <4> QED BY <1>8, <2>1, <3>2, <4>1 DEF Did
    <3> QED BY <3>1, <3>2
  <2>2. Edits(b, docs, docs')
    BY <2>1 DEF Edits
  <2>3. <<b>> \in Seq(PartRecord) /\ Matches(<<b>>, docs, docs')
    BY <1>8, <2>2, OnePart
  <2>4. Push(<<b>>)
    BY <1>2, <1>15
  <2> QED BY <1>1, <1>2, <1>13, <1>14, <2>3, <2>4, PushKeeps
<1>16. CASE ~ keep
  <2>1. ASSUME NEW v \in Workspace, Neat(docs[v])
        PROVE  /\ Neat(docs'[v])
               /\ Did("redo", b, v, Did("redo", a, v, docs[v])) = docs'[v]
               /\ Did("undo", a, v, Did("undo", b, v, docs'[v])) = docs[v]
    <3>1. CASE v = target
      BY <1>2, <1>4, <1>7, <1>8, <1>11, <1>13, <2>1, <3>1 DEF Did, Effect, c
    <3>2. CASE v = source
      <4>1. docs'[v] = m /\ docs[v] = d
        BY <1>13, <1>16, <3>2 DEF d
      <4> QED BY <1>2, <1>7, <1>8, <1>12, <2>1, <3>2, <4>1 DEF Did, Effect
    <3>3. CASE v # source /\ v # target
      BY <1>7, <1>8, <1>13, <2>1, <3>3 DEF Did
    <3> QED BY <3>1, <3>2, <3>3
  <2>2. EditBoth(a, b, docs, docs')
    BY <2>1 DEF EditBoth
  <2>3. <<a, b>> \in Seq(PartRecord) /\ Matches(<<a, b>>, docs, docs')
    BY <1>7, <1>8, <2>2, TwoParts
  <2>4. Push(<<a, b>>)
    BY <1>2, <1>16
  <2> QED BY <1>1, <1>2, <1>13, <1>14, <2>3, <2>4, PushKeeps
<1> QED BY <1>15, <1>16

-----------------------------------------------------------------------------
(* The steps.                                                              *)

(* An edit keeps the invariant.                                            *)
LEMMA EditKeeps ==
  ASSUME UndoInv, edits' \in 0 .. MaxEdits, NEW w \in Workspace, Edit(w)
  PROVE  UndoInv'
<1>1. \A i \in 0 .. MaxLength : i \in Nat
  BY UndoAssumption
<1>2. CASE \E t \in Track, parent \in Group \cup {Root}, i \in 0 .. MaxLength : AddItem(w, t, parent, i)
  BY <1>1, <1>2, AddItemKeeps
<1>3. CASE \E t \in Track, parent \in Group \cup {Root}, i \in 0 .. MaxLength :
             \E s \in Workspace, old \in Track, keep \in BOOLEAN :
                Transfer(s, w, old, t, parent, i, keep)
  BY <1>1, <1>3, TransferKeeps
<1>4. CASE \E sel \in Selections(w) : RemoveItems(w, sel)
  BY <1>4, RemoveItemsKeeps
<1>5. CASE \E sel \in Selections(w) : RemoveSelectedItems(w, sel)
  BY <1>5, RemoveSelectedKeeps
<1>6. CASE \E sel \in Selections(w) : \E parent \in Group \cup {Root}, i \in 0 .. MaxLength :
             MoveWithin(w, sel, parent, i)
  BY <1>1, <1>6, MoveWithinKeeps
<1>7. CASE \E g \in Group : UngroupGroup(w, g)
  BY <1>7, UngroupGroupKeeps
<1>8. CASE \E g \in Group : \E i, j \in 0 .. MaxLength : CreateGroup(w, g, i, j)
  BY <1>1, <1>8, CreateGroupKeeps
<1> QED BY <1>2, <1>3, <1>4, <1>5, <1>6, <1>7, <1>8 DEF Edit

(* Undoing or redoing an action: from one document of the timeline to the  *)
(* one before or behind it, or nowhere, or half way.                       *)
LEMMA WalkKeeps ==
  ASSUME UndoInv, NEW mode, NEW parts \in Seq(PartRecord), NEW n \in 0 .. Len(history),
         docs' = ApplyAll(mode, docs, Applied(parts)),
         historyIndex' = IF Applied(parts) = parts THEN n ELSE historyIndex,
         torn' = (torn \/ (Applied(parts) # parts /\ Applied(parts) # <<>>)),
         UNCHANGED <<available, history, timeline, edits, unrecorded>>,
         ~ unrecorded /\ ~ torn => \A w \in available :
            Leads(mode, parts, w, timeline[historyIndex + 1][w], timeline[n + 1][w])
  PROVE  UndoInv'
<1> DEFINE done == Applied(parts)
<1>1. TypeInv /\ GoneInv /\ WalkInv
  BY DEF UndoInv
<1>2. /\ available' = available /\ history' = history /\ timeline' = timeline
      /\ edits' = edits /\ unrecorded' = unrecorded
  OBVIOUS
<1>3. docs \in [Workspace -> Doc] /\ torn \in BOOLEAN /\ historyIndex \in 0 .. Len(history)
      /\ available \subseteq Workspace
  BY <1>1 DEF TypeInv
<1>4. done \in Seq(PartRecord) /\ \A k \in 1 .. Len(done) : done[k].workspace \in available
  BY AppliedIs
<1>5. docs' \in [Workspace -> Doc]
  BY <1>3, <1>4, ApplyAllType
<1>6. ASSUME NEW w \in Workspace \ available
      PROVE  docs'[w] = docs[w]
  <2> HIDE DEF done
  <2>1. \A k \in 1 .. Len(done) : done[k].workspace # w
    BY <1>4
  <2>2. ApplyAll(mode, docs, done)[w] = docs[w]
    BY <1>3, <1>4, <2>1, ApplyAllOthers
  <2> QED BY <2>2 DEF done
<1>7. TypeInv'
  <2>1. historyIndex' \in 0 .. Len(history) /\ torn' \in BOOLEAN
    BY <1>3
  <2> QED BY <1>1, <1>2, <1>5, <2>1 DEF TypeInv
<1>8. GoneInv'
  BY <1>1, <1>2, <1>6 DEF GoneInv
<1>9. WalkInv'
  <2> SUFFICES ASSUME ~ unrecorded', ~ torn', NEW w \in available
               PROVE  /\ docs'[w] = timeline[historyIndex' + 1][w]
                      /\ \A k \in 1 .. Len(timeline) : Neat(timeline[k][w])
                      /\ \A k \in 1 .. Len(history) :
                           /\ Leads("redo", history[k], w, timeline[k][w], timeline[k + 1][w])
                           /\ Leads("undo", Reverse(history[k]), w, timeline[k + 1][w], timeline[k][w])
    BY <1>2 DEF WalkInv
  <2>1. ~ unrecorded /\ ~ torn /\ (done = parts \/ done = <<>>)
    <3>1. ~ unrecorded
      BY <1>2
    <3>2. torn' = (torn \/ (done # parts /\ done # <<>>))
      OBVIOUS
    <3> HIDE DEF done
    <3>3. ~ torn /\ ~ (done # parts /\ done # <<>>)
      BY <1>3, <3>2
    <3> QED BY <3>1, <3>3
  <2>2. /\ docs[w] = timeline[historyIndex + 1][w]
        /\ \A k \in 1 .. Len(timeline) : Neat(timeline[k][w])
        /\ \A k \in 1 .. Len(history) :
             /\ Leads("redo", history[k], w, timeline[k][w], timeline[k + 1][w])
             /\ Leads("undo", Reverse(history[k]), w, timeline[k + 1][w], timeline[k][w])
    BY <1>1, <2>1 DEF WalkInv
  <2>3. docs'[w] = timeline[historyIndex' + 1][w]
    <3>1. CASE done = parts
      <4>1. Leads(mode, parts, w, timeline[historyIndex + 1][w], timeline[n + 1][w])
        BY <2>1
      <4>2. ApplyAll(mode, docs, parts)[w] = timeline[n + 1][w]
        BY <1>3, <2>2, <4>1 DEF Leads
      <4>3. historyIndex' = n /\ docs' = ApplyAll(mode, docs, parts)
        BY <3>1
      <4> QED BY <4>2, <4>3
    <3>2. CASE done # parts
      <4>1. done = <<>> /\ historyIndex' = historyIndex
        BY <2>1, <3>2
      <4>2. Len(done) = 0
        BY <4>1
      <4> HIDE DEF done
      <4>3. ApplyAll(mode, docs, done) = docs
        BY <4>2, ApplyAllFew
      <4>4. docs' = docs
        BY <4>3 DEF done
      <4> QED BY <2>2, <4>1, <4>4
    <3> QED BY <3>1, <3>2
  <2> QED BY <2>2, <2>3
<1> QED BY <1>7, <1>8, <1>9 DEF UndoInv

(* undo keeps the invariant.                                               *)
LEMMA UndoKeeps ==
  ASSUME UndoInv, Undo
  PROVE  UndoInv'
<1> DEFINE h == historyIndex
           parts == Reverse(history[h])
           n == h - 1
<1>1. TypeInv /\ WalkInv
  BY DEF UndoInv
<1>2. h \in 1 .. Len(history) /\ history \in Seq(Seq(PartRecord)) /\ Len(history) \in Nat
  BY <1>1 DEF TypeInv, Undo
<1>3. history[h] \in Seq(PartRecord) /\ n \in 0 .. Len(history) /\ n + 1 = h
  BY <1>2
<1>4. parts \in Seq(PartRecord)
  <2> DEFINE s == history[h]
  <2>1. s \in Seq(PartRecord)
    BY <1>3
  <2> HIDE DEF s
  <2>2. Reverse(s) \in Seq(PartRecord)
    BY <2>1, ReverseIs
  <2> QED BY <2>2 DEF s
<1>5. /\ docs' = ApplyAll("undo", docs, Applied(parts))
      /\ historyIndex' = IF Applied(parts) = parts THEN n ELSE historyIndex
      /\ torn' = (torn \/ (Applied(parts) # parts /\ Applied(parts) # <<>>))
      /\ UNCHANGED <<available, history, timeline, edits, unrecorded>>
  BY DEF Undo
<1>6. ASSUME ~ unrecorded, ~ torn, NEW w \in available
      PROVE  Leads("undo", parts, w, timeline[historyIndex + 1][w], timeline[n + 1][w])
  BY <1>1, <1>2, <1>3, <1>6 DEF WalkInv
<1> HIDE DEF parts, n
<1> QED BY <1>3, <1>4, <1>5, <1>6, WalkKeeps

(* redo keeps the invariant.                                               *)
LEMMA RedoKeeps ==
  ASSUME UndoInv, Redo
  PROVE  UndoInv'
<1> DEFINE h == historyIndex
           n == h + 1
           parts == history[n]
<1>1. TypeInv /\ WalkInv
  BY DEF UndoInv
<1>2. h \in 0 .. Len(history) /\ history \in Seq(Seq(PartRecord)) /\ Len(history) \in Nat
      /\ h < Len(history)
  BY <1>1 DEF TypeInv, Redo
<1>3. n \in 1 .. Len(history) /\ n \in 0 .. Len(history)
  BY <1>2
<1>4. parts \in Seq(PartRecord)
  BY <1>2, <1>3
<1>5. /\ docs' = ApplyAll("redo", docs, Applied(parts))
      /\ historyIndex' = IF Applied(parts) = parts THEN n ELSE historyIndex
      /\ torn' = (torn \/ (Applied(parts) # parts /\ Applied(parts) # <<>>))
      /\ UNCHANGED <<available, history, timeline, edits, unrecorded>>
  BY DEF Redo
<1>6. ASSUME ~ unrecorded, ~ torn, NEW w \in available
      PROVE  Leads("redo", parts, w, timeline[historyIndex + 1][w], timeline[n + 1][w])
  BY <1>1, <1>2, <1>3, <1>6 DEF WalkInv
<1> HIDE DEF parts, n
<1> QED BY <1>3, <1>4, <1>5, <1>6, WalkKeeps

(* An empty document.                                                      *)
LEMMA EmptyIs ==
  EmptyDoc \in Doc /\ Neat(EmptyDoc)
<1>1. <<>> \in Seq(Item) /\ <<>> \in Seq(Track)
  OBVIOUS
<1>2. EmptyDoc \in Doc /\ EmptyDoc.root = <<>> /\ \A g \in Group : EmptyDoc.inner[g] = <<>>
  BY <1>1 DEF EmptyDoc, Doc
<1>3. IsInjective(<<>>) /\ ToSet(<<>>) = {}
  BY DEF IsInjective, ToSet
<1> QED BY <1>2, <1>3 DEF Neat

(* deleteCollectionAndReinitialize keeps the invariant.                    *)
LEMMA DeleteKeeps ==
  ASSUME UndoInv, NEW w \in Collection, DeleteCollection(w)
  PROVE  UndoInv'
<1>1. TypeInv /\ GoneInv /\ WalkInv
  BY DEF UndoInv
<1>2. /\ w \in available /\ available' = available \ {w}
      /\ docs' = [docs EXCEPT ![w] = EmptyDoc]
      /\ history' = history /\ historyIndex' = historyIndex /\ timeline' = timeline
      /\ edits' = edits /\ unrecorded' = unrecorded /\ torn' = torn
  BY DEF DeleteCollection
<1>3. docs \in [Workspace -> Doc] /\ w \in Workspace /\ w # Project
  BY <1>1, UndoAssumption DEF TypeInv, Workspace
<1>4. /\ docs' \in [Workspace -> Doc] /\ docs'[w] = EmptyDoc
      /\ \A v \in Workspace \ {w} : docs'[v] = docs[v]
  BY <1>2, <1>3, EmptyIs
<1>5. TypeInv'
  BY <1>1, <1>2, <1>3, <1>4 DEF TypeInv
<1>6. GoneInv'
  BY <1>1, <1>2, <1>4 DEF GoneInv
<1>7. WalkInv'
  <2>1. available' \subseteq Workspace
    BY <1>1, <1>2 DEF TypeInv
  <2>2. \A v \in available' : v \in available /\ docs'[v] = docs[v]
    BY <1>2, <1>4, <2>1
  <2> QED BY <1>1, <1>2, <2>2 DEF WalkInv
<1> QED BY <1>5, <1>6, <1>7 DEF UndoInv

(* Empty documents and no history.                                         *)
Blank(ds, av, h, index, line, e, un, to) ==
  /\ ds = [w \in Workspace |-> EmptyDoc] /\ av = Workspace
  /\ h = <<>> /\ index = 0 /\ line = <<ds>> /\ e = 0 /\ ~ un /\ ~ to
  /\ un \in BOOLEAN /\ to \in BOOLEAN

(* A new project has the invariant.                                        *)
LEMMA BlankKeeps ==
  ASSUME Blank(docs, available, history, historyIndex, timeline, edits, unrecorded, torn)
  PROVE  UndoInv
<1>1. /\ docs = [w \in Workspace |-> EmptyDoc] /\ available = Workspace
      /\ history = <<>> /\ historyIndex = 0 /\ timeline = <<docs>> /\ edits = 0
      /\ unrecorded \in BOOLEAN /\ torn \in BOOLEAN
  BY DEF Blank
<1>2. docs \in [Workspace -> Doc] /\ \A w \in Workspace : docs[w] = EmptyDoc
  BY <1>1, EmptyIs
<1>3. Project \in Workspace
  BY DEF Workspace
<1>4. history \in Seq(Seq(PartRecord)) /\ Len(history) = 0
  BY <1>1
<1>5. timeline \in Seq([Workspace -> Doc]) /\ Len(timeline) = 1 /\ timeline[1] = docs
  BY <1>1, <1>2
<1>6. TypeInv
  BY <1>1, <1>2, <1>3, <1>4, <1>5, UndoAssumption DEF TypeInv
<1>7. GoneInv
  BY <1>2 DEF GoneInv
<1>8. WalkInv
  BY <1>1, <1>2, <1>4, <1>5, EmptyIs DEF WalkInv
<1> QED BY <1>6, <1>7, <1>8 DEF UndoInv

(* Every step keeps the invariant.                                         *)
LEMMA StepKeeps ==
  ASSUME UndoInv, [Next]_vars
  PROVE  UndoInv'
<1>1. CASE edits < MaxEdits /\ edits' = edits + 1 /\ \E w \in Workspace : Edit(w)
  <2>1. edits \in 0 .. MaxEdits /\ MaxEdits \in Nat
    BY UndoAssumption DEF UndoInv, TypeInv
  <2>2. edits' \in 0 .. MaxEdits
    BY <1>1, <2>1
  <2> QED BY <1>1, <2>2, EditKeeps
<1>2. CASE Undo
  BY <1>2, UndoKeeps
<1>3. CASE Redo
  BY <1>3, RedoKeeps
<1>4. CASE \E w \in Collection : DeleteCollection(w)
  BY <1>4, DeleteKeeps
<1>5. CASE NewProject
  <2>1. /\ docs' = [w \in Workspace |-> EmptyDoc] /\ available' = Workspace
        /\ history' = <<>> /\ historyIndex' = 0 /\ timeline' = <<docs'>> /\ edits' = 0
        /\ unrecorded' = FALSE /\ torn' = FALSE
    BY <1>5 DEF NewProject
  <2>2. docs' \in [Workspace -> Doc] /\ \A w \in Workspace : docs'[w] = EmptyDoc
    BY <2>1, EmptyIs
  <2>3. Project \in Workspace
    BY DEF Workspace
  <2>4. history' \in Seq(Seq(PartRecord)) /\ Len(history') = 0
    BY <2>1
  <2>5. timeline' \in Seq([Workspace -> Doc]) /\ Len(timeline') = 1 /\ timeline'[1] = docs'
    BY <2>1, <2>2
  <2>6. TypeInv'
    <3>1. /\ available' \subseteq Workspace /\ Project \in available'
          /\ unrecorded' \in BOOLEAN /\ torn' \in BOOLEAN
      BY <2>1, <2>3
    <3>2. /\ Len(history') <= MaxDepth /\ historyIndex' \in 0 .. Len(history')
          /\ Len(timeline') = Len(history') + 1
      BY <2>1, <2>4, <2>5, UndoAssumption
    <3>3. edits' \in 0 .. MaxEdits
      BY <2>1, UndoAssumption
    <3> QED BY <2>2, <2>4, <2>5, <3>1, <3>2, <3>3 DEF TypeInv
  <2>7. GoneInv'
    BY <2>1, <2>2 DEF GoneInv
  <2>8. WalkInv'
    BY <2>1, <2>2, <2>4, <2>5, EmptyIs DEF WalkInv
  <2> QED BY <2>6, <2>7, <2>8 DEF UndoInv
<1>6. CASE UNCHANGED vars
  BY <1>6 DEF vars, UndoInv, TypeInv, GoneInv, WalkInv
<1> QED BY <1>1, <1>2, <1>3, <1>4, <1>5, <1>6 DEF Next

-----------------------------------------------------------------------------
(* The theorems.                                                           *)

(* In every behaviour each action of the history leads from a document of  *)
(* the timeline to the next and back, unless an edit was recorded wrongly  *)
(* or an undo stopped half way, and the documents are where the index      *)
(* says.                                                                   *)
THEOREM UndoInvariantHolds == Spec => []UndoInv
<1>1. Init => UndoInv
  <2> SUFFICES ASSUME Init PROVE UndoInv
    OBVIOUS
  <2>1. Blank(docs, available, history, historyIndex, timeline, edits, unrecorded, torn)
    BY DEF Init, Blank
  <2> QED BY <2>1, BlankKeeps
<1>2. UndoInv /\ [Next]_vars => UndoInv'
  BY StepKeeps
<1> QED BY <1>1, <1>2, PTL DEF Spec

(* The history holds commands for known workspaces, no more actions than   *)
(* its depth, and its index is one of them: pushCompositeCommand,          *)
(* globalHistoryStore.ts.                                                  *)
THEOREM UndoTypesHold == Spec => []UndoTypeOK
<1>1. UndoInv => UndoTypeOK
  <2> SUFFICES ASSUME UndoInv PROVE UndoTypeOK
    OBVIOUS
  <2>1. /\ docs \in [Workspace -> Doc] /\ available \subseteq Workspace /\ Project \in available
        /\ history \in Seq(Seq(PartRecord)) /\ Len(history) <= MaxDepth
        /\ historyIndex \in 0 .. Len(history) /\ Len(timeline) = Len(history) + 1
        /\ edits \in 0 .. MaxEdits /\ unrecorded \in BOOLEAN /\ torn \in BOOLEAN
    BY DEF UndoInv, TypeInv
  <2>2. ASSUME NEW i \in DOMAIN history, NEW part \in ToSet(history[i])
        PROVE  /\ part.workspace \in Workspace
               /\ part.command.type \in {"add", "addRoot", "remove", "group", "ungroup"}
               /\ part.command.positions \in Seq(Position)
    <3>1. history[i] \in Seq(PartRecord)
      BY <2>1
    <3>2. part \in PartRecord
      BY <3>1 DEF ToSet
    <3>3. part.workspace \in Workspace /\ part.command \in Command
      BY <3>2 DEF PartRecord
    <3> QED BY <3>3 DEF Command
  <2> QED BY <2>1, <2>2 DEF UndoTypeOK
<1> QED BY <1>1, UndoInvariantHolds, PTL

(* Undo and redo go through the documents as they were.                    *)
THEOREM UndoRestoresHolds == Spec => []UndoRestores
<1>1. UndoInv => UndoRestores
  BY DEF UndoInv, WalkInv, UndoRestores
<1> QED BY <1>1, UndoInvariantHolds, PTL

(* No command puts an item where it is already.                            *)
THEOREM NoItemTwiceHolds == Spec => []NoItemTwice
<1>1. UndoInv => NoItemTwice
  <2> SUFFICES ASSUME UndoInv, ~ unrecorded, ~ torn, NEW w \in Workspace
               PROVE  Neat(docs[w])
    BY DEF NoItemTwice
  <2>1. CASE w \in available
    <3>1. historyIndex + 1 \in 1 .. Len(timeline)
      BY DEF UndoInv, TypeInv
    <3> QED BY <2>1, <3>1 DEF UndoInv, WalkInv
  <2>2. CASE w \notin available
    BY <2>2, EmptyIs DEF UndoInv, GoneInv
  <2> QED BY <2>1, <2>2
<1> QED BY <1>1, UndoInvariantHolds, PTL
=============================================================================
