------------------------------ MODULE PagingProofs ------------------------------
(***************************************************************************)
(* Theorems about Query and Paging, for every content of the releases and  *)
(* every request: what the filters select, and what a walk receives.       *)
(*                                                                         *)
(* The answers are lists that folds build.  What each fold builds is shown *)
(* by the rule of FoldFacts; everything above that is about sets, and      *)
(* about sequences that list a set.                                        *)
(***************************************************************************)
EXTENDS Paging, FiniteSetTheorems, FunctionTheorems, TLAPS

(***************************************************************************)
(* Sequences that list a set: each element, once.                          *)
(***************************************************************************)
Distinct(s) == \A i, j \in 1 .. Len(s) : s[i] = s[j] => i = j

Lists(s, S) ==
  /\ s \in Seq(S)
  /\ \A x \in S : \E i \in 1 .. Len(s) : s[i] = x
  /\ Distinct(s)

LEMMA EmptyLists == Lists(<<>>, {})
BY DEF Lists, Distinct

LEMMA ListsRange ==
  ASSUME NEW S, NEW s, Lists(s, S)
  PROVE  ToSet(s) = S
BY DEF Lists, ToSet

LEMMA SeqRange ==
  ASSUME NEW S, NEW s \in Seq(S)
  PROVE  /\ s \in Seq(ToSet(s)) /\ ToSet(s) \subseteq S
         /\ \A x \in ToSet(s) : \E i \in 1 .. Len(s) : s[i] = x
BY DEF ToSet

LEMMA OneLists ==
  ASSUME NEW x
  PROVE  Lists(<<x>>, {x})
BY DEF Lists, Distinct

LEMMA ConcatLists ==
  ASSUME NEW S, NEW s, Lists(s, S), NEW T, NEW t, Lists(t, T), S \cap T = {}
  PROVE  Lists(s \o t, S \cup T)
<1>1. /\ s \in Seq(S \cup T) /\ t \in Seq(S \cup T) /\ s \o t \in Seq(S \cup T)
      /\ Len(s) \in Nat /\ Len(t) \in Nat /\ Len(s \o t) = Len(s) + Len(t)
  BY DEF Lists
<1>2. \A i \in 1 .. Len(s) : (s \o t)[i] = s[i] /\ s[i] \in S
  BY <1>1 DEF Lists
<1>3. \A i \in Len(s) + 1 .. Len(s) + Len(t) : (s \o t)[i] = t[i - Len(s)] /\ t[i - Len(s)] \in T
  BY <1>1 DEF Lists
<1>4. ASSUME NEW x \in S \cup T
      PROVE  \E i \in 1 .. Len(s \o t) : (s \o t)[i] = x
  <2>1. CASE x \in S
    BY <1>1, <1>2, <2>1 DEF Lists
  <2>2. CASE x \in T
    <3>1. PICK j \in 1 .. Len(t) : t[j] = x
      BY <2>2 DEF Lists
    <3>2. (s \o t)[Len(s) + j] = x /\ Len(s) + j \in 1 .. Len(s \o t)
      BY <1>1, <3>1
    <3> QED
      BY <3>2
  <2> QED
    BY <2>1, <2>2
<1>5. ASSUME NEW i \in 1 .. Len(s \o t), NEW j \in 1 .. Len(s \o t), (s \o t)[i] = (s \o t)[j]
      PROVE  i = j
  <2>1. CASE i \in 1 .. Len(s) /\ j \in 1 .. Len(s)
    BY <1>2, <1>5, <2>1 DEF Lists, Distinct
  <2>2. CASE i \notin 1 .. Len(s) /\ j \notin 1 .. Len(s)
    <3>1. /\ i \in Len(s) + 1 .. Len(s) + Len(t) /\ j \in Len(s) + 1 .. Len(s) + Len(t)
          /\ i - Len(s) \in 1 .. Len(t) /\ j - Len(s) \in 1 .. Len(t)
      BY <1>1, <2>2
    <3>2. i - Len(s) = j - Len(s)
      BY <1>3, <1>5, <3>1 DEF Lists, Distinct
    <3> QED
      BY <1>1, <3>2
  <2>3. CASE i \in 1 .. Len(s) /\ j \notin 1 .. Len(s)
    BY <1>1, <1>2, <1>3, <1>5, <2>3
  <2>4. CASE i \notin 1 .. Len(s) /\ j \in 1 .. Len(s)
    BY <1>1, <1>2, <1>3, <1>5, <2>4
  <2> QED
    BY <2>1, <2>2, <2>3, <2>4
<1> QED
  BY <1>1, <1>4, <1>5 DEF Lists, Distinct

LEMMA AppendLists ==
  ASSUME NEW S, NEW s, Lists(s, S), NEW x, x \notin S
  PROVE  Lists(Append(s, x), S \cup {x})
<1>1. Lists(s \o <<x>>, S \cup {x})
  BY OneLists, ConcatLists
<1>2. Append(s, x) = s \o <<x>>
  BY DEF Lists
<1> QED
  BY <1>1, <1>2

(***************************************************************************)
(* Kept: the elements of a set, in the order of the sequence.              *)
(***************************************************************************)
KeepIf(wanted, kept, x) == IF x \in wanted THEN Append(kept, x) ELSE kept

\* e gives the place in s of each element of v.
Embeds(wanted, s, i, v, e) ==
  /\ e \in [1 .. Len(v) -> 1 .. i]
  /\ \A k \in 1 .. Len(v) : v[k] = s[e[k]] /\ s[e[k]] \in wanted
  /\ \A k, l \in 1 .. Len(v) : k < l => e[k] < e[l]
  /\ \A j \in 1 .. i : s[j] \in wanted => \E k \in 1 .. Len(v) : e[k] = j

KeptSoFar(wanted, s, i, v) ==
  v \in Seq(ToSet(s)) /\ \E e \in [1 .. Len(v) -> 1 .. i] : Embeds(wanted, s, i, v, e)

Keeping == INSTANCE FoldFacts WITH Combine <- KeepIf, Holds <- KeptSoFar

LEMMA KeptFold ==
  ASSUME NEW s, NEW wanted
  PROVE  Kept(s, wanted) = Keeping!Fold(wanted, <<>>, s)
BY DEF Kept, KeepIf, FoldLeft, MapThenFoldSet, Max,
       Keeping!Fold, Keeping!FoldLeft, Keeping!MapThenFoldSet, Keeping!Max

LEMMA KeptEmbeds ==
  ASSUME NEW S, NEW s \in Seq(S), NEW wanted
  PROVE  KeptSoFar(wanted, s, Len(s), Kept(s, wanted))
<1>1. DOMAIN s = 1 .. Len(s) /\ Len(s) \in Nat /\ \A i \in 1 .. Len(s) : s[i] \in ToSet(s)
  BY DEF ToSet
<1>2. KeptSoFar(wanted, s, 0, <<>>)
  <2> DEFINE e == [k \in 1 .. 0 |-> k]
  <2>1. <<>> \in Seq(ToSet(s)) /\ e \in [1 .. Len(<<>>) -> 1 .. 0]
    OBVIOUS
  <2>2. Embeds(wanted, s, 0, <<>>, e)
    BY DEF Embeds
  <2> HIDE DEF e
  <2> QED
    BY <2>1, <2>2 DEF KeptSoFar
<1>3. ASSUME NEW i \in 1 .. Len(s), NEW v, KeptSoFar(wanted, s, i - 1, v)
      PROVE  KeptSoFar(wanted, s, i, KeepIf(wanted, v, s[i]))
  <2>1. PICK e \in [1 .. Len(v) -> 1 .. i - 1] : Embeds(wanted, s, i - 1, v, e)
    BY <1>3 DEF KeptSoFar
  <2>2. v \in Seq(ToSet(s)) /\ Len(v) \in Nat
    BY <1>3 DEF KeptSoFar
  <2>3. CASE s[i] \in wanted
    <3> DEFINE w == Append(v, s[i])
               f == [k \in 1 .. Len(v) + 1 |-> IF k = Len(v) + 1 THEN i ELSE e[k]]
    <3>1. /\ w \in Seq(ToSet(s)) /\ Len(w) = Len(v) + 1 /\ w[Len(v) + 1] = s[i]
          /\ \A k \in 1 .. Len(v) : w[k] = v[k]
      BY <1>1, <2>2
    <3>2. f \in [1 .. Len(w) -> 1 .. i]
      BY <3>1, <2>1, <2>2
    <3>3. \A k \in 1 .. Len(w) : w[k] = s[f[k]] /\ s[f[k]] \in wanted
      BY <3>1, <2>1, <2>2, <2>3 DEF Embeds
    <3>4. \A k, l \in 1 .. Len(w) : k < l => f[k] < f[l]
      <4> SUFFICES ASSUME NEW k \in 1 .. Len(w), NEW l \in 1 .. Len(w), k < l
                   PROVE  f[k] < f[l]
        OBVIOUS
      <4>1. Len(w) = Len(v) + 1
        BY <3>1
      <4>2. /\ \A j \in 1 .. Len(v) : f[j] = e[j] /\ e[j] \in 1 .. i - 1
            /\ f[Len(v) + 1] = i
        BY <2>1, <2>2
      <4> HIDE DEF w, f
      <4>3. k \in 1 .. Len(v) /\ (l = Len(v) + 1 \/ l \in 1 .. Len(v))
        BY <2>2, <4>1
      <4>4. CASE l = Len(v) + 1
        BY <4>2, <4>3, <4>4
      <4>5. CASE l \in 1 .. Len(v)
        BY <2>1, <4>2, <4>3, <4>5 DEF Embeds
      <4> QED
        BY <4>3, <4>4, <4>5
    <3>5. ASSUME NEW j \in 1 .. i, s[j] \in wanted
          PROVE  \E k \in 1 .. Len(w) : f[k] = j
      <4>1. CASE j = i
        BY <3>1, <2>2, <4>1
      <4>2. CASE j # i
        <5>1. PICK k \in 1 .. Len(v) : e[k] = j
          BY <2>1, <3>5, <4>2 DEF Embeds
        <5>2. k \in 1 .. Len(w) /\ f[k] = j
          BY <3>1, <2>2, <5>1
        <5> QED
          BY <5>2
      <4> QED
        BY <4>1, <4>2
    <3>6. KeepIf(wanted, v, s[i]) = w
      BY <2>3 DEF KeepIf
    <3> HIDE DEF w, f
    <3>7. Embeds(wanted, s, i, w, f)
      BY <3>2, <3>3, <3>4, <3>5 DEF Embeds
    <3> QED
      BY <3>1, <3>2, <3>6, <3>7 DEF KeptSoFar
  <2>4. CASE s[i] \notin wanted
    <3>1. KeepIf(wanted, v, s[i]) = v
      BY <2>4 DEF KeepIf
    <3>2. e \in [1 .. Len(v) -> 1 .. i]
      BY <2>1
    <3>3. Embeds(wanted, s, i, v, e)
      BY <2>1, <2>2, <2>4, <3>2 DEF Embeds
    <3> QED
      BY <2>2, <3>1, <3>2, <3>3 DEF KeptSoFar
  <2> QED
    BY <2>3, <2>4
<1> QED
  BY <1>1, <1>2, <1>3, Keeping!FoldInduction, KeptFold

\* What is kept of a list lists what was wanted of it.
LEMMA KeptLists ==
  ASSUME NEW S, NEW s, Lists(s, S), NEW wanted
  PROVE  Lists(Kept(s, wanted), S \cap wanted)
<1> DEFINE v == Kept(s, wanted)
<1>1. s \in Seq(S) /\ ToSet(s) = S
  BY ListsRange DEF Lists
<1>2. v \in Seq(S) /\ Len(v) \in Nat
  BY <1>1, KeptEmbeds DEF KeptSoFar
<1>3. PICK e \in [1 .. Len(v) -> 1 .. Len(s)] : Embeds(wanted, s, Len(s), v, e)
  BY <1>1, KeptEmbeds DEF KeptSoFar
<1> HIDE DEF v
<1>4. \A k \in 1 .. Len(v) : v[k] \in S \cap wanted
  BY <1>1, <1>2, <1>3 DEF Embeds
<1>5. v \in Seq(S \cap wanted)
  BY <1>2, <1>4
<1>6. ASSUME NEW x \in S \cap wanted
      PROVE  \E k \in 1 .. Len(v) : v[k] = x
  <2>1. PICK j \in 1 .. Len(s) : s[j] = x
    BY DEF Lists
  <2>2. PICK k \in 1 .. Len(v) : e[k] = j
    BY <1>3, <2>1 DEF Embeds
  <2> QED
    BY <1>3, <2>1, <2>2 DEF Embeds
<1>7. Distinct(v)
  <2> SUFFICES ASSUME NEW k \in 1 .. Len(v), NEW l \in 1 .. Len(v), v[k] = v[l]
               PROVE  k = l
    BY DEF Distinct
  <2>1. e[k] \in 1 .. Len(s) /\ e[l] \in 1 .. Len(s) /\ s[e[k]] = s[e[l]]
    BY <1>3 DEF Embeds
  <2>2. e[k] = e[l]
    BY <2>1 DEF Lists, Distinct
  <2>3. ~(k < l) /\ ~(l < k)
    BY <1>3, <2>1, <2>2 DEF Embeds
  <2> QED
    BY <1>2, <2>3
<1> QED
  BY <1>5, <1>6, <1>7 DEF Lists, v

\* Nothing overtakes.
LEMMA KeptInOrder ==
  ASSUME NEW S, NEW s \in Seq(S), NEW wanted, NEW k \in 1 .. Len(Kept(s, wanted)),
         NEW l \in 1 .. Len(Kept(s, wanted)), k < l
  PROVE  \E i, j \in 1 .. Len(s) : i < j /\ Kept(s, wanted)[k] = s[i] /\ Kept(s, wanted)[l] = s[j]
<1> DEFINE v == Kept(s, wanted)
<1>1. PICK e \in [1 .. Len(v) -> 1 .. Len(s)] : Embeds(wanted, s, Len(s), v, e)
  BY KeptEmbeds DEF KeptSoFar
<1>2. /\ e[k] < e[l] /\ v[k] = s[e[k]] /\ v[l] = s[e[l]]
      /\ e[k] \in 1 .. Len(s) /\ e[l] \in 1 .. Len(s)
  BY <1>1 DEF Embeds
<1> QED
  BY <1>2

(***************************************************************************)
(* OnceEach: the elements of a sequence, at their first appearance.        *)
(***************************************************************************)
AddNew(c, seen, x) == IF x \in ToSet(seen) THEN seen ELSE Append(seen, x)

Firsts(s, i) == {s[j] : j \in 1 .. i}

LEMMA ListsFirsts ==
  ASSUME NEW S, NEW s, Lists(s, S)
  PROVE  /\ DOMAIN s = 1 .. Len(s) /\ Len(s) \in Nat
         /\ \A i \in 1 .. Len(s) : s[i] \in S /\ s[i] \notin Firsts(s, i - 1)
         /\ Firsts(s, Len(s)) = S
<1>1. DOMAIN s = 1 .. Len(s) /\ Len(s) \in Nat /\ \A i \in 1 .. Len(s) : s[i] \in S
  BY DEF Lists
<1>2. ASSUME NEW i \in 1 .. Len(s)
      PROVE  s[i] \notin Firsts(s, i - 1)
  BY <1>1 DEF Lists, Distinct, Firsts
<1>3. Firsts(s, Len(s)) = S
  BY <1>1 DEF Lists, Firsts
<1> QED
  BY <1>1, <1>2, <1>3

SeenSoFar(c, s, i, v) == Lists(v, Firsts(s, i))

Once == INSTANCE FoldFacts WITH Combine <- AddNew, Holds <- SeenSoFar

LEMMA OnceFold ==
  ASSUME NEW s
  PROVE  OnceEach(s) = Once!Fold("none", <<>>, s)
BY DEF OnceEach, AddNew, FoldLeft, MapThenFoldSet, Max,
       Once!Fold, Once!FoldLeft, Once!MapThenFoldSet, Once!Max

LEMMA OnceLists ==
  ASSUME NEW S, NEW s \in Seq(S)
  PROVE  Lists(OnceEach(s), ToSet(s))
<1>1. SeenSoFar("none", s, 0, <<>>)
  <2>1. Firsts(s, 0) = {}
    BY DEF Firsts
  <2> QED
    BY <2>1, EmptyLists DEF SeenSoFar
<1>2. ASSUME NEW i \in 1 .. Len(s), NEW v, SeenSoFar("none", s, i - 1, v)
      PROVE  SeenSoFar("none", s, i, AddNew("none", v, s[i]))
  <2>1. Firsts(s, i) = Firsts(s, i - 1) \cup {s[i]}
    BY DEF Firsts
  <2>2. Lists(v, Firsts(s, i - 1)) /\ ToSet(v) = Firsts(s, i - 1)
    BY <1>2, ListsRange DEF SeenSoFar
  <2>3. CASE s[i] \in ToSet(v)
    <3>1. Firsts(s, i) = Firsts(s, i - 1)
      BY <2>1, <2>2, <2>3
    <3> QED
      BY <2>2, <2>3, <3>1 DEF SeenSoFar, AddNew
  <2>4. CASE s[i] \notin ToSet(v)
    <3>1. Lists(Append(v, s[i]), Firsts(s, i - 1) \cup {s[i]})
      BY <2>2, <2>4, AppendLists
    <3> QED
      BY <2>1, <2>4, <3>1 DEF SeenSoFar, AddNew
  <2> QED
    BY <2>3, <2>4
<1>3. DOMAIN s = 1 .. Len(s) /\ Len(s) \in Nat /\ Firsts(s, Len(s)) = ToSet(s)
  BY DEF Firsts, ToSet
<1>4. SeenSoFar("none", s, Len(s), Once!Fold("none", <<>>, s))
  BY <1>1, <1>2, <1>3, Once!FoldInduction
<1> QED
  BY <1>3, <1>4, OnceFold DEF SeenSoFar

(***************************************************************************)
(* SortByVersion: insertion, one object after the other.                   *)
(***************************************************************************)
Ascending(s) == \A k, l \in 1 .. Len(s) : k < l => VersionOf(s[k]) <= VersionOf(s[l])

Versioned(S) == \A o \in S : VersionOf(o) \in Int

LEMMA AscendingConcat ==
  ASSUME NEW S, NEW s \in Seq(S), Ascending(s), NEW T, NEW t \in Seq(T), Ascending(t),
         \A x \in S, y \in T : VersionOf(x) <= VersionOf(y)
  PROVE  Ascending(s \o t)
<1>1. /\ s \in Seq(S \cup T) /\ t \in Seq(S \cup T)
      /\ Len(s) \in Nat /\ Len(t) \in Nat /\ Len(s \o t) = Len(s) + Len(t)
  OBVIOUS
<1>2. \A i \in 1 .. Len(s) : (s \o t)[i] = s[i] /\ s[i] \in S
  BY <1>1
<1>3. \A i \in Len(s) + 1 .. Len(s) + Len(t) : (s \o t)[i] = t[i - Len(s)] /\ t[i - Len(s)] \in T
  BY <1>1
<1> SUFFICES ASSUME NEW k \in 1 .. Len(s \o t), NEW l \in 1 .. Len(s \o t), k < l
             PROVE  VersionOf((s \o t)[k]) <= VersionOf((s \o t)[l])
  BY DEF Ascending
<1>4. CASE l \in 1 .. Len(s)
  BY <1>1, <1>2, <1>4 DEF Ascending
<1>5. CASE l \notin 1 .. Len(s) /\ k \in 1 .. Len(s)
  BY <1>1, <1>2, <1>3, <1>5
<1>6. CASE k \notin 1 .. Len(s)
  <2>1. /\ k \in Len(s) + 1 .. Len(s) + Len(t) /\ l \in Len(s) + 1 .. Len(s) + Len(t)
        /\ k - Len(s) \in 1 .. Len(t) /\ l - Len(s) \in 1 .. Len(t) /\ k - Len(s) < l - Len(s)
    BY <1>1, <1>6
  <2>2. VersionOf(t[k - Len(s)]) <= VersionOf(t[l - Len(s)])
    BY <2>1 DEF Ascending
  <2> QED
    BY <1>3, <2>1, <2>2
<1> QED
  BY <1>4, <1>5, <1>6

LEMMA AscendingKept ==
  ASSUME NEW S, NEW s \in Seq(S), Ascending(s), NEW wanted
  PROVE  Ascending(Kept(s, wanted))
BY KeptInOrder DEF Ascending

LEMMA InsertSorts ==
  ASSUME NEW S, NEW s, Lists(s, S), Ascending(s), NEW o, o \notin S, Versioned(S \cup {o})
  PROVE  Lists(Insert(s, o), S \cup {o}) /\ Ascending(Insert(s, o))
<1> DEFINE L == {q \in S : VersionOf(q) <= VersionOf(o)}
           H == {q \in S : VersionOf(q) > VersionOf(o)}
           low == Kept(s, L)
           high == Kept(s, H)
<1>1. s \in Seq(S) /\ ToSet(s) = S /\ Insert(s, o) = (low \o <<o>>) \o high
  BY ListsRange DEF Lists, Insert
<1>2. Lists(low, L) /\ Lists(high, H)
  <2>1. S \cap L = L /\ S \cap H = H
    OBVIOUS
  <2> HIDE DEF L, H
  <2> QED
    BY <2>1, KeptLists
<1>3. Ascending(low) /\ Ascending(high)
  BY <1>1, AscendingKept
<1>4. /\ L \cap {o} = {} /\ (L \cup {o}) \cap H = {} /\ (L \cup {o}) \cup H = S \cup {o}
      /\ \A x \in L : VersionOf(x) <= VersionOf(o)
      /\ \A x \in L \cup {o}, y \in H : VersionOf(x) <= VersionOf(y)
  BY DEF Versioned
<1> HIDE DEF L, H, low, high
<1>5. Lists(low \o <<o>>, L \cup {o})
  BY <1>2, <1>4, OneLists, ConcatLists
<1>6. Lists(Insert(s, o), S \cup {o})
  <2> DEFINE front == low \o <<o>>
  <2>1. Lists(front, L \cup {o}) /\ Insert(s, o) = front \o high
    BY <1>1, <1>5
  <2> HIDE DEF front
  <2>2. Lists(front \o high, (L \cup {o}) \cup H)
    BY <1>2, <1>4, <2>1, ConcatLists
  <2> QED
    BY <1>4, <2>1, <2>2
<1>7. Ascending(low \o <<o>>)
  <2>1. <<o>> \in Seq({o}) /\ Ascending(<<o>>) /\ low \in Seq(L)
    BY <1>2 DEF Ascending, Lists
  <2> QED
    BY <1>3, <1>4, <2>1, AscendingConcat
<1>8. Ascending(Insert(s, o))
  <2>1. low \o <<o>> \in Seq(L \cup {o}) /\ high \in Seq(H)
    BY <1>2, <1>5 DEF Lists
  <2>2. Ascending((low \o <<o>>) \o high)
    BY <1>3, <1>4, <1>7, <2>1, AscendingConcat
  <2> QED
    BY <1>1, <2>2
<1> QED
  BY <1>6, <1>8

InsertNext(c, sorted, o) == Insert(sorted, o)

SortedSoFar(c, group, i, v) == Lists(v, Firsts(group, i)) /\ Ascending(v)

Sorting == INSTANCE FoldFacts WITH Combine <- InsertNext, Holds <- SortedSoFar

LEMMA SortFold ==
  ASSUME NEW group
  PROVE  SortByVersion(group) = Sorting!Fold("none", <<>>, group)
BY DEF SortByVersion, InsertNext, FoldLeft, MapThenFoldSet, Max,
       Sorting!Fold, Sorting!FoldLeft, Sorting!MapThenFoldSet, Sorting!Max

\* sortByVersion sorts: no object is lost or doubled, and none comes before an
\* earlier version.
LEMMA SortSorts ==
  ASSUME NEW S, NEW group, Lists(group, S), Versioned(S)
  PROVE  Lists(SortByVersion(group), S) /\ Ascending(SortByVersion(group))
<1>1. /\ DOMAIN group = 1 .. Len(group) /\ Len(group) \in Nat
      /\ \A i \in 1 .. Len(group) : group[i] \in S /\ group[i] \notin Firsts(group, i - 1)
      /\ Firsts(group, Len(group)) = S
  BY ListsFirsts
<1>2. SortedSoFar("none", group, 0, <<>>)
  <2>1. Firsts(group, 0) = {} /\ Ascending(<<>>)
    BY DEF Firsts, Ascending
  <2> QED
    BY <2>1, EmptyLists DEF SortedSoFar
<1>3. ASSUME NEW i \in 1 .. Len(group), NEW v, SortedSoFar("none", group, i - 1, v)
      PROVE  SortedSoFar("none", group, i, InsertNext("none", v, group[i]))
  <2>1. Firsts(group, i) = Firsts(group, i - 1) \cup {group[i]}
    BY DEF Firsts
  <2>2. group[i] \notin Firsts(group, i - 1)
    BY <1>1
  <2>3. Versioned(Firsts(group, i - 1) \cup {group[i]})
    BY <1>1 DEF Versioned, Firsts
  <2>4. Lists(Insert(v, group[i]), Firsts(group, i - 1) \cup {group[i]})
        /\ Ascending(Insert(v, group[i]))
    BY <1>3, <2>2, <2>3, InsertSorts DEF SortedSoFar
  <2> QED
    BY <2>1, <2>4 DEF SortedSoFar, InsertNext
<1>4. SortedSoFar("none", group, Len(group), Sorting!Fold("none", <<>>, group))
  BY <1>1, <1>2, <1>3, Sorting!FoldInduction
<1> QED
  BY <1>1, <1>4, SortFold DEF SortedSoFar

(***************************************************************************)
(* Picked: the versions of one object that match[version] asks for.        *)
(***************************************************************************)
AddExact(sorted, all, v) == all \o Exactly(sorted, v)

ExactSoFar(sorted, exact, i, v) ==
  /\ v \in Seq(ToSet(sorted))
  /\ ToSet(v) = {o \in ToSet(sorted) : \E j \in 1 .. i : MatchesExact(o, exact[j])}

Exacts == INSTANCE FoldFacts WITH Combine <- AddExact, Holds <- ExactSoFar

LEMMA ExactFold ==
  ASSUME NEW sorted, NEW exact
  PROVE  AllExactly(sorted, exact) = Exacts!Fold(sorted, <<>>, exact)
BY DEF AllExactly, AddExact, FoldLeft, MapThenFoldSet, Max,
       Exacts!Fold, Exacts!FoldLeft, Exacts!MapThenFoldSet, Exacts!Max

LEMMA ConcatIs ==
  ASSUME NEW S, NEW s \in Seq(S), NEW t \in Seq(S)
  PROVE  /\ s \o t \in Seq(S) /\ Len(s \o t) = Len(s) + Len(t)
         /\ \A i \in 1 .. Len(s) : (s \o t)[i] = s[i] /\ i \in 1 .. Len(s \o t)
         /\ \A i \in 1 .. Len(t) : (s \o t)[Len(s) + i] = t[i] /\ Len(s) + i \in 1 .. Len(s \o t)
<1>1. /\ Len(s) \in Nat /\ Len(t) \in Nat /\ Len(s \o t) = Len(s) + Len(t) /\ s \o t \in Seq(S)
  OBVIOUS
<1>2. \A i \in 1 .. Len(s) : (s \o t)[i] = s[i] /\ i \in 1 .. Len(s \o t)
  BY <1>1
<1>3. \A i \in 1 .. Len(t) : (s \o t)[Len(s) + i] = t[i] /\ Len(s) + i \in 1 .. Len(s \o t)
  BY <1>1
<1> QED
  BY <1>1, <1>2, <1>3

LEMMA ConcatRange ==
  ASSUME NEW S, NEW s \in Seq(S), NEW t \in Seq(S)
  PROVE  s \o t \in Seq(S) /\ ToSet(s \o t) = ToSet(s) \cup ToSet(t)
<1>1. /\ Len(s) \in Nat /\ Len(t) \in Nat /\ Len(s \o t) = Len(s) + Len(t) /\ s \o t \in Seq(S)
      /\ DOMAIN s = 1 .. Len(s) /\ DOMAIN t = 1 .. Len(t) /\ DOMAIN (s \o t) = 1 .. Len(s \o t)
  OBVIOUS
<1>2. \A i \in 1 .. Len(s) : (s \o t)[i] = s[i] /\ i \in 1 .. Len(s \o t)
  BY ConcatIs
<1>3. \A i \in 1 .. Len(t) : (s \o t)[Len(s) + i] = t[i] /\ Len(s) + i \in 1 .. Len(s \o t)
  BY ConcatIs
<1>4. \A i \in 1 .. Len(s \o t) : i \in 1 .. Len(s)
                                  \/ (i - Len(s) \in 1 .. Len(t) /\ Len(s) + (i - Len(s)) = i)
  BY <1>1
<1>5. ToSet(s \o t) \subseteq ToSet(s) \cup ToSet(t)
  BY <1>1, <1>2, <1>3, <1>4 DEF ToSet
<1>6. ToSet(s) \cup ToSet(t) \subseteq ToSet(s \o t)
  BY <1>1, <1>2, <1>3 DEF ToSet
<1> QED
  BY <1>1, <1>5, <1>6

ExactOnes(S, exact) == {o \in S : \E j \in DOMAIN exact : MatchesExact(o, exact[j])}

LEMMA ExactPicks ==
  ASSUME NEW S, NEW sorted, Lists(sorted, S), NEW V, NEW exact \in Seq(V)
  PROVE  /\ AllExactly(sorted, exact) \in Seq(S)
         /\ ToSet(AllExactly(sorted, exact)) = ExactOnes(S, exact)
<1>1. ToSet(sorted) = S
  BY ListsRange
<1>2. ExactSoFar(sorted, exact, 0, <<>>)
  BY DEF ExactSoFar, ToSet
<1>3. ASSUME NEW i \in 1 .. Len(exact), NEW v, ExactSoFar(sorted, exact, i - 1, v)
      PROVE  ExactSoFar(sorted, exact, i, AddExact(sorted, v, exact[i]))
  <2> DEFINE M == {o \in S : MatchesExact(o, exact[i])}
             w == Exactly(sorted, exact[i])
  <2>1. Lists(w, M)
    <3>1. w = Kept(sorted, M) /\ S \cap M = M
      BY <1>1 DEF Exactly
    <3> HIDE DEF M, w
    <3> QED
      BY <3>1, KeptLists
  <2>2. w \in Seq(S) /\ ToSet(w) = M
    BY <2>1, ListsRange DEF Lists
  <2>3. v \in Seq(S)
        /\ ToSet(v) = {o \in S : \E j \in 1 .. i - 1 : MatchesExact(o, exact[j])}
    BY <1>1, <1>3 DEF ExactSoFar
  <2>4. v \o w \in Seq(S) /\ ToSet(v \o w) = ToSet(v) \cup M
    BY <2>2, <2>3, ConcatRange
  <2>5. {o \in S : \E j \in 1 .. i : MatchesExact(o, exact[j])}
          = {o \in S : \E j \in 1 .. i - 1 : MatchesExact(o, exact[j])} \cup M
    OBVIOUS
  <2> QED
    BY <1>1, <2>3, <2>4, <2>5 DEF ExactSoFar, AddExact
<1>4. DOMAIN exact = 1 .. Len(exact) /\ Len(exact) \in Nat
  OBVIOUS
<1>5. ExactSoFar(sorted, exact, Len(exact), Exacts!Fold(sorted, <<>>, exact))
  BY <1>2, <1>3, <1>4, Exacts!FoldInduction
<1> QED
  BY <1>1, <1>4, <1>5, ExactFold DEF ExactSoFar, ExactOnes

\* The versions of one object that the filter names.
Wanted(S, f) ==
  {o \in S : \/ "first" \in f.keywords /\ \A q \in S : VersionOf(o) <= VersionOf(q)
             \/ "last" \in f.keywords /\ \A q \in S : VersionOf(q) <= VersionOf(o)
             \/ \E i \in DOMAIN f.exact : MatchesExact(o, f.exact[i])}

VersionsDiffer(S) == \A a, b \in S : a.id = b.id /\ VersionOf(a) = VersionOf(b) => a = b

LEMMA PickedLists ==
  ASSUME NEW S, NEW group, Lists(group, S), S # {}, Versioned(S), VersionsDiffer(S),
         \A a, b \in S : a.id = b.id,
         NEW f, NEW V, f.exact \in Seq(V)
  PROVE  Lists(Picked(group, f), Wanted(S, f))
<1> DEFINE sorted == SortByVersion(group)
           first == IF "first" \in f.keywords THEN <<Head(sorted)>> ELSE <<>>
           last == IF "last" \in f.keywords THEN <<Last(sorted)>> ELSE <<>>
           exact == AllExactly(sorted, f.exact)
           whole == (first \o last) \o exact
<1>1. Lists(sorted, S) /\ Ascending(sorted)
  BY SortSorts
<1>2. Picked(group, f) = OnceEach(whole)
  BY DEF Picked
<1>3. exact \in Seq(S) /\ ToSet(exact) = ExactOnes(S, f.exact)
  <2> HIDE DEF sorted
  <2> QED
    BY <1>1, ExactPicks
<1> HIDE DEF sorted, exact
<1>4. /\ Len(sorted) \in Nat /\ Len(sorted) # 0 /\ sorted \in Seq(S)
      /\ Head(sorted) = sorted[1] /\ Last(sorted) = sorted[Len(sorted)]
      /\ sorted[1] \in S /\ sorted[Len(sorted)] \in S
  <2>1. sorted \in Seq(S) /\ \E i \in 1 .. Len(sorted) : TRUE
    BY <1>1 DEF Lists
  <2> QED
    BY <2>1 DEF Last
<1>5. \A q \in S : VersionOf(sorted[1]) <= VersionOf(q)
                   /\ VersionOf(q) <= VersionOf(sorted[Len(sorted)])
  <2> SUFFICES ASSUME NEW q \in S
               PROVE  VersionOf(sorted[1]) <= VersionOf(q)
                      /\ VersionOf(q) <= VersionOf(sorted[Len(sorted)])
    OBVIOUS
  <2>1. PICK i \in 1 .. Len(sorted) : sorted[i] = q
    BY <1>1 DEF Lists
  <2>2. VersionOf(q) \in Int /\ VersionOf(sorted[1]) \in Int
        /\ VersionOf(sorted[Len(sorted)]) \in Int
    BY <1>4 DEF Versioned
  <2>3. i # 1 => VersionOf(sorted[1]) <= VersionOf(sorted[i])
    BY <1>1, <1>4 DEF Ascending
  <2>4. i # Len(sorted) => VersionOf(sorted[i]) <= VersionOf(sorted[Len(sorted)])
    BY <1>1, <1>4 DEF Ascending
  <2> QED
    BY <2>1, <2>2, <2>3, <2>4
<1>6. ASSUME NEW a \in S, NEW b \in S, VersionOf(a) <= VersionOf(b), VersionOf(b) <= VersionOf(a)
      PROVE  a = b
  <2>1. VersionOf(a) = VersionOf(b)
    BY <1>6 DEF Versioned
  <2> QED
    BY <2>1 DEF VersionsDiffer
<1>7. \A o \in S : (\A q \in S : VersionOf(o) <= VersionOf(q)) <=> o = sorted[1]
  BY <1>4, <1>5, <1>6
<1>8. \A o \in S : (\A q \in S : VersionOf(q) <= VersionOf(o)) <=> o = sorted[Len(sorted)]
  BY <1>4, <1>5, <1>6
<1>9. /\ first \in Seq(S) /\ last \in Seq(S)
      /\ ToSet(first) = {o \in S : "first" \in f.keywords /\ o = sorted[1]}
      /\ ToSet(last) = {o \in S : "last" \in f.keywords /\ o = sorted[Len(sorted)]}
  BY <1>4 DEF ToSet
<1> HIDE DEF first, last
<1>10. first \o last \in Seq(S) /\ ToSet(first \o last) = ToSet(first) \cup ToSet(last)
  BY <1>9, ConcatRange
<1>11. whole \in Seq(S) /\ ToSet(whole) = (ToSet(first) \cup ToSet(last)) \cup ToSet(exact)
  <2> DEFINE ends == first \o last
  <2>1. ends \in Seq(S) /\ ToSet(ends) = ToSet(first) \cup ToSet(last)
    BY <1>10
  <2>2. whole = ends \o exact
    OBVIOUS
  <2> HIDE DEF ends, whole
  <2> QED
    BY <1>3, <2>1, <2>2, ConcatRange
<1> HIDE DEF whole
<1>12. ToSet(whole) = Wanted(S, f)
  BY <1>3, <1>7, <1>8, <1>9, <1>11 DEF Wanted, ExactOnes
<1> QED
  BY <1>2, <1>11, <1>12, OnceLists

(***************************************************************************)
(* ApplyVersionFilter: group by group.                                     *)
(***************************************************************************)
Versions(S, x) == {o \in S : o.id = x}

Grouped(S, f) == {o \in S : o \in Wanted(Versions(S, o.id), f)}

AddGroup(c, result, x) == result \o Picked(Group(c[1], x), c[2])

GroupedSoFar(c, ids, i, v) ==
  Lists(v, {o \in Grouped(ToSet(c[1]), c[2]) : o.id \in Firsts(ids, i)})

Groups == INSTANCE FoldFacts WITH Combine <- AddGroup, Holds <- GroupedSoFar

LEMMA GroupFold ==
  ASSUME NEW rows, NEW f, NEW ids
  PROVE  FoldLeft(LAMBDA result, x : result \o Picked(Group(rows, x), f), <<>>, ids)
           = Groups!Fold(<<rows, f>>, <<>>, ids)
BY DEF AddGroup, FoldLeft, MapThenFoldSet, Max,
       Groups!Fold, Groups!FoldLeft, Groups!MapThenFoldSet, Groups!Max

\* What the version filter leaves, of any rows: each version of an object that
\* is asked for, once.
LEMMA FilterLists ==
  ASSUME NEW S, NEW rows, Lists(rows, S), Versioned(S), VersionsDiffer(S),
         NEW f, NEW V, f.exact \in Seq(V), HasVersion(f), "all" \notin f.keywords
  PROVE  Lists(ApplyVersionFilter(rows, f), Grouped(S, f))
<1> DEFINE all == [i \in DOMAIN rows |-> rows[i].id]
           ids == OnceEach(all)
           c == <<rows, f>>
           X == {o.id : o \in S}
<1>1. all \in Seq(X) /\ ToSet(all) = X /\ ToSet(rows) = S
  <2>1. /\ DOMAIN rows = 1 .. Len(rows) /\ Len(rows) \in Nat
        /\ \A i \in 1 .. Len(rows) : rows[i] \in S
        /\ \A o \in S : \E i \in 1 .. Len(rows) : rows[i] = o
    BY DEF Lists
  <2>2. all \in Seq(X)
    BY <2>1
  <2>3. ToSet(all) = X
    BY <2>1 DEF ToSet
  <2> QED
    BY <2>2, <2>3, ListsRange
<1>2. Lists(ids, X)
  <2> HIDE DEF all, X
  <2> QED
    BY <1>1, OnceLists
<1>3. ApplyVersionFilter(rows, f) = Groups!Fold(c, <<>>, ids)
  BY GroupFold DEF ApplyVersionFilter
<1> HIDE DEF all, ids
<1>4. /\ DOMAIN ids = 1 .. Len(ids) /\ Len(ids) \in Nat
      /\ \A i \in 1 .. Len(ids) : ids[i] \in X /\ ids[i] \notin Firsts(ids, i - 1)
      /\ Firsts(ids, Len(ids)) = X
  <2> HIDE DEF X
  <2> QED
    BY <1>2, ListsFirsts
<1>5. GroupedSoFar(c, ids, 0, <<>>)
  <2>1. {o \in Grouped(ToSet(c[1]), c[2]) : o.id \in Firsts(ids, 0)} = {}
    BY DEF Firsts
  <2> QED
    BY <2>1, EmptyLists DEF GroupedSoFar
<1>6. ASSUME NEW i \in 1 .. Len(ids), NEW v, GroupedSoFar(c, ids, i - 1, v)
      PROVE  GroupedSoFar(c, ids, i, AddGroup(c, v, ids[i]))
  <2> DEFINE x == ids[i]
             Done(j) == {o \in Grouped(S, f) : o.id \in Firsts(ids, j)}
             Here == Wanted(Versions(S, x), f)
  <2>1. Lists(v, Done(i - 1))
    BY <1>1, <1>6 DEF GroupedSoFar
  <2>2. Firsts(ids, i) = Firsts(ids, i - 1) \cup {x} /\ x \notin Firsts(ids, i - 1)
    <3>1. Firsts(ids, i) = Firsts(ids, i - 1) \cup {x}
      BY <1>4 DEF Firsts
    <3>2. x \notin Firsts(ids, i - 1)
      BY <1>4
    <3> QED
      BY <3>1, <3>2
  <2>3. Lists(Group(rows, x), Versions(S, x))
    <3>1. Group(rows, x) = Kept(rows, Versions(S, x)) /\ S \cap Versions(S, x) = Versions(S, x)
      BY <1>1 DEF Group, Versions
    <3> QED
      BY <3>1, KeptLists
  <2>4. /\ Versions(S, x) # {} /\ Versioned(Versions(S, x)) /\ VersionsDiffer(Versions(S, x))
        /\ \A a, b \in Versions(S, x) : a.id = b.id
    BY <1>4 DEF Versions, Versioned, VersionsDiffer
  <2>5. Lists(Picked(Group(rows, x), f), Here)
    BY <2>3, <2>4, PickedLists
  <2>6. Here = {o \in Grouped(S, f) : o.id = x}
    BY DEF Grouped, Wanted, Versions
  <2>7. Done(i) = Done(i - 1) \cup Here /\ Done(i - 1) \cap Here = {}
    BY <2>2, <2>6
  <2> HIDE DEF x, Here, Done
  <2>8. Lists(v \o Picked(Group(rows, x), f), Done(i))
    BY <2>1, <2>5, <2>7, ConcatLists
  <2> QED
    BY <1>1, <2>8 DEF GroupedSoFar, AddGroup, Done, x
<1>7. GroupedSoFar(c, ids, Len(ids), Groups!Fold(c, <<>>, ids))
  <2> HIDE DEF c
  <2> QED
    BY <1>4, <1>5, <1>6, Groups!FoldInduction
<1>8. {o \in Grouped(S, f) : o.id \in X} = Grouped(S, f)
  BY DEF Grouped
<1> QED
  BY <1>1, <1>3, <1>4, <1>7, <1>8 DEF GroupedSoFar

(***************************************************************************)
(* The orders the database may answer in.                                  *)
(***************************************************************************)
Stamped(S) == \A o \in S : o.at \in Int

InStampOrder(s) == \A i, j \in 1 .. Len(s) : i < j => s[i].at <= s[j].at

LEMMA FirstNumbers ==
  ASSUME NEW n \in Nat
  PROVE  IsFiniteSet(1 .. n) /\ Cardinality(1 .. n) = n
<1>1. 1 \in Int /\ n \in Int /\ (IF 1 > n THEN 0 ELSE n - 1 + 1) = n
  OBVIOUS
<1> QED
  BY <1>1, FS_Interval

LEMMA OrdersList ==
  ASSUME NEW rows, IsFiniteSet(rows), NEW order \in Orders(rows)
  PROVE  Lists(order, rows) /\ InStampOrder(order)
<1> DEFINE n == Cardinality(rows)
<1>1. n \in Nat /\ IsFiniteSet(1 .. n) /\ Cardinality(1 .. n) = n
  BY FS_CardinalityType, FirstNumbers
<1>2. /\ order \in [1 .. n -> rows]
      /\ \A i, j \in 1 .. n : i < j => order[i] # order[j] /\ order[i].at <= order[j].at
  BY DEF Orders
<1> HIDE DEF n
<1>3. order \in Seq(rows) /\ Len(order) = n
  BY <1>1, <1>2
<1>4. \A i, j \in 1 .. n : order[i] = order[j] => i = j
  <2> SUFFICES ASSUME NEW i \in 1 .. n, NEW j \in 1 .. n, order[i] = order[j]
               PROVE  i = j
    OBVIOUS
  <2>1. ~(i < j) /\ ~(j < i)
    BY <1>2
  <2> QED
    BY <1>1, <2>1
<1>5. order \in Surjection(1 .. n, rows)
  <2>1. order \in Injection(1 .. n, rows)
    BY <1>2, <1>4 DEF Injection, IsInjective
  <2> QED
    BY <1>1, <2>1, FS_Injection DEF n
<1>6. \A x \in rows : \E i \in 1 .. n : order[i] = x
  BY <1>5 DEF Surjection
<1> QED
  BY <1>2, <1>3, <1>4, <1>6 DEF Lists, Distinct, InStampOrder

\* A list of a set has its length.
LEMMA ListsLength ==
  ASSUME NEW S, NEW s, Lists(s, S)
  PROVE  IsFiniteSet(S) /\ Len(s) = Cardinality(S)
<1>1. s \in [1 .. Len(s) -> S] /\ Len(s) \in Nat
  BY DEF Lists
<1>2. s \in Surjection(1 .. Len(s), S) /\ s \in Injection(1 .. Len(s), S)
  BY <1>1 DEF Lists, Distinct, Surjection, Injection, IsInjective
<1>3. IsFiniteSet(1 .. Len(s)) /\ Cardinality(1 .. Len(s)) = Len(s)
  BY <1>1, FirstNumbers
<1>4. IsFiniteSet(S)
  BY <1>2, <1>3, FS_Surjection
<1>5. Cardinality(S) = Cardinality(1 .. Len(s))
  BY <1>2, <1>3, FS_Surjection
<1> QED
  BY <1>3, <1>4, <1>5

InKeyOrder(key, s) == \A i, j \in 1 .. Len(s) : i < j => key[s[i]] <= key[s[j]]

\* Two lists of a set in the order of a key have the same keys: were the i-th of
\* one smaller, its first i elements would be among the first i - 1 of the other.
LEMMA SameKeys ==
  ASSUME NEW S, NEW key \in [S -> Int],
         NEW s, Lists(s, S), InKeyOrder(key, s), NEW t, Lists(t, S), InKeyOrder(key, t),
         NEW i \in 1 .. Len(s)
  PROVE  key[t[i]] <= key[s[i]]
<1>1. /\ Len(s) = Len(t) /\ Len(s) \in Nat
      /\ \A k \in 1 .. Len(s) : /\ s[k] \in S /\ t[k] \in S
                               /\ key[s[k]] \in Int /\ key[t[k]] \in Int
  <2>1. Len(s) = Len(t)
    BY ListsLength
  <2>2. Len(s) \in Nat /\ \A k \in 1 .. Len(s) : s[k] \in S /\ t[k] \in S
    BY <2>1, ListsFirsts
  <2> QED
    BY <2>1, <2>2
<1> SUFFICES ASSUME key[s[i]] < key[t[i]]
             PROVE  FALSE
  BY <1>1
<1> DEFINE place == [k \in 1 .. i |-> CHOOSE j \in 1 .. Len(t) : t[j] = s[k]]
<1>2. ASSUME NEW k \in 1 .. i
      PROVE  place[k] \in 1 .. i - 1 /\ t[place[k]] = s[k]
  <2>1. k \in 1 .. Len(s) /\ \E j \in 1 .. Len(t) : t[j] = s[k]
    <3>1. k \in 1 .. Len(s) /\ s[k] \in S
      BY <1>1
    <3> QED
      BY <3>1 DEF Lists
  <2>2. place[k] \in 1 .. Len(t) /\ t[place[k]] = s[k]
    BY <2>1
  <2> HIDE DEF place
  <2>3. key[s[k]] <= key[s[i]]
    BY <1>1, <2>1 DEF InKeyOrder
  <2>4. ~(i < place[k]) /\ i # place[k]
    BY <1>1, <2>1, <2>2, <2>3 DEF InKeyOrder
  <2> QED
    BY <1>1, <2>2, <2>4
<1>3. place \in [1 .. i -> 1 .. i - 1]
  BY <1>2
<1> HIDE DEF place
<1>4. /\ IsFiniteSet(1 .. i) /\ IsFiniteSet(1 .. i - 1)
      /\ Cardinality(1 .. i) = i /\ Cardinality(1 .. i - 1) = i - 1
  <2>1. i \in Nat /\ i - 1 \in Nat
    BY <1>1
  <2> QED
    BY <2>1, FirstNumbers
<1>5. PICK k, l \in 1 .. i : k # l /\ place[k] = place[l]
  <2>1. Cardinality(1 .. i - 1) < Cardinality(1 .. i)
    BY <1>1, <1>4
  <2> QED
    BY <1>3, <1>4, <2>1, FS_PigeonHole
<1>6. k \in 1 .. Len(s) /\ l \in 1 .. Len(s)
  BY <1>1
<1>7. s[k] = s[l]
  BY <1>2, <1>5
<1> QED
  BY <1>5, <1>6, <1>7 DEF Lists, Distinct

LEMMA SameStamps ==
  ASSUME NEW S, Stamped(S),
         NEW s, Lists(s, S), InStampOrder(s), NEW t, Lists(t, S), InStampOrder(t)
  PROVE  /\ Stamps(s) = Stamps(t)
         /\ Untied(S) => s = t
<1> DEFINE key == [o \in S |-> o.at]
<1>1. key \in [S -> Int] /\ \A o \in S : key[o] = o.at
  BY DEF Stamped
<1> HIDE DEF key
<1>2. /\ Len(s) = Len(t) /\ DOMAIN s = 1 .. Len(s) /\ DOMAIN t = 1 .. Len(t)
      /\ s \in Seq(S) /\ t \in Seq(S)
      /\ \A i \in 1 .. Len(s) : s[i] \in S /\ t[i] \in S
  <2>1. Len(s) = Len(t)
    BY ListsLength
  <2> QED
    BY <2>1, ListsFirsts DEF Lists
<1>3. InKeyOrder(key, s) /\ InKeyOrder(key, t)
  BY <1>1, <1>2 DEF InKeyOrder, InStampOrder
<1>4. \A i \in 1 .. Len(s) : key[t[i]] <= key[s[i]] /\ key[s[i]] <= key[t[i]]
  BY <1>1, <1>2, <1>3, SameKeys
<1>5. \A i \in 1 .. Len(s) : s[i].at = t[i].at
  BY <1>1, <1>2, <1>4
<1>6. Stamps(s) = Stamps(t)
  BY <1>2, <1>5 DEF Stamps
<1>7. ASSUME Untied(S)
      PROVE  s = t
  <2>1. \A i \in 1 .. Len(s) : s[i] = t[i]
    BY <1>2, <1>5, <1>7 DEF Untied
  <2> QED
    BY <1>2, <2>1
<1> QED
  BY <1>6, <1>7

\* Versions that differ sort in one way only.
LEMMA SameVersions ==
  ASSUME NEW S, Versioned(S), \A a, b \in S : VersionOf(a) = VersionOf(b) => a = b,
         NEW s, Lists(s, S), Ascending(s), NEW t, Lists(t, S), Ascending(t)
  PROVE  s = t
<1> DEFINE key == [o \in S |-> VersionOf(o)]
<1>1. key \in [S -> Int] /\ \A o \in S : key[o] = VersionOf(o)
  BY DEF Versioned
<1> HIDE DEF key
<1>2. /\ Len(s) = Len(t) /\ s \in Seq(S) /\ t \in Seq(S)
      /\ \A i \in 1 .. Len(s) : s[i] \in S /\ t[i] \in S
  <2>1. Len(s) = Len(t)
    BY ListsLength
  <2> QED
    BY <2>1, ListsFirsts DEF Lists
<1>3. InKeyOrder(key, s) /\ InKeyOrder(key, t)
  <2>1. InKeyOrder(key, s)
    BY <1>1, <1>2 DEF InKeyOrder, Ascending
  <2>2. InKeyOrder(key, t)
    BY <1>1, <1>2 DEF InKeyOrder, Ascending
  <2> QED
    BY <2>1, <2>2
<1>4. \A i \in 1 .. Len(s) : key[t[i]] <= key[s[i]] /\ key[s[i]] <= key[t[i]]
  BY <1>1, <1>2, <1>3, SameKeys
<1>5. \A i \in 1 .. Len(s) : s[i] = t[i]
  BY <1>1, <1>2, <1>4
<1> QED
  BY <1>2, <1>5

(***************************************************************************)
(* What an answer lists.                                                   *)
(***************************************************************************)
Content(S) == IsFiniteSet(S) /\ Stamped(S) /\ Versioned(S) /\ VersionsDiffer(S)

LEMMA ContentOfPart ==
  ASSUME NEW S, Content(S), NEW T \in SUBSET S
  PROVE  Content(T)
<1>1. IsFiniteSet(T)
  BY FS_Subset DEF Content
<1> QED
  BY <1>1 DEF Content, Stamped, Versioned, VersionsDiffer

LEMMA MatchingLists ==
  ASSUME NEW S, NEW order, Lists(order, S), NEW f
  PROVE  Lists(Matching(order, f), {o \in S : MatchesNonVersion(o, f)})
<1> DEFINE M == {o \in S : MatchesNonVersion(o, f)}
<1>1. Matching(order, f) = Kept(order, M) /\ S \cap M = M
  BY ListsRange DEF Matching
<1> HIDE DEF M
<1>2. Lists(Matching(order, f), M)
  BY <1>1, KeptLists
<1> QED
  BY <1>2 DEF M

LEMMA EnvelopeLists ==
  ASSUME NEW S, NEW order, Lists(order, S), Versioned(S), VersionsDiffer(S),
         NEW f, NEW V, f.exact \in Seq(V)
  PROVE  Lists(Envelope(order, f), Selected(S, f))
<1> DEFINE M == {o \in S : MatchesNonVersion(o, f)}
<1>1. Lists(Matching(order, f), M)
  BY MatchingLists
<1>2. Versioned(M) /\ VersionsDiffer(M)
  BY DEF Versioned, VersionsDiffer
<1>3. CASE HasVersion(f) /\ "all" \notin f.keywords
  <2>1. Lists(Envelope(order, f), Grouped(M, f))
    <3> HIDE DEF M
    <3> QED
      BY <1>1, <1>2, <1>3, FilterLists DEF Envelope
  <2>2. Grouped(M, f) = Selected(S, f)
    <3>1. ASSUME NEW o \in M
          PROVE  o \in Grouped(M, f) <=> o \in Selected(S, f)
      <4>1. o \in Versions(M, o.id)
        BY DEF Versions
      <4>2. Versions(M, o.id) = {q \in M : q.id = o.id}
        BY DEF Versions
      <4> QED
        BY <1>3, <4>1, <4>2 DEF Grouped, Wanted, Selected
    <3>2. Grouped(M, f) \subseteq M /\ Selected(S, f) \subseteq M
      BY DEF Grouped, Selected
    <3> QED
      BY <3>1, <3>2
  <2> QED
    BY <2>1, <2>2
<1>4. CASE ~(HasVersion(f) /\ "all" \notin f.keywords)
  <2>1. Envelope(order, f) = Matching(order, f)
    BY <1>4 DEF Envelope, ApplyVersionFilter
  <2>2. Selected(S, f) = M
    BY <1>4 DEF Selected
  <2> QED
    BY <1>1, <2>1, <2>2
<1> QED
  BY <1>3, <1>4

LEMMA ManifestLists ==
  ASSUME NEW S, NEW order, Lists(order, S), NEW f
  PROVE  Lists(Manifest(order, f), {o \in S : MatchesOneByOne(o, f)})
<1> DEFINE M == {o \in S : MatchesOneByOne(o, f)}
<1>1. Manifest(order, f) = Kept(order, M) /\ S \cap M = M
  BY ListsRange DEF Manifest
<1> HIDE DEF M
<1>2. Lists(Manifest(order, f), M)
  BY <1>1, KeptLists
<1> QED
  BY <1>2 DEF M

Answered(s, r) ==
  IF r.endpoint = "manifest" THEN {o \in Rows(s, r) : MatchesOneByOne(o, r.filter)}
  ELSE Selected(Rows(s, r), r.filter)

\* The pipes leave a request a request.
LEMMA PipedRequest ==
  ASSUME NEW r, IsRequest(r)
  PROVE  /\ Piped(r).endpoint = r.endpoint /\ Piped(r).object = r.object /\ Piped(r).limit = r.limit
         /\ Piped(r).filter = (IF r.endpoint = "versions" THEN r.filter ELSE Defaulted(r.filter))
         /\ Piped(r).filter.exact = r.filter.exact
<1>1. Defaulted(r.filter).exact = r.filter.exact
  BY DEF Defaulted, IsRequest
<1> QED
  BY <1>1 DEF Piped, IsRequest

LEMMA RowsOfStore ==
  ASSUME NEW s, NEW r
  PROVE  Rows(s, r) \subseteq s
BY DEF Rows, FindByCollection, Newest, FindOne

\* Every order the database may answer in makes a list of the same objects.
LEMMA AnswersList ==
  ASSUME NEW s, Content(s), NEW r, IsRequest(r), NEW answer \in Results(s, r)
  PROVE  Lists(answer, Answered(s, Piped(r)))
<1> DEFINE p == Piped(r)
<1>1. PICK order \in Orders(Rows(s, p)) : answer = Answer(order, p)
  BY DEF Results
<1>2. Content(Rows(s, p))
  BY RowsOfStore, ContentOfPart
<1>3. Lists(order, Rows(s, p))
  BY <1>2, OrdersList DEF Content
<1>4. p.filter.exact \in Seq([instant : Int, millis : BOOLEAN])
  BY PipedRequest DEF IsRequest
<1> HIDE DEF p
<1>5. Lists(Envelope(order, p.filter), Selected(Rows(s, p), p.filter))
  BY <1>2, <1>3, <1>4, EnvelopeLists DEF Content
<1>6. Lists(Manifest(order, p.filter), {o \in Rows(s, p) : MatchesOneByOne(o, p.filter)})
  BY <1>3, ManifestLists
<1>7. Lists(answer, Answered(s, p))
  BY <1>1, <1>5, <1>6 DEF Answer, Answered
<1> QED
  BY <1>7 DEF p

(***************************************************************************)
(* Pages.                                                                  *)
(***************************************************************************)
LEMMA Times ==
  ASSUME NEW limit \in Int, NEW n \in Nat
  PROVE  /\ limit * n \in Int /\ limit * (n + 1) = limit + limit * n
         /\ limit > 0 => limit * n \in Nat
         /\ limit > 0 /\ n > 0 => limit * n > 0
         /\ limit * 0 = 0
OBVIOUS

LEMMA SubSeqIs ==
  ASSUME NEW S, NEW s \in Seq(S), NEW m \in Nat, NEW n \in Nat, 1 <= m, n <= Len(s), m <= n + 1
  PROVE  /\ SubSeq(s, m, n) \in Seq(S) /\ Len(SubSeq(s, m, n)) = n - m + 1
         /\ \A i \in 1 .. n - m + 1 : SubSeq(s, m, n)[i] = s[m + i - 1]
OBVIOUS

\* Whatever the limit and the page, a page holds items of the answer.
LEMMA SliceOf ==
  ASSUME NEW S, NEW s \in Seq(S), NEW from \in Int, NEW to \in Int
  PROVE  Slice(s, from, to) \in Seq(S)
<1> DEFINE m == SliceIndex(from, Len(s)) + 1
           n == SliceIndex(to, Len(s))
<1>1. Len(s) \in Nat /\ m \in Nat /\ n \in Nat /\ 1 <= m /\ n <= Len(s)
  BY DEF SliceIndex
<1> HIDE DEF m, n
<1>2. SubSeq(s, m, n) \in Seq(S)
  <2>1. CASE m <= n + 1
    BY <1>1, <2>1, SubSeqIs
  <2>2. CASE ~(m <= n + 1)
    BY <1>1, <2>2
  <2> QED
    BY <2>1, <2>2
<1> QED
  BY <1>2 DEF Slice, m, n

\* A page that is there continues where the pages before it ended.
LEMMA SliceContinues ==
  ASSUME NEW S, NEW s \in Seq(S), NEW from \in Nat, NEW to \in Nat, from < to, from <= Len(s)
  PROVE  Slice(s, from, to) = SubSeq(s, from + 1, IF to < Len(s) THEN to ELSE Len(s))
<1>1. SliceIndex(from, Len(s)) = from
      /\ SliceIndex(to, Len(s)) = IF to < Len(s) THEN to ELSE Len(s)
  BY DEF SliceIndex
<1> QED
  BY <1>1 DEF Slice

LEMMA PageIs ==
  ASSUME NEW items, NEW limit, limit # NoLimit, NEW n
  PROVE  /\ GetPage(items, limit, n).found <=> limit * n <= Len(items)
         /\ GetPage(items, limit, n).items = Slice(items, limit * n, limit + limit * n)
         /\ GetPage(items, limit, n).more <=> limit + limit * n < Len(items)
         /\ GetPage(items, limit, n).next = n + 1
BY DEF GetPage, LimitedPage, Page

LEMMA WholePage ==
  ASSUME NEW items, NEW n
  PROVE  /\ GetPage(items, NoLimit, n).found
         /\ GetPage(items, NoLimit, n).items = items
         /\ ~GetPage(items, NoLimit, n).more
BY DEF GetPage

(***************************************************************************)
(* The answers are those of the store the root serves.                     *)
(***************************************************************************)
LEMMA StoreContent ==
  ASSUME NEW s \in Stores
  PROVE  Content(s)
BY PagingAssumption DEF Content, Stamped, Versioned, VersionsDiffer

LEMMA AnswersOfStore ==
  ASSUME Current, NEW answer \in answers
  PROVE  /\ Lists(answer, Answered(stored, Piped(request)))
         /\ answer \in Seq(stored)
<1>1. stored \in Stores /\ request \in Requests /\ IsRequest(request)
      /\ answer \in Results(stored, request)
  BY PagingAssumption DEF Current, PagingTypeOK
<1>2. Lists(answer, Answered(stored, Piped(request)))
  BY <1>1, StoreContent, AnswersList
<1>3. Answered(stored, Piped(request)) \subseteq stored
  BY RowsOfStore DEF Answered, Selected
<1> QED
  BY <1>2, <1>3 DEF Lists

LEMMA PageOfStore ==
  ASSUME Current, NEW answer \in answers, NEW n \in Nat
  PROVE  GetPage(answer, request.limit, n).items \in Seq(stored)
<1>1. answer \in Seq(stored)
  BY AnswersOfStore
<1>2. CASE request.limit = NoLimit
  BY <1>1, <1>2, WholePage
<1>3. CASE request.limit # NoLimit
  <2>1. request.limit \in Int
    BY <1>3, PagingAssumption DEF Current, PagingTypeOK, IsRequest
  <2>2. request.limit * n \in Int /\ request.limit + request.limit * n \in Int
    BY <2>1, Times
  <2> QED
    BY <1>1, <1>3, <2>2, SliceOf, PageIs
<1> QED
  BY <1>2, <1>3

LEMMA InitCurrent == Init => Current
<1> SUFFICES ASSUME Init
             PROVE  Current
  OBVIOUS
<1>1. received \in Seq(UNION Stores) /\ next = 0
  BY DEF Init
<1> QED
  BY <1>1 DEF Init, Current, PagingTypeOK

LEMMA NextCurrent == Current /\ [Next]_vars => Current'
<1> SUFFICES ASSUME Current, [Next]_vars
             PROVE  Current'
  OBVIOUS
<1>1. CASE TakePage
  <2>1. PICK answer \in answers :
          LET page == GetPage(answer, request.limit, next)
          IN  /\ page.found
              /\ received' = received \o page.items
              /\ next' = IF page.more THEN page.next ELSE next
              /\ status' = IF page.more THEN "walking" ELSE "done"
    BY <1>1 DEF TakePage
  <2>2. UNCHANGED <<pinned, stored, request, answers>>
    BY <1>1 DEF TakePage
  <2>3. next \in Nat /\ stored \in Stores
    BY DEF Current, PagingTypeOK
  <2>4. received' \in Seq(UNION Stores)
    <3> DEFINE items == GetPage(answer, request.limit, next).items
    <3>1. items \in Seq(stored) /\ received \in Seq(UNION Stores) /\ received' = received \o items
      BY <2>1, <2>3, PageOfStore DEF Current
    <3> HIDE DEF items
    <3>2. items \in Seq(UNION Stores)
      BY <2>3, <3>1
    <3> QED
      BY <3>1, <3>2
  <2>5. next' \in Nat /\ (next' > 0 => request.limit # NoLimit)
    BY <2>1, <2>3, PageIs, WholePage DEF Current
  <2> QED
    BY <2>1, <2>2, <2>4, <2>5 DEF Current, PagingTypeOK
<1>2. CASE BadRequest
  BY <1>2 DEF BadRequest, Current, PagingTypeOK
<1>3. CASE NotFound
  BY <1>3 DEF NotFound, Current, PagingTypeOK
<1>4. CASE CutOver
  BY <1>4 DEF CutOver, Current, PagingTypeOK
<1>5. CASE UNCHANGED vars
  BY <1>5 DEF vars, Current, PagingTypeOK
<1> QED
  BY <1>1, <1>2, <1>3, <1>4, <1>5 DEF Next

LEMMA AlwaysCurrent == Spec => []Current
<1> QED
  BY InitCurrent, NextCurrent, PTL DEF Spec

\* The values the walk of a client can take, whatever is stored and asked: above
\* all, that it only ever receives stored objects.
THEOREM PagingTypeCorrect == Spec => []PagingTypeOK
<1>1. Current => PagingTypeOK
  BY DEF Current
<1> QED
  BY <1>1, AlwaysCurrent, PTL

\* A query for the latest versions reads the newest of each object before it
\* filters: what is left is what the filters select of all versions, as far as it
\* is the newest of all.
LEMMA NewestSelected ==
  ASSUME NEW s, Content(s), NEW f, LatestOnly(f)
  PROVE  Selected(Newest(s), f)
           = {o \in Selected(s, f) : \A q \in s : q.id = o.id => VersionOf(q) <= VersionOf(o)}
<1> DEFINE N == {o \in s : \A q \in s : q.id = o.id => VersionOf(q) <= VersionOf(o)}
<1>1. Newest(s) = N
  <2>1. \A o \in s : VersionOf(o) \in Int /\ o.at \in Int
    BY DEF Content, Versioned, Stamped
  <2>2. \A o, q \in s : q.id = o.id /\ VersionOf(q) = VersionOf(o) => q = o
    BY DEF Content, VersionsDiffer
  <2>3. ASSUME NEW o \in s, NEW q \in s, q.id = o.id
        PROVE  (\/ VersionOf(q) < VersionOf(o)
                \/ VersionOf(q) = VersionOf(o) /\ q.at <= o.at)
                 <=> VersionOf(q) <= VersionOf(o)
    BY <2>1, <2>2, <2>3
  <2> QED
    BY <2>3 DEF Newest
<1>2. CASE ~HasVersion(f)
  BY <1>1, <1>2 DEF Selected
<1>3. CASE f.keywords = {"last"} /\ f.exact = <<>>
  <2>1. HasVersion(f) /\ DOMAIN f.exact = {}
    BY <1>3 DEF HasVersion
  <2>2. \A S : Selected(S, f) = {o \in S : /\ MatchesNonVersion(o, f)
                                          /\ \A q \in S : MatchesNonVersion(q, f) /\ q.id = o.id
                                                            => VersionOf(q) <= VersionOf(o)}
    BY <1>3, <2>1 DEF Selected
  <2> QED
    BY <1>1, <2>2
<1> QED
  BY <1>2, <1>3 DEF LatestOnly

\* objects/, objects/{id} and versions/ answer what the filters select of all
\* versions stored: each object that every filter lets through, once, and no
\* other, for any content of the release, any filter combination and any order
\* of the database; except that objects/ asked for the latest versions gives the
\* newest of all or nothing (filterObjects, applyVersionFilter, latestOnly).
THEOREM EnvelopesAreSelections == Spec => []EnvelopeIsSelection
<1>1. Current => EnvelopeIsSelection
  <2> DEFINE r == Piped(request)
             f == r.filter
             wanted == Selected(Candidates(r), f)
             newest == {o \in wanted : NewestOfAll(o)}
  <2> SUFFICES ASSUME Current, request.endpoint # "manifest", NEW answer \in answers
               PROVE  /\ ToSet(answer) = IF r.endpoint = "objects" /\ LatestOnly(f) THEN newest
                                          ELSE wanted
                      /\ Len(answer) = Cardinality(ToSet(answer))
    BY DEF EnvelopeIsSelection
  <2>1. Lists(answer, Answered(stored, r))
    BY AnswersOfStore
  <2>2. r.endpoint # "manifest"
    BY PagingAssumption, PipedRequest DEF Current, PagingTypeOK
  <2>3. Answered(stored, r) = Selected(Rows(stored, r), f)
    BY <2>2 DEF Answered
  <2>4. ToSet(answer) = Answered(stored, r) /\ Len(answer) = Cardinality(ToSet(answer))
    <3> HIDE DEF r
    <3> QED
      BY <2>1, ListsRange, ListsLength
  <2>5. CASE r.endpoint = "objects" /\ LatestOnly(f)
    <3>1. Content(stored)
      BY StoreContent DEF Current, PagingTypeOK
    <3>2. Rows(stored, r) = Newest(stored) /\ Candidates(r) = stored
      BY <2>5 DEF Rows, FindByCollection, Candidates
    <3>3. Selected(Newest(stored), f) = {o \in Selected(stored, f) : NewestOfAll(o)}
      <4> HIDE DEF f
      <4> QED
        BY <2>5, <3>1, NewestSelected DEF NewestOfAll
    <3> QED
      BY <2>3, <2>4, <2>5, <3>2, <3>3
  <2>6. CASE ~(r.endpoint = "objects" /\ LatestOnly(f))
    <3>1. Rows(stored, r) = Candidates(r)
      BY <2>2, <2>6 DEF Rows, FindByCollection, Candidates
    <3> QED
      BY <2>3, <2>4, <2>6, <3>1
  <2> QED
    BY <2>5, <2>6
<1> QED
  BY <1>1, AlwaysCurrent, PTL

(***************************************************************************)
(* The page a walk is told of exists.                                      *)
(***************************************************************************)
LEMMA SameLength ==
  ASSUME Current, NEW a \in answers, NEW b \in answers
  PROVE  Len(a) = Len(b) /\ Len(a) \in Nat
<1>1. /\ Lists(a, Answered(stored, Piped(request)))
      /\ Lists(b, Answered(stored, Piped(request)))
  BY AnswersOfStore
<1>2. Len(a) = Len(b)
  BY <1>1, ListsLength
<1> QED
  BY <1>1, <1>2 DEF Lists

LEMMA LimitIs ==
  ASSUME Current, PositiveLimits
  PROVE  /\ request \in Requests /\ next \in Nat
         /\ request.limit = NoLimit \/ (request.limit \in Int /\ request.limit > 0)
BY PagingAssumption DEF Current, PagingTypeOK, PositiveLimits, IsRequest

LEMMA NextBounded ==
  ASSUME PositiveLimits, Current, Bounded, [Next]_vars
  PROVE  Bounded'
<1>1. CASE TakePage
  <2>1. PICK answer \in answers :
          LET page == GetPage(answer, request.limit, next)
          IN  next' = IF page.more THEN page.next ELSE next
    BY <1>1 DEF TakePage
  <2>2. UNCHANGED <<pinned, stored, request, answers>>
    BY <1>1 DEF TakePage
  <2>3. SUFFICES ASSUME pinned, next' > 0, NEW b \in answers
                 PROVE  request.limit * next' < Len(b)
    BY <2>2 DEF Bounded
  <2>4. CASE ~GetPage(answer, request.limit, next).more
    BY <2>1, <2>3, <2>4 DEF Bounded
  <2>5. CASE GetPage(answer, request.limit, next).more
    <3>1. request.limit \in Int /\ next \in Nat /\ request.limit # NoLimit
      BY <2>5, LimitIs, WholePage
    <3>2. next' = next + 1 /\ request.limit + request.limit * next < Len(answer)
      BY <2>1, <2>5, <3>1, PageIs
    <3>3. Len(answer) = Len(b)
      BY <2>3, SameLength
    <3> QED
      BY <3>1, <3>2, <3>3, Times
  <2> QED
    BY <2>4, <2>5
<1>2. CASE BadRequest
  BY <1>2 DEF BadRequest, Bounded
<1>3. CASE NotFound
  BY <1>3 DEF NotFound, Bounded
<1>4. CASE CutOver
  BY <1>4 DEF CutOver, Bounded
<1>5. CASE UNCHANGED vars
  BY <1>5 DEF vars, Bounded
<1> QED
  BY <1>1, <1>2, <1>3, <1>4, <1>5 DEF Next

LEMMA AlwaysBounded ==
  ASSUME PositiveLimits
  PROVE  Spec => [](Current /\ Bounded)
<1>1. Init => Current /\ Bounded
  BY InitCurrent DEF Init, Bounded
<1>2. Current /\ Bounded /\ [Next]_vars => (Current /\ Bounded)'
  BY NextCurrent, NextBounded
<1> QED
  BY <1>1, <1>2, PTL DEF Spec

\* Whoever follows the `next` of a pinned root finds a page, and something on it,
\* for any content, request and positive limit (getPage: `isMore` is told from
\* the end of the page).  A limit that is not positive breaks it.
THEOREM PagesExist ==
  ASSUME PositiveLimits
  PROVE  Spec => []NextPageExists
<1>1. Current /\ Bounded => NextPageExists
  <2> SUFFICES ASSUME Current, Bounded, pinned, next > 0, NEW answer \in answers
               PROVE  /\ GetPage(answer, request.limit, next).found
                      /\ GetPage(answer, request.limit, next).items # <<>>
    BY DEF NextPageExists
  <2> DEFINE k == request.limit * next
             m == request.limit + k
             page == GetPage(answer, request.limit, next)
  <2>1. /\ request.limit \in Int /\ request.limit # NoLimit /\ request.limit > 0 /\ next \in Nat
        /\ k < Len(answer)
    BY LimitIs DEF Current, Bounded
  <2>2. k \in Nat /\ m \in Nat /\ k < m
    BY <2>1, Times
  <2>3. (page.found <=> k <= Len(answer)) /\ page.items = Slice(answer, k, m)
    BY <2>1, PageIs
  <2>4. answer \in Seq(stored) /\ Len(answer) \in Nat
    BY AnswersOfStore, SameLength
  <2> HIDE DEF k, m, page
  <2>5. Slice(answer, k, m) = SubSeq(answer, k + 1, IF m < Len(answer) THEN m ELSE Len(answer))
    BY <2>1, <2>2, <2>4, SliceContinues
  <2>6. Len(Slice(answer, k, m)) > 0
    <3> DEFINE e == IF m < Len(answer) THEN m ELSE Len(answer)
    <3>1. /\ k + 1 \in Nat /\ e \in Nat /\ 1 <= k + 1 /\ e <= Len(answer) /\ k + 1 <= e
      BY <2>1, <2>2, <2>4
    <3> HIDE DEF e
    <3>2. Len(SubSeq(answer, k + 1, e)) = e - (k + 1) + 1
      BY <2>4, <3>1, SubSeqIs
    <3> QED
      BY <2>2, <2>5, <3>1, <3>2 DEF e
  <2>7. k <= Len(answer) /\ Slice(answer, k, m) # <<>>
    BY <2>1, <2>2, <2>4, <2>6
  <2> QED
    BY <2>3, <2>7 DEF page
<1> QED
  BY <1>1, AlwaysBounded, PTL

(***************************************************************************)
(* Where the order of the database shows, and where it does not.           *)
(***************************************************************************)
LEMMA ListOfNone ==
  ASSUME NEW s, Lists(s, {})
  PROVE  s = <<>>
BY DEF Lists

LEMMA ListOfOne ==
  ASSUME NEW s, NEW x, Lists(s, {x})
  PROVE  s = <<x>>
<1>1. s \in Seq({x}) /\ \A i \in 1 .. Len(s) : s[i] = x
  BY DEF Lists
<1>2. Len(s) = 1
  <2>1. Len(s) \in Nat /\ Len(s) # 0
    <3>1. Len(s) \in Nat /\ \E i \in 1 .. Len(s) : s[i] = x
      BY DEF Lists
    <3> QED
      BY <3>1
  <2>2. ~(Len(s) > 1)
    <3>1. Len(s) > 1 => s[1] = s[2] /\ 1 \in 1 .. Len(s) /\ 2 \in 1 .. Len(s)
      BY <1>1, <2>1
    <3> QED
      BY <3>1 DEF Lists, Distinct
  <2> QED
    BY <2>1, <2>2
<1> QED
  BY <1>1, <1>2

LEMMA KeptInStampOrder ==
  ASSUME NEW S, NEW s \in Seq(S), InStampOrder(s), NEW wanted
  PROVE  InStampOrder(Kept(s, wanted))
<1> SUFFICES ASSUME NEW k \in 1 .. Len(Kept(s, wanted)), NEW l \in 1 .. Len(Kept(s, wanted)), k < l
             PROVE  Kept(s, wanted)[k].at <= Kept(s, wanted)[l].at
  BY DEF InStampOrder
<1>1. PICK i, j \in 1 .. Len(s) :
        i < j /\ Kept(s, wanted)[k] = s[i] /\ Kept(s, wanted)[l] = s[j]
  BY KeptInOrder
<1> QED
  BY <1>1 DEF InStampOrder

LEMMA PrefixExtends ==
  ASSUME NEW S, NEW s \in Seq(S), NEW i \in 1 .. Len(s)
  PROVE  /\ SubSeq(s, 1, i - 1) \o <<s[i]>> = SubSeq(s, 1, i)
         /\ Append(SubSeq(s, 1, i - 1), s[i]) = SubSeq(s, 1, i)
OBVIOUS

PrefixSoFar(c, s, i, v) == v = SubSeq(s, 1, i)

Leaving == INSTANCE FoldFacts WITH Combine <- AddNew, Holds <- PrefixSoFar

LEMMA OnceOfDistinct ==
  ASSUME NEW S, NEW s \in Seq(S), Distinct(s)
  PROVE  OnceEach(s) = s
<1>1. OnceEach(s) = Leaving!Fold("none", <<>>, s)
  BY DEF OnceEach, AddNew, FoldLeft, MapThenFoldSet, Max,
         Leaving!Fold, Leaving!FoldLeft, Leaving!MapThenFoldSet, Leaving!Max
<1>2. DOMAIN s = 1 .. Len(s) /\ Len(s) \in Nat
  OBVIOUS
<1>3. PrefixSoFar("none", s, 0, <<>>)
  BY DEF PrefixSoFar
<1>4. ASSUME NEW i \in 1 .. Len(s), NEW v, PrefixSoFar("none", s, i - 1, v)
      PROVE  PrefixSoFar("none", s, i, AddNew("none", v, s[i]))
  <2>1. v = SubSeq(s, 1, i - 1) /\ DOMAIN v = 1 .. i - 1 /\ \A k \in 1 .. i - 1 : v[k] = s[k]
    BY <1>2, <1>4 DEF PrefixSoFar
  <2>2. s[i] \notin ToSet(v)
    BY <1>2, <2>1 DEF ToSet, Distinct
  <2>3. AddNew("none", v, s[i]) = Append(v, s[i])
    BY <2>2 DEF AddNew
  <2> QED
    BY <2>1, <2>3, PrefixExtends DEF PrefixSoFar
<1>5. PrefixSoFar("none", s, Len(s), Leaving!Fold("none", <<>>, s))
  BY <1>2, <1>3, <1>4, Leaving!FoldInduction
<1>6. SubSeq(s, 1, Len(s)) = s
  OBVIOUS
<1> QED
  BY <1>1, <1>5, <1>6 DEF PrefixSoFar

RowsSoFar(c, ids, i, v) == v = SubSeq(c[1], 1, i)

Rowwise == INSTANCE FoldFacts WITH Combine <- AddGroup, Holds <- RowsSoFar

\* The last of one version is that version: with "last", the rows of a
\* query for the latest versions go through applyVersionFilter untouched.
LEMMA LatestUntouched ==
  ASSUME NEW S, NEW rows, Lists(rows, S), Versioned(S), \A a, b \in S : a.id = b.id => a = b,
         NEW f, f.keywords = {"last"}, f.exact = <<>>
  PROVE  ApplyVersionFilter(rows, f) = rows
<1> DEFINE ids == [i \in DOMAIN rows |-> rows[i].id]
           c == <<rows, f>>
           X == {o.id : o \in S}
<1>1. /\ DOMAIN rows = 1 .. Len(rows) /\ Len(rows) \in Nat /\ rows \in Seq(S)
      /\ \A i \in 1 .. Len(rows) : rows[i] \in S
  BY DEF Lists
<1>2. ids \in Seq(X) /\ Len(ids) = Len(rows) /\ DOMAIN ids = 1 .. Len(rows)
      /\ \A i \in 1 .. Len(rows) : ids[i] = rows[i].id
  BY <1>1
<1> HIDE DEF ids, X
<1>3. Distinct(ids)
  BY <1>1, <1>2 DEF Distinct, Lists
<1>4. OnceEach(ids) = ids
  BY <1>2, <1>3, OnceOfDistinct
<1>5. ApplyVersionFilter(rows, f)
        = FoldLeft(LAMBDA result, x : result \o Picked(Group(rows, x), f), <<>>, ids)
  BY <1>4 DEF ApplyVersionFilter, HasVersion, ids
<1>6. FoldLeft(LAMBDA result, x : result \o Picked(Group(rows, x), f), <<>>, ids)
        = Rowwise!Fold(c, <<>>, ids)
  BY DEF AddGroup, FoldLeft, MapThenFoldSet, Max,
         Rowwise!Fold, Rowwise!FoldLeft, Rowwise!MapThenFoldSet, Rowwise!Max
<1>7. RowsSoFar(c, ids, 0, <<>>)
  BY DEF RowsSoFar
<1>8. ASSUME NEW i \in 1 .. Len(rows), NEW v, RowsSoFar(c, ids, i - 1, v)
      PROVE  RowsSoFar(c, ids, i, AddGroup(c, v, ids[i]))
  <2> DEFINE o == rows[i]
  <2>1. o \in S /\ ids[i] = o.id /\ v = SubSeq(rows, 1, i - 1)
    BY <1>1, <1>2, <1>8 DEF RowsSoFar
  <2>2. Group(rows, o.id) = Kept(rows, {o}) /\ S \cap {o} = {o}
    <3>1. {q \in S : q.id = o.id} = {o}
      BY <2>1
    <3> QED
      BY <2>1, <3>1, ListsRange DEF Group
  <2> HIDE DEF o
  <2>3. Lists(Group(rows, o.id), {o})
    BY <2>2, KeptLists
  <2>4. Lists(Picked(Group(rows, o.id), f), Wanted({o}, f))
    <3>1. Versioned({o}) /\ VersionsDiffer({o}) /\ f.exact \in Seq({})
      BY <2>1 DEF Versioned, VersionsDiffer
    <3> QED
      BY <2>3, <3>1, PickedLists
  <2>5. Wanted({o}, f) = {o}
    <3>1. VersionOf(o) \in Int
      BY <2>1 DEF Versioned
    <3> QED
      BY <3>1 DEF Wanted
  <2>6. Picked(Group(rows, o.id), f) = <<o>>
    <3>1. Lists(Picked(Group(rows, o.id), f), {o})
      BY <2>4, <2>5
    <3> QED
      BY <3>1, ListOfOne
  <2>7. AddGroup(c, v, ids[i]) = v \o <<o>>
    BY <2>1, <2>6 DEF AddGroup
  <2> QED
    BY <1>1, <2>1, <2>7, PrefixExtends DEF RowsSoFar, o
<1> HIDE DEF c
<1>9. RowsSoFar(c, ids, Len(rows), Rowwise!Fold(c, <<>>, ids))
  BY <1>1, <1>2, <1>7, <1>8, Rowwise!FoldInduction
<1>10. SubSeq(rows, 1, Len(rows)) = rows
  BY <1>1
<1> QED
  BY <1>5, <1>6, <1>9, <1>10 DEF RowsSoFar, c

OnlyGroup(c, ids, i, v) == v = IF i = 0 THEN <<>> ELSE Picked(Group(c[1], ids[i]), c[2])

Alone == INSTANCE FoldFacts WITH Combine <- AddGroup, Holds <- OnlyGroup

LEMMA OneGroup ==
  ASSUME NEW S, NEW rows, Lists(rows, S), S # {}, Versioned(S), VersionsDiffer(S),
         NEW x, \A o \in S : o.id = x,
         NEW f, NEW V, f.exact \in Seq(V), HasVersion(f), "all" \notin f.keywords
  PROVE  /\ ApplyVersionFilter(rows, f) = Picked(Group(rows, x), f)
         /\ Lists(Group(rows, x), S)
<1> DEFINE all == [i \in DOMAIN rows |-> rows[i].id]
           ids == OnceEach(all)
           c == <<rows, f>>
<1>1. /\ DOMAIN rows = 1 .. Len(rows) /\ Len(rows) \in Nat
      /\ \A i \in 1 .. Len(rows) : rows[i] \in S /\ rows[i].id = x
      /\ \E i \in 1 .. Len(rows) : TRUE
  BY DEF Lists
<1>2. Lists(ids, {x})
  <2>1. all \in Seq({x})
    BY <1>1
  <2>2. ToSet(all) = {x}
    BY <1>1 DEF ToSet
  <2> HIDE DEF all
  <2> QED
    BY <2>1, <2>2, OnceLists
<1>3. ApplyVersionFilter(rows, f)
        = FoldLeft(LAMBDA result, y : result \o Picked(Group(rows, y), f), <<>>, ids)
  BY DEF ApplyVersionFilter
<1> HIDE DEF ids
<1>4. FoldLeft(LAMBDA result, y : result \o Picked(Group(rows, y), f), <<>>, ids)
        = Alone!Fold(c, <<>>, ids)
  BY DEF AddGroup, FoldLeft, MapThenFoldSet, Max,
         Alone!Fold, Alone!FoldLeft, Alone!MapThenFoldSet, Alone!Max
<1>5. Lists(Group(rows, x), S)
  <2>1. Group(rows, x) = Kept(rows, S) /\ S \cap S = S
    <3>1. {o \in S : o.id = x} = S
      OBVIOUS
    <3> QED
      BY <3>1, ListsRange DEF Group
  <2> QED
    BY <2>1, KeptLists
<1>6. ids = <<x>>
  BY <1>2, ListOfOne
<1>7. OnlyGroup(c, ids, 0, <<>>)
  BY DEF OnlyGroup
<1>8. ASSUME NEW i \in 1 .. 1, NEW v, OnlyGroup(c, ids, i - 1, v)
      PROVE  OnlyGroup(c, ids, i, AddGroup(c, v, ids[i]))
  <2> DEFINE p == Picked(Group(rows, x), f)
  <2>1. Lists(p, Wanted(S, f))
    <3>1. \A a, b \in S : a.id = b.id
      OBVIOUS
    <3> HIDE DEF p
    <3> QED
      BY <1>5, <3>1, PickedLists DEF p
  <2>2. v = <<>> /\ i = 1 /\ i # 0 /\ ids[i] = x
    BY <1>6, <1>8 DEF OnlyGroup
  <2>3. <<>> \o p = p
    <3> HIDE DEF p
    <3> QED
      BY <2>1 DEF Lists
  <2> QED
    BY <2>2, <2>3 DEF OnlyGroup, AddGroup
<1>9. DOMAIN ids = 1 .. 1
  BY <1>6
<1> HIDE DEF c
<1>10. OnlyGroup(c, ids, 1, Alone!Fold(c, <<>>, ids))
  BY <1>7, <1>8, <1>9, Alone!FoldInduction
<1>11. Alone!Fold(c, <<>>, ids) = Picked(Group(rows, x), f)
  <2>1. ids[1] = x /\ 1 # 0
    BY <1>6
  <2>2. Alone!Fold(c, <<>>, ids) = Picked(Group(c[1], ids[1]), c[2])
    BY <1>10, <2>1 DEF OnlyGroup
  <2>3. c[1] = rows /\ c[2] = f
    BY DEF c
  <2> QED
    BY <2>1, <2>2, <2>3
<1> QED
  BY <1>3, <1>4, <1>5, <1>11

\* The versions of one object are picked from a list sorted by version: the order
\* of the database does not show.
LEMMA SameObject ==
  ASSUME NEW S, NEW s, Lists(s, S), NEW t, Lists(t, S), Versioned(S), VersionsDiffer(S),
         NEW x, \A o \in S : o.id = x,
         NEW f, NEW V, f.exact \in Seq(V), HasVersion(f), "all" \notin f.keywords
  PROVE  ApplyVersionFilter(s, f) = ApplyVersionFilter(t, f)
<1>1. CASE S = {}
  BY <1>1, ListOfNone
<1>2. CASE S # {}
  <2>1. /\ ApplyVersionFilter(s, f) = Picked(Group(s, x), f) /\ Lists(Group(s, x), S)
        /\ ApplyVersionFilter(t, f) = Picked(Group(t, x), f) /\ Lists(Group(t, x), S)
    BY <1>2, OneGroup
  <2>2. \A a, b \in S : VersionOf(a) = VersionOf(b) => a = b
    BY DEF VersionsDiffer
  <2>3. SortByVersion(Group(s, x)) = SortByVersion(Group(t, x))
    <3>1. /\ Lists(SortByVersion(Group(s, x)), S) /\ Ascending(SortByVersion(Group(s, x)))
          /\ Lists(SortByVersion(Group(t, x)), S) /\ Ascending(SortByVersion(Group(t, x)))
      BY <2>1, SortSorts
    <3> QED
      BY <2>2, <3>1, SameVersions
  <2>4. Picked(Group(s, x), f) = Picked(Group(t, x), f)
    BY <2>3 DEF Picked
  <2> QED
    BY <2>1, <2>4
<1> QED
  BY <1>1, <1>2

LEMMA NewestDiffer ==
  ASSUME NEW s, Versioned(s), VersionsDiffer(s), NEW a \in Newest(s), NEW b \in Newest(s), a.id = b.id
  PROVE  a = b
<1>1. a \in s /\ b \in s /\ VersionOf(a) \in Int /\ VersionOf(b) \in Int
  BY DEF Newest, Versioned
<1>2. VersionOf(a) = VersionOf(b)
  <2>1. VersionOf(a) < VersionOf(b) \/ VersionOf(a) = VersionOf(b)
    BY <1>1 DEF Newest
  <2>2. VersionOf(b) < VersionOf(a) \/ VersionOf(b) = VersionOf(a)
    BY <1>1 DEF Newest
  <2> QED
    BY <1>1, <2>1, <2>2
<1> QED
  BY <1>1, <1>2 DEF VersionsDiffer

\* Without a grouping that moves anything, an answer is in the order of the stamps.
Ungrouped(R, f) ==
  \/ ~HasVersion(f) \/ "all" \in f.keywords
  \/ f.keywords = {"last"} /\ f.exact = <<>> /\ \A a, b \in R : a.id = b.id => a = b

LEMMA EnvelopeUngrouped ==
  ASSUME NEW R, Content(R), NEW order \in Orders(R), NEW f, Ungrouped(R, f)
  PROVE  Envelope(order, f) = Matching(order, f) /\ InStampOrder(Envelope(order, f))
<1> DEFINE M == {o \in R : MatchesNonVersion(o, f)}
<1>1. Lists(order, R) /\ InStampOrder(order) /\ order \in Seq(R)
  BY OrdersList DEF Content, Lists
<1>2. InStampOrder(Matching(order, f))
  BY <1>1, KeptInStampOrder DEF Matching
<1>3. Envelope(order, f) = Matching(order, f)
  <2>1. CASE ~HasVersion(f) \/ "all" \in f.keywords
    BY <2>1 DEF Envelope, ApplyVersionFilter
  <2>2. CASE f.keywords = {"last"} /\ f.exact = <<>> /\ \A a, b \in R : a.id = b.id => a = b
    <3>1. Lists(Matching(order, f), M)
      BY <1>1, MatchingLists
    <3>2. Versioned(M) /\ \A a, b \in M : a.id = b.id => a = b
      BY <2>2 DEF Content, Versioned
    <3> HIDE DEF M
    <3> QED
      BY <2>2, <3>1, <3>2, LatestUntouched DEF Envelope
  <2> QED
    BY <2>1, <2>2 DEF Ungrouped
<1> QED
  BY <1>2, <1>3

LEMMA UntiedPart ==
  ASSUME NEW S, Untied(S), NEW T \in SUBSET S
  PROVE  Untied(T)
BY DEF Untied

LEMMA OneOrder ==
  ASSUME NEW R, Content(R), Untied(R), NEW s \in Orders(R), NEW t \in Orders(R)
  PROVE  s = t
<1>1. Lists(s, R) /\ InStampOrder(s) /\ Lists(t, R) /\ InStampOrder(t)
  BY OrdersList DEF Content
<1> QED
  BY <1>1, SameStamps DEF Content

\* The answers to a request differ at most in the order of objects of one
\* millisecond, unless the request regroups and there are such objects.
LEMMA AnswersAgree ==
  ASSUME Current, ~Regroups(request) \/ Untied(stored), NEW a \in answers, NEW b \in answers
  PROVE  Stamps(a) = Stamps(b)
<1> DEFINE p == Piped(request)
           f == p.filter
           R == Rows(stored, p)
<1>1. /\ stored \in Stores /\ Content(stored) /\ IsRequest(request)
      /\ p.endpoint = request.endpoint /\ p.object = request.object
      /\ f.exact \in Seq([instant : Int, millis : BOOLEAN])
  <2>1. stored \in Stores /\ IsRequest(request)
    BY PagingAssumption DEF Current, PagingTypeOK
  <2> QED
    BY <2>1, StoreContent, PipedRequest DEF IsRequest
<1>2. PICK s, t \in Orders(R) : a = Answer(s, p) /\ b = Answer(t, p)
  BY DEF Current, Results
<1>3. Content(R) /\ R \subseteq stored
  BY <1>1, RowsOfStore, ContentOfPart
<1>4. /\ Lists(s, R) /\ InStampOrder(s) /\ s \in Seq(R)
      /\ Lists(t, R) /\ InStampOrder(t) /\ t \in Seq(R)
  BY <1>3, OrdersList DEF Content, Lists
<1>5. CASE Untied(stored)
  <2>1. s = t
    <3>1. Untied(R)
      BY <1>3, <1>5, UntiedPart
    <3> HIDE DEF R
    <3> QED
      BY <1>2, <1>3, <3>1, OneOrder
  <2> QED
    BY <1>2, <2>1
<1>6. ASSUME InStampOrder(a), InStampOrder(b)
      PROVE  Stamps(a) = Stamps(b)
  <2>1. Lists(a, Answered(stored, p)) /\ Lists(b, Answered(stored, p))
    BY AnswersOfStore
  <2>2. Stamped(Answered(stored, p))
    BY <1>3 DEF Answered, Selected, Stamped, Content
  <2> HIDE DEF p
  <2> QED
    BY <1>6, <2>1, <2>2, SameStamps
<1>7. CASE request.endpoint = "manifest"
  <2>1. InStampOrder(a) /\ InStampOrder(b)
    BY <1>1, <1>2, <1>4, <1>7, KeptInStampOrder DEF Answer, Manifest
  <2> QED
    BY <1>6, <2>1
<1>8. ASSUME request.endpoint # "manifest", Ungrouped(R, f)
      PROVE  Stamps(a) = Stamps(b)
  <2>1. a = Envelope(s, f) /\ b = Envelope(t, f)
    BY <1>1, <1>2, <1>8 DEF Answer
  <2> HIDE DEF R, f
  <2>2. InStampOrder(a) /\ InStampOrder(b)
    BY <1>2, <1>3, <1>8, <2>1, EnvelopeUngrouped
  <2> QED
    BY <1>6, <2>2
<1>9. CASE request.endpoint = "objects" /\ ~Regroups(request)
  <2>1. CASE ~HasVersion(f) \/ "all" \in f.keywords
    BY <1>8, <1>9, <2>1 DEF Ungrouped
  <2>2. CASE HasVersion(f) /\ "all" \notin f.keywords
    <3>1. LatestOnly(f) /\ f.keywords = {"last"} /\ f.exact = <<>>
      BY <1>9, <2>2 DEF Regroups, LatestOnly
    <3>2. R = Newest(stored)
      BY <1>1, <1>9, <3>1 DEF Rows, FindByCollection
    <3>3. \A x, y \in R : x.id = y.id => x = y
      BY <1>1, <3>2, NewestDiffer DEF Content
    <3> QED
      BY <1>8, <1>9, <3>1, <3>3 DEF Ungrouped
  <2> QED
    BY <2>1, <2>2
<1>10. CASE request.endpoint \in {"object", "versions"}
  <2>1. CASE ~HasVersion(f) \/ "all" \in f.keywords
    BY <1>8, <1>10, <2>1 DEF Ungrouped
  <2>2. CASE HasVersion(f) /\ "all" \notin f.keywords
    <3> DEFINE M == {o \in R : MatchesNonVersion(o, f)}
               u == Matching(s, f)
               v == Matching(t, f)
               x == p.object
    <3>1. a = ApplyVersionFilter(u, f) /\ b = ApplyVersionFilter(v, f)
      BY <1>1, <1>2, <1>10 DEF Answer, Envelope
    <3>2. Lists(u, M) /\ Lists(v, M)
      <4> HIDE DEF R, f
      <4> QED
        BY <1>4, MatchingLists
    <3>3. \A o \in M : o.id = x
      BY <1>1, <1>10 DEF Rows, FindOne
    <3>4. Versioned(M) /\ VersionsDiffer(M)
      BY <1>3 DEF Content, Versioned, VersionsDiffer
    <3>5. f.exact \in Seq([instant : Int, millis : BOOLEAN])
      BY <1>1
    <3> HIDE DEF M, u, v, x, p, f
    <3>6. a = b
      BY <2>2, <3>1, <3>2, <3>3, <3>4, <3>5, SameObject
    <3> QED
      BY <3>6
  <2> QED
    BY <2>1, <2>2
<1> QED
  BY <1>1, <1>5, <1>7, <1>9, <1>10 DEF IsRequest

(***************************************************************************)
(* A walk receives the answer.                                             *)
(***************************************************************************)

LEMMA EqualStamps ==
  ASSUME NEW S, NEW s \in Seq(S), NEW t \in Seq(S)
  PROVE  Stamps(s) = Stamps(t) <=> Len(s) = Len(t) /\ \A i \in 1 .. Len(s) : s[i].at = t[i].at
<1>1. /\ DOMAIN s = 1 .. Len(s) /\ DOMAIN t = 1 .. Len(t) /\ Len(s) \in Nat /\ Len(t) \in Nat
  OBVIOUS
<1>2. DOMAIN Stamps(s) = 1 .. Len(s) /\ DOMAIN Stamps(t) = 1 .. Len(t)
  BY <1>1 DEF Stamps
<1>3. \A i \in 1 .. Len(s) : Stamps(s)[i] = s[i].at
  BY <1>1 DEF Stamps
<1>4. \A i \in 1 .. Len(t) : Stamps(t)[i] = t[i].at
  BY <1>1 DEF Stamps
<1>5. ASSUME Stamps(s) = Stamps(t)
      PROVE  Len(s) = Len(t) /\ \A i \in 1 .. Len(s) : s[i].at = t[i].at
  <2>1. 1 .. Len(s) = 1 .. Len(t)
    BY <1>2, <1>5
  <2>2. ~(Len(s) < Len(t))
    <3>1. Len(s) < Len(t) => Len(t) \in 1 .. Len(t) /\ Len(t) \notin 1 .. Len(s)
      BY <1>1
    <3> QED
      BY <2>1, <3>1
  <2>3. ~(Len(t) < Len(s))
    <3>1. Len(t) < Len(s) => Len(s) \in 1 .. Len(s) /\ Len(s) \notin 1 .. Len(t)
      BY <1>1
    <3> QED
      BY <2>1, <3>1
  <2>4. Len(s) = Len(t)
    <3> DEFINE m == Len(s)
               n == Len(t)
    <3>1. m \in Nat /\ n \in Nat /\ ~(m < n) /\ ~(n < m)
      BY <1>1, <2>2, <2>3
    <3> HIDE DEF m, n
    <3>2. m = n
      BY <3>1
    <3> QED
      BY <3>2 DEF m, n
  <2> QED
    BY <1>3, <1>4, <1>5, <2>4
<1>6. ASSUME Len(s) = Len(t), \A i \in 1 .. Len(s) : s[i].at = t[i].at
      PROVE  Stamps(s) = Stamps(t)
  BY <1>1, <1>6 DEF Stamps
<1> QED
  BY <1>5, <1>6

\* One more page: what agreed with a prefix of b agrees with a longer one.
LEMMA PrefixGrows ==
  ASSUME NEW S, NEW v \in Seq(S), NEW a \in Seq(S), NEW b \in Seq(S), Stamps(a) = Stamps(b),
         NEW k \in Nat, NEW m \in Nat, k <= m, m <= Len(a), Stamps(v) = Stamps(SubSeq(b, 1, k))
  PROVE  Stamps(v \o SubSeq(a, k + 1, m)) = Stamps(SubSeq(b, 1, m))
<1> DEFINE t == SubSeq(a, k + 1, m)
           p == SubSeq(b, 1, k)
           w == SubSeq(b, 1, m)
<1>1. Len(a) \in Nat /\ Len(b) \in Nat /\ Len(v) \in Nat
  OBVIOUS
<1>2. Len(a) = Len(b) /\ \A i \in 1 .. Len(a) : a[i].at = b[i].at
  BY EqualStamps
<1>3. /\ t \in Seq(S) /\ Len(t) = m - k /\ \A i \in 1 .. m - k : t[i] = a[k + i]
  <2>1. /\ t \in Seq(S) /\ Len(t) = m - (k + 1) + 1
        /\ \A i \in 1 .. m - (k + 1) + 1 : t[i] = a[k + 1 + i - 1]
    <3>1. k + 1 \in Nat /\ 1 <= k + 1 /\ k + 1 <= m + 1
      OBVIOUS
    <3> QED
      BY <3>1, SubSeqIs
  <2> HIDE DEF t
  <2> QED
    BY <2>1
<1>4. /\ p \in Seq(S) /\ Len(p) = k /\ DOMAIN p = 1 .. k /\ \A i \in 1 .. k : p[i] = b[i]
      /\ w \in Seq(S) /\ Len(w) = m /\ DOMAIN w = 1 .. m /\ \A i \in 1 .. m : w[i] = b[i]
  BY <1>1, <1>2
<1> HIDE DEF t, p, w
<1>5. Len(v) = k /\ \A i \in 1 .. k : v[i].at = b[i].at
  <2>1. Len(v) = Len(p) /\ \A i \in 1 .. Len(v) : v[i].at = p[i].at
    BY <1>4, EqualStamps DEF p
  <2> QED
    BY <1>4, <2>1
<1>6. /\ v \o t \in Seq(S) /\ Len(v \o t) = m
      /\ \A i \in 1 .. k : (v \o t)[i] = v[i]
      /\ \A i \in 1 .. m - k : (v \o t)[k + i] = t[i]
  <2>1. /\ v \o t \in Seq(S) /\ Len(v \o t) = Len(v) + Len(t)
        /\ \A i \in 1 .. Len(v) : (v \o t)[i] = v[i]
        /\ \A i \in 1 .. Len(t) : (v \o t)[Len(v) + i] = t[i]
    <3>1. t \in Seq(S)
      BY <1>3
    <3>2. v \o t \in Seq(S) /\ Len(v \o t) = Len(v) + Len(t)
      BY <3>1, ConcatIs
    <3>3. \A i \in 1 .. Len(v) : (v \o t)[i] = v[i]
      BY <3>1, ConcatIs
    <3>4. \A i \in 1 .. Len(t) : (v \o t)[Len(v) + i] = t[i]
      BY <3>1, ConcatIs
    <3> QED
      BY <3>2, <3>3, <3>4
  <2> QED
    BY <1>3, <1>5, <2>1
<1>7. ASSUME NEW i \in 1 .. m
      PROVE  (v \o t)[i].at = w[i].at
  <2>1. CASE i <= k
    BY <1>4, <1>5, <1>6, <2>1
  <2>2. CASE ~(i <= k)
    <3>1. i - k \in 1 .. m - k /\ k + (i - k) = i /\ i \in 1 .. Len(a)
      BY <1>1, <2>2
    <3>2. (v \o t)[i] = t[i - k] /\ t[i - k] = a[i]
      BY <1>3, <1>6, <3>1
    <3> QED
      BY <1>2, <1>4, <3>1, <3>2
  <2> QED
    BY <2>1, <2>2
<1>8. Stamps(v \o t) = Stamps(w)
  <2> DEFINE z == v \o t
  <2>1. z \in Seq(S) /\ Len(z) = Len(w) /\ \A i \in 1 .. Len(z) : z[i].at = w[i].at
    BY <1>4, <1>6, <1>7
  <2> HIDE DEF z
  <2>2. Stamps(z) = Stamps(w)
    BY <1>4, <2>1, EqualStamps
  <2> QED
    BY <2>2 DEF z
<1> QED
  BY <1>8 DEF t, w

LEMMA WholeSubSeq ==
  ASSUME NEW S, NEW s \in Seq(S)
  PROVE  SubSeq(s, 1, Len(s)) = s /\ SubSeq(s, 1, 0) = <<>> /\ Len(s) \in Nat
OBVIOUS

\* The part of every answer that a page of one answer completes.
LEMMA PageCompletes ==
  ASSUME PositiveLimits, Current, status = "walking", NEW answer \in answers, NEW b \in answers,
         Stamps(answer) = Stamps(b), received \in Seq(stored),
         GetPage(answer, request.limit, next).found,
         Stamps(received) = Stamps(SoFar(b))
  PROVE  Stamps(received \o GetPage(answer, request.limit, next).items)
           = Stamps(IF GetPage(answer, request.limit, next).more
                    THEN SubSeq(b, 1, request.limit * (next + 1)) ELSE b)
<1> DEFINE page == GetPage(answer, request.limit, next)
<1>1. /\ answer \in Seq(stored) /\ b \in Seq(stored)
      /\ Len(answer) \in Nat /\ Len(answer) = Len(b)
  BY AnswersOfStore, SameLength
<1>2. next \in Nat
  BY LimitIs
<1>3. CASE request.limit = NoLimit
  <2>1. page.items = answer /\ ~page.more /\ SoFar(b) = <<>>
    BY <1>3, WholePage DEF SoFar
  <2> HIDE DEF page
  <2>2. answer = SubSeq(answer, 0 + 1, Len(answer)) /\ SubSeq(b, 1, Len(b)) = b
        /\ SubSeq(b, 1, 0) = <<>>
    BY <1>1, WholeSubSeq
  <2>3. Stamps(received \o SubSeq(answer, 0 + 1, Len(answer))) = Stamps(SubSeq(b, 1, Len(answer)))
    <3>1. 0 \in Nat /\ 0 <= Len(answer) /\ Len(answer) <= Len(answer)
      BY <1>1
    <3>2. Stamps(received) = Stamps(SubSeq(b, 1, 0))
      BY <2>1, <2>2
    <3> QED
      BY <1>1, <3>1, <3>2, PrefixGrows
  <2>4. Stamps(received \o page.items) = Stamps(IF page.more THEN SubSeq(b, 1, request.limit * (next + 1)) ELSE b)
    BY <1>1, <2>1, <2>2, <2>3
  <2> QED
    BY <2>4 DEF page
<1>4. CASE request.limit # NoLimit
  <2> DEFINE k == request.limit * next
             m == request.limit + k
             e == IF m < Len(answer) THEN m ELSE Len(answer)
  <2>1. request.limit \in Int /\ request.limit > 0
    BY <1>4, LimitIs
  <2>2. k \in Nat /\ m \in Nat /\ k < m /\ request.limit * (next + 1) = m
    BY <1>2, <2>1, Times
  <2>3. /\ (page.found <=> k <= Len(answer)) /\ page.items = Slice(answer, k, m)
        /\ (page.more <=> m < Len(answer))
    <3> HIDE DEF e
    <3> QED
      BY <1>4, PageIs
  <2>4. SoFar(b) = SubSeq(b, 1, k)
    BY <1>4 DEF SoFar
  <2>5. page.found /\ k <= Len(answer)
    BY <2>3
  <2> HIDE DEF k, m, page
  <2>6. page.items = SubSeq(answer, k + 1, e)
    BY <1>1, <2>2, <2>3, <2>5, SliceContinues
  <2>7. e \in Nat /\ k <= e /\ e <= Len(answer)
    BY <1>1, <2>2, <2>5
  <2> HIDE DEF e
  <2>8. Stamps(received) = Stamps(SubSeq(b, 1, k))
    BY <2>4
  <2>9. Stamps(received \o SubSeq(answer, k + 1, e)) = Stamps(SubSeq(b, 1, e))
    BY <1>1, <2>2, <2>7, <2>8, PrefixGrows
  <2>10. SubSeq(b, 1, e) = IF page.more THEN SubSeq(b, 1, request.limit * (next + 1)) ELSE b
    BY <1>1, <2>2, <2>3, WholeSubSeq DEF e
  <2>11. Stamps(received \o page.items)
           = Stamps(IF page.more THEN SubSeq(b, 1, request.limit * (next + 1)) ELSE b)
    BY <2>6, <2>9, <2>10
  <2> QED
    BY <2>11 DEF page
<1> QED
  BY <1>3, <1>4

LEMMA InitFollowed ==
  ASSUME PositiveLimits, Init
  PROVE  Followed
<1>1. received = <<>> /\ next = 0 /\ status = "walking" /\ answers = Results(stored, request)
  BY DEF Init
<1>2. ToSet(received) \subseteq stored
  BY <1>1 DEF ToSet
<1>3. ASSUME NEW b \in answers
      PROVE  Stamps(received) = Stamps(SoFar(b))
  <2>1. Current
    BY InitCurrent
  <2>2. b \in Seq(stored)
    BY <2>1, AnswersOfStore
  <2>3. request.limit # NoLimit => request.limit * next = 0
    BY <1>1, <2>1, LimitIs, Times
  <2>4. SoFar(b) = <<>>
    BY <1>1, <2>2, <2>3, WholeSubSeq DEF SoFar
  <2> QED
    BY <1>1, <2>4
<1> QED
  BY <1>1, <1>2, <1>3 DEF Followed

LEMMA NextFollowed ==
  ASSUME PositiveLimits, Current, Followed, [Next]_vars
  PROVE  Followed'
<1>1. CASE TakePage
  <2>1. PICK answer \in answers :
          LET page == GetPage(answer, request.limit, next)
          IN  /\ page.found
              /\ received' = received \o page.items
              /\ next' = IF page.more THEN page.next ELSE next
              /\ status' = IF page.more THEN "walking" ELSE "done"
    BY <1>1 DEF TakePage
  <2>2. UNCHANGED <<pinned, stored, request, answers>> /\ status = "walking"
    BY <1>1 DEF TakePage
  <2> DEFINE page == GetPage(answer, request.limit, next)
  <2> SUFFICES ASSUME pinned
               PROVE  /\ ToSet(received') \subseteq stored
                      /\ answers # {}
                      /\ ~Regroups(request) \/ Untied(stored) =>
                           \A b \in answers : Stamps(received') = Stamps(SoFar(b)')
    BY <2>2 DEF Followed
  <2>3. received \in Seq(stored) /\ ToSet(received) \subseteq stored
    <3>1. ToSet(received) \subseteq stored /\ received \in Seq(UNION Stores)
      BY DEF Followed, Current
    <3>2. received \in Seq(ToSet(received))
      BY <3>1, SeqRange
    <3> QED
      BY <3>1, <3>2
  <2>4. ToSet(received') \subseteq stored
    <3>1. page.items \in Seq(stored) /\ received' = received \o page.items
      BY <2>1, PageOfStore DEF Current, PagingTypeOK
    <3> HIDE DEF page
    <3>2. ToSet(received') = ToSet(received) \cup ToSet(page.items)
      BY <2>3, <3>1, ConcatRange
    <3> QED
      BY <2>3, <3>1, <3>2, SeqRange
  <2>5. ASSUME ~Regroups(request) \/ Untied(stored), NEW b \in answers
        PROVE  Stamps(received') = Stamps(SoFar(b)')
    <3>1. Stamps(answer) = Stamps(b)
      BY <2>5, AnswersAgree
    <3>2. Stamps(received) = Stamps(SoFar(b))
      BY <2>5 DEF Followed
    <3>3. Stamps(received \o page.items)
            = Stamps(IF page.more THEN SubSeq(b, 1, request.limit * (next + 1)) ELSE b)
      BY <2>1, <2>2, <2>3, <3>1, <3>2, PageCompletes
    <3>4. SoFar(b)' = IF page.more THEN SubSeq(b, 1, request.limit * (next + 1)) ELSE b
      <4>1. CASE page.more
        <5>1. request.limit # NoLimit /\ next' = next + 1 /\ status' = "walking"
          BY <2>1, <4>1, WholePage, PageIs
        <5> QED
          BY <2>2, <4>1, <5>1 DEF SoFar
      <4>2. CASE ~page.more
        <5>1. status' = "done"
          BY <2>1, <4>2
        <5> QED
          BY <4>2, <5>1 DEF SoFar
      <4> QED
        BY <4>1, <4>2
    <3> QED
      BY <2>1, <3>3, <3>4
  <2> QED
    BY <2>4, <2>5
<1>2. CASE BadRequest
  BY <1>2 DEF BadRequest, Followed, SoFar
<1>3. CASE NotFound
  BY <1>3 DEF NotFound, Followed, SoFar
<1>4. CASE CutOver
  BY <1>4 DEF CutOver, Followed
<1>5. CASE UNCHANGED vars
  BY <1>5 DEF vars, Followed, SoFar
<1> QED
  BY <1>1, <1>2, <1>3, <1>4, <1>5 DEF Next

\* The inductive invariant of a walk.
THEOREM WalkInductive ==
  ASSUME PositiveLimits
  PROVE  Spec => []WalkInv
<1>1. Init => WalkInv
  BY InitCurrent, InitFollowed DEF WalkInv, Init, Bounded
<1>2. WalkInv /\ [Next]_vars => WalkInv'
  <2> SUFFICES ASSUME WalkInv, [Next]_vars
               PROVE  WalkInv'
    OBVIOUS
  <2>1. Current /\ Bounded /\ Followed
    BY DEF WalkInv
  <2>2. Current' /\ Bounded' /\ Followed'
    BY <2>1, NextCurrent, NextBounded, NextFollowed
  <2> QED
    BY <2>2 DEF WalkInv
<1> QED
  BY <1>1, <1>2, PTL DEF Spec

\* A walk of a pinned root that no two stored objects share a millisecond of is
\* given, page by page, the answer of one request without a limit: nothing lost,
\* nothing twice, nothing moved, though the query is run again for every page and
\* the page cut out of its answer (getPage), for any content and request.
THEOREM WalksAreAnswers ==
  ASSUME PositiveLimits
  PROVE  Spec => []WalkIsAnswer
<1>1. WalkInv => WalkIsAnswer
  <2> SUFFICES ASSUME WalkInv, pinned, status = "done", Untied(stored)
               PROVE  received \in answers
    BY DEF WalkIsAnswer
  <2>1. /\ Current /\ ToSet(received) \subseteq stored /\ answers # {}
        /\ \A answer \in answers : Stamps(received) = Stamps(SoFar(answer))
    BY DEF WalkInv, Followed
  <2>2. PICK answer \in answers : TRUE
    BY <2>1
  <2>3. SoFar(answer) = answer
    BY DEF SoFar
  <2>4. received \in Seq(stored) /\ answer \in Seq(stored)
    <3>1. received \in Seq(ToSet(received))
      BY <2>1, SeqRange DEF Current
    <3> QED
      BY <2>1, <3>1, AnswersOfStore
  <2>5. Len(received) = Len(answer) /\ \A i \in 1 .. Len(received) : received[i].at = answer[i].at
    BY <2>1, <2>3, <2>4, EqualStamps
  <2>6. \A i \in 1 .. Len(received) : received[i] \in stored /\ answer[i] \in stored
    BY <2>4, <2>5
  <2>7. \A i \in 1 .. Len(received) : received[i] = answer[i]
    BY <2>5, <2>6 DEF Untied
  <2>8. received = answer
    BY <2>4, <2>5, <2>7
  <2> QED
    BY <2>8
<1> QED
  BY <1>1, WalkInductive, PTL

\* Objects stamped in one millisecond may change places between two pages; unless
\* the request regroups, none leaves its millisecond, and the walk has as many
\* items as the answer.
THEOREM TiesStay ==
  ASSUME PositiveLimits
  PROVE  Spec => []TiesStayInPlace
<1>1. WalkInv => TiesStayInPlace
  BY DEF WalkInv, Followed, SoFar, TiesStayInPlace
<1> QED
  BY <1>1, WalkInductive, PTL

(***************************************************************************)
(* The manifest and objects/.                                              *)
(***************************************************************************)
LEMMA AsIs ==
  ASSUME NEW endpoint, NEW x, NEW f
  PROVE  /\ As(endpoint, x, f).endpoint = endpoint /\ As(endpoint, x, f).object = x
         /\ As(endpoint, x, f).filter = f /\ As(endpoint, x, f).limit = NoLimit
BY DEF As

LEMMA PipedAs ==
  ASSUME NEW endpoint \in {"objects", "manifest", "object"}, NEW x, NEW f
  PROVE  /\ Piped(As(endpoint, x, f)).endpoint = endpoint
         /\ Piped(As(endpoint, x, f)).object = x
         /\ Piped(As(endpoint, x, f)).filter = Defaulted(f)
BY DEF As, Piped

\* The filters of a manifest and of an envelope let the same objects through.
SameSelection(f) == f.keywords = {} \/ f.keywords = {"all"} \/ LatestOnly(f)

\* One of four forms is left of such a filter.
OneSelection(f) ==
  \/ f.keywords = {} /\ f.exact # <<>>
  \/ f.keywords = {"all"}
  \/ f.keywords = {"last"} /\ LatestOnly(f)
  \/ ~HasVersion(f)

LEMMA DefaultedIs ==
  ASSUME NEW r, IsRequest(r), SameSelection(r.filter)
  PROVE  Defaulted(r.filter).exact = r.filter.exact /\ OneSelection(Defaulted(r.filter))
<1>1. CASE HasVersion(r.filter) \/ r.filter.form = "blank"
  BY <1>1 DEF Defaulted, HasVersion, LatestOnly, SameSelection, OneSelection
<1>2. CASE ~HasVersion(r.filter) /\ r.filter.form # "blank"
  BY <1>2 DEF Defaulted, HasVersion, LatestOnly, OneSelection, IsRequest
<1> QED
  BY <1>1, <1>2

LEMMA ManifestSelects ==
  ASSUME NEW s, Content(s), NEW f, OneSelection(f)
  PROVE  LET R == FindByCollection(s, f)
         IN  {o \in R : MatchesOneByOne(o, f)} = Selected(R, f)
<1> DEFINE R == FindByCollection(s, f)
<1>1. CASE f.keywords = {} /\ f.exact # <<>>
  BY <1>1 DEF MatchesOneByOne, Selected
<1>2. CASE f.keywords = {"all"}
  BY <1>2 DEF MatchesOneByOne, Selected
<1>4. CASE ~HasVersion(f)
  BY <1>4 DEF MatchesOneByOne, Selected
<1>3. CASE f.keywords = {"last"} /\ LatestOnly(f)
  <2>1. R = Newest(s)
    BY <1>3 DEF FindByCollection
  <2>2. \A a, b \in R : a.id = b.id => a = b
    BY <2>1, NewestDiffer DEF Content
  <2>3. \A o \in R : VersionOf(o) <= VersionOf(o)
    <3>1. R \subseteq s
      BY <2>1 DEF Newest
    <3> QED
      BY <3>1 DEF Content, Versioned
  <2> HIDE DEF R
  <2>4. {o \in R : MatchesOneByOne(o, f)} = Selected(R, f)
    BY <1>3, <2>2, <2>3 DEF MatchesOneByOne, Selected
  <2> QED
    BY <2>4 DEF R
<1> QED
  BY <1>1, <1>2, <1>3, <1>4 DEF OneSelection

\* The manifest lists what objects/ returns, for every query that does not ask
\* for "first", nor for "last" with something else; in the same order too, unless
\* the query regroups (isMatch against applyVersionFilter).
THEOREM ManifestIsEnvelope == Spec => []ManifestListsEnvelope
<1>1. ASSUME Current
      PROVE  ManifestListsEnvelope
  <2> DEFINE f == request.filter
             m == As("manifest", request.object, f)
             e == As("objects", request.object, f)
             g == Defaulted(f)
             R == FindByCollection(stored, g)
             O == Orders(R)
  <2>1. stored \in Stores /\ Content(stored) /\ IsRequest(request)
    BY <1>1, PagingAssumption, StoreContent DEF Current, PagingTypeOK
  <2> SUFFICES ASSUME SameSelection(f)
               PROVE  /\ {ToSet(a) : a \in Results(stored, m)} = {ToSet(a) : a \in Results(stored, e)}
                      /\ ~Regroups(e) => Results(stored, m) = Results(stored, e)
    BY DEF ManifestListsEnvelope, SameSelection
  <2>2. g.exact = f.exact /\ OneSelection(g)
    BY <2>1, DefaultedIs
  <2>3. g.exact \in Seq([instant : Int, millis : BOOLEAN])
    BY <2>1, <2>2 DEF IsRequest
  <2>4. Content(R)
    <3>1. R \subseteq stored
      BY DEF FindByCollection, Newest
    <3> QED
      BY <2>1, <3>1, ContentOfPart
  <2>5. Results(stored, m) = {Manifest(o, g) : o \in O}
    <3>1. /\ Piped(m).endpoint = "manifest" /\ Piped(m).filter = g
      BY PipedAs
    <3>2. Rows(stored, Piped(m)) = R
      BY <3>1 DEF Rows
    <3>3. \A o : Answer(o, Piped(m)) = Manifest(o, g)
      BY <3>1 DEF Answer
    <3> QED
      BY <3>2, <3>3 DEF Results
  <2>6. Results(stored, e) = {Envelope(o, g) : o \in O}
    <3>1. /\ Piped(e).endpoint = "objects" /\ Piped(e).filter = g
      BY PipedAs
    <3>2. Rows(stored, Piped(e)) = R
      BY <3>1 DEF Rows
    <3>3. \A o : Answer(o, Piped(e)) = Envelope(o, g)
      BY <3>1 DEF Answer
    <3> QED
      BY <3>2, <3>3 DEF Results
  <2>7. {o \in R : MatchesOneByOne(o, g)} = Selected(R, g)
    <3> HIDE DEF g
    <3> QED
      BY <2>1, <2>2, ManifestSelects
  <2> HIDE DEF g, R, O
  <2>8. ASSUME NEW o \in O
        PROVE  ToSet(Manifest(o, g)) = Selected(R, g) /\ ToSet(Envelope(o, g)) = Selected(R, g)
    <3>1. Lists(o, R)
      BY <2>4, <2>8, OrdersList DEF O, Content
    <3>2. Lists(Manifest(o, g), Selected(R, g))
      BY <2>7, <3>1, ManifestLists
    <3>3. Lists(Envelope(o, g), Selected(R, g))
      BY <2>3, <2>4, <3>1, EnvelopeLists DEF Content
    <3> QED
      BY <3>2, <3>3, ListsRange
  <2>9. {ToSet(a) : a \in Results(stored, m)} = {ToSet(a) : a \in Results(stored, e)}
    BY <2>5, <2>6, <2>8
  <2>10. ASSUME ~Regroups(e), NEW o \in O
         PROVE  Manifest(o, g) = Envelope(o, g)
    <3>1. Piped(e).filter = g /\ e.endpoint = "objects"
      BY PipedAs, AsIs DEF g
    <3>2. "all" \in g.keywords \/ LatestOnly(g)
      BY <2>10, <3>1 DEF Regroups
    <3>3. g.keywords = {"all"} \/ (g.keywords = {"last"} /\ LatestOnly(g)) \/ ~HasVersion(g)
      BY <2>2, <3>2 DEF LatestOnly, OneSelection
    <3>4. Ungrouped(R, g)
      <4>1. CASE g.keywords = {"all"}
        BY <4>1 DEF Ungrouped
      <4>3. CASE ~HasVersion(g)
        BY <4>3 DEF Ungrouped
      <4>2. CASE g.keywords = {"last"} /\ LatestOnly(g) /\ HasVersion(g)
        <5>1. R = Newest(stored)
          BY <4>2 DEF R, FindByCollection
        <5>2. \A a, b \in R : a.id = b.id => a = b
          BY <2>1, <5>1, NewestDiffer DEF Content
        <5> QED
          BY <4>2, <5>2 DEF Ungrouped, LatestOnly
      <4> QED
        BY <3>3, <4>1, <4>2, <4>3
    <3>5. Envelope(o, g) = Matching(o, g)
      BY <2>4, <2>10, <3>4, EnvelopeUngrouped DEF O
    <3>6. \A x : MatchesOneByOne(x, g) <=> MatchesNonVersion(x, g)
      BY <3>3 DEF MatchesOneByOne
    <3>7. {x \in ToSet(o) : MatchesOneByOne(x, g)} = {x \in ToSet(o) : MatchesNonVersion(x, g)}
      BY <3>6
    <3> QED
      BY <3>5, <3>7 DEF Manifest, Matching
  <2> QED
    BY <2>5, <2>6, <2>9, <2>10
<1> QED
  BY <1>1, AlwaysCurrent, PTL

(***************************************************************************)
(* The database always has an order to answer in.                          *)
(***************************************************************************)
LEMMA OneLess ==
  ASSUME NEW R, IsFiniteSet(R), NEW x \in R
  PROVE  Cardinality(R \ {x}) = Cardinality(R) - 1
BY FS_RemoveElement

LEMMA LastStamped ==
  ASSUME NEW S, IsFiniteSet(S), Stamped(S), S # {}
  PROVE  \E m \in S : \A o \in S : o.at <= m.at
<1> DEFINE Has(R) == \E m \in R : \A o \in R : o.at <= m.at
           T == {n \in Nat : \A R \in SUBSET S : Cardinality(R) = n + 1 => Has(R)}
<1>1. 0 \in T
  <2> SUFFICES ASSUME NEW R \in SUBSET S, Cardinality(R) = 1
               PROVE  Has(R)
    OBVIOUS
  <2>1. IsFiniteSet(R)
    BY FS_Subset
  <2>2. PICK x : R = {x}
    BY <2>1, FS_Singleton
  <2> QED
    BY <2>2 DEF Stamped
<1>2. ASSUME NEW n \in Nat, n \in T
      PROVE  n + 1 \in T
  <2> SUFFICES ASSUME NEW R \in SUBSET S, Cardinality(R) = (n + 1) + 1
               PROVE  Has(R)
    OBVIOUS
  <2>1. IsFiniteSet(R) /\ R # {}
    BY FS_Subset, FS_EmptySet
  <2>2. PICK x \in R : TRUE
    BY <2>1
  <2>3. Cardinality(R \ {x}) = n + 1 /\ R \ {x} \in SUBSET S
    <3>1. Cardinality(R \ {x}) = Cardinality(R) - 1
      BY <2>1, <2>2, OneLess
    <3>2. Cardinality(R) = (n + 1) + 1
      OBVIOUS
    <3> QED
      BY <3>1, <3>2
  <2>4. PICK m \in R \ {x} : \A o \in R \ {x} : o.at <= m.at
    BY <1>2, <2>3
  <2>5. x.at \in Int /\ m.at \in Int /\ \A o \in R : o.at \in Int
    BY DEF Stamped
  <2>6. CASE x.at <= m.at
    BY <2>4, <2>6
  <2>7. CASE ~(x.at <= m.at)
    BY <2>2, <2>4, <2>5, <2>7
  <2> QED
    BY <2>6, <2>7
<1>3. \A n \in Nat : n \in T
  <2> HIDE DEF T
  <2> QED
    BY <1>1, <1>2, Once!NatSetInduction
<1>4. Cardinality(S) \in Nat /\ Cardinality(S) # 0
  BY FS_CardinalityType, FS_EmptySet
<1>5. Cardinality(S) - 1 \in T /\ Cardinality(S) = (Cardinality(S) - 1) + 1
  BY <1>3, <1>4
<1> QED
  BY <1>5

LEMMA OrdersExist ==
  ASSUME NEW S, IsFiniteSet(S), Stamped(S)
  PROVE  Orders(S) # {}
<1> DEFINE T == {n \in Nat : \A R \in SUBSET S : Cardinality(R) = n => Orders(R) # {}}
<1>1. 0 \in T
  <2> SUFFICES ASSUME NEW R \in SUBSET S, Cardinality(R) = 0
               PROVE  Orders(R) # {}
    OBVIOUS
  <2> DEFINE s == [k \in 1 .. 0 |-> k]
  <2>1. s \in Orders(R)
    BY DEF Orders
  <2> QED
    BY <2>1
<1>2. ASSUME NEW n \in Nat, n \in T
      PROVE  n + 1 \in T
  <2> SUFFICES ASSUME NEW R \in SUBSET S, Cardinality(R) = n + 1
               PROVE  Orders(R) # {}
    OBVIOUS
  <2>1. IsFiniteSet(R) /\ R # {} /\ Stamped(R)
    BY FS_Subset, FS_EmptySet DEF Stamped
  <2>2. PICK m \in R : \A o \in R : o.at <= m.at
    BY <2>1, LastStamped
  <2>3. Cardinality(R \ {m}) = n /\ R \ {m} \in SUBSET S
    <3>1. Cardinality(R \ {m}) = Cardinality(R) - 1
      BY <2>1, OneLess
    <3>2. Cardinality(R) = n + 1
      OBVIOUS
    <3> QED
      BY <3>1, <3>2
  <2>4. PICK s \in Orders(R \ {m}) : TRUE
    BY <1>2, <2>3
  <2>5. /\ s \in [1 .. n -> R \ {m}]
        /\ \A i, j \in 1 .. n : i < j => s[i] # s[j] /\ s[i].at <= s[j].at
    BY <2>3 DEF Orders
  <2> DEFINE t == [k \in 1 .. n + 1 |-> IF k = n + 1 THEN m ELSE s[k]]
  <2>6. t \in [1 .. n + 1 -> R]
    BY <2>5
  <2>7. ASSUME NEW i \in 1 .. n + 1, NEW j \in 1 .. n + 1, i < j
        PROVE  t[i] # t[j] /\ t[i].at <= t[j].at
    <3>1. i \in 1 .. n /\ t[i] = s[i] /\ s[i] \in R /\ s[i] # m
      BY <2>5, <2>7
    <3>2. CASE j = n + 1
      BY <2>2, <3>1, <3>2
    <3>3. CASE j # n + 1
      BY <2>5, <2>7, <3>1, <3>3
    <3> QED
      BY <3>2, <3>3
  <2> HIDE DEF t
  <2>8. t \in Orders(R)
    BY <2>6, <2>7 DEF Orders
  <2> QED
    BY <2>8
<1>3. \A n \in Nat : n \in T
  <2> HIDE DEF T
  <2> QED
    BY <1>1, <1>2, Once!NatSetInduction
<1>4. Cardinality(S) \in T
  BY <1>3, FS_CardinalityType
<1> QED
  BY <1>4

\* Whatever a manifest or versions/ list, objects/{id} returns when asked for that
\* id and version, and nothing else, for any content and request
\* (findOne and matchesExactVersion).
THEOREM ListedIsReturned == Spec => []ListedIsRetrievable
<1>1. ASSUME Current, NEW answer \in answers, NEW i \in DOMAIN answer
      PROVE  LET version == [instant |-> VersionOf(answer[i]), millis |-> TRUE]
                 f == [id |-> {}, type |-> {}, spec |-> {}, after |-> Absent,
                       keywords |-> {}, exact |-> <<version>>, form |-> "usual"]
             IN  Results(stored, As("object", answer[i].id, f)) = {<<answer[i]>>}
  <2> DEFINE o == answer[i]
             version == [instant |-> VersionOf(o), millis |-> TRUE]
             f == [id |-> {}, type |-> {}, spec |-> {}, after |-> Absent,
                   keywords |-> {}, exact |-> <<version>>, form |-> "usual"]
             r == As("object", o.id, f)
             R == FindOne(stored, o.id)
  <2>1. Content(stored) /\ o \in stored
    <3>1. stored \in Stores /\ answer \in Seq(stored)
      BY <1>1, AnswersOfStore DEF Current, PagingTypeOK
    <3> QED
      BY <3>1, StoreContent
  <2>2. VersionOf(o) \in Int
    BY <2>1 DEF Content, Versioned
  <2> HIDE DEF o
  <2>3. IsRequest(r)
    <3>1. version \in [instant : Int, millis : BOOLEAN]
      BY <2>2
    <3> HIDE DEF version
    <3>2. <<version>> \in Seq([instant : Int, millis : BOOLEAN])
      BY <3>1
    <3> QED
      BY <3>2 DEF IsRequest, As
  <2>4. Piped(r).endpoint = "object" /\ Piped(r).object = o.id /\ Piped(r).filter = f
    <3>1. Defaulted(f) = f
      BY DEF Defaulted, HasVersion
    <3> QED
      BY <3>1, PipedAs
  <2>5. Rows(stored, Piped(r)) = R
    BY <2>4 DEF Rows
  <2>6. Answered(stored, Piped(r)) = Selected(R, f)
    BY <2>4, <2>5 DEF Answered
  <2>7. Selected(R, f) = {o}
    <3>1. \A q \in R : MatchesNonVersion(q, f)
      BY DEF MatchesNonVersion
    <3>2. HasVersion(f) /\ f.keywords = {}
      BY DEF HasVersion
    <3>3. \A q : (\E k \in DOMAIN f.exact : MatchesExact(q, f.exact[k]))
                   <=> VersionOf(q) = VersionOf(o)
      BY DEF MatchesExact
    <3> HIDE DEF f
    <3>4. Selected(R, f) = {q \in R : VersionOf(q) = VersionOf(o)}
      BY <3>1, <3>2, <3>3 DEF Selected
    <3>5. {q \in R : VersionOf(q) = VersionOf(o)} = {o}
      BY <2>1 DEF FindOne, Content, VersionsDiffer
    <3> QED
      BY <3>4, <3>5
  <2>8. Content(R)
    <3>1. R \subseteq stored
      BY DEF FindOne
    <3> QED
      BY <2>1, <3>1, ContentOfPart
  <2> HIDE DEF r, R, f
  <2>9. \A a \in Results(stored, r) : a = <<o>>
    <3> SUFFICES ASSUME NEW a \in Results(stored, r)
                 PROVE  a = <<o>>
      OBVIOUS
    <3>1. Lists(a, Answered(stored, Piped(r)))
      BY <2>1, <2>3, AnswersList
    <3>2. Lists(a, {o})
      BY <2>6, <2>7, <3>1
    <3> QED
      BY <3>2, ListOfOne
  <2>10. Results(stored, r) # {}
    <3>1. Orders(R) # {}
      BY <2>8, OrdersExist DEF Content
    <3> QED
      BY <2>5, <3>1 DEF Results
  <2>11. Results(stored, r) = {<<o>>}
    BY <2>9, <2>10
  <2> QED
    BY <2>11 DEF o, r, f
<1>2. Current => ListedIsRetrievable
  BY <1>1 DEF ListedIsRetrievable
<1> QED
  BY <1>2, AlwaysCurrent, PTL
================================================================================
