----------------------------- MODULE Pages_proofs -----------------------------
(***************************************************************************)
(* Proofs about Pages, for every limit and offset and every bound: what a  *)
(* walk may miss and repeat, by counting at the boundary it has reached.   *)
(***************************************************************************)
EXTENDS Pages, TLAPS, FiniteSetTheorems, SequenceTheorems

-----------------------------------------------------------------------------
(* The inductive invariant. *)

Known == 1..(initial + added)

(* The resources are numbered up to those created so far, and each that is *)
(* not listed was deleted.                                                 *)
ListAgrees ==
    /\ added # 0 \/ removed # 0 => pc # "idle"
    /\ entries \in Seq(Known) /\ IsInjective(entries)
    /\ Len(entries) + removed = initial + added
    /\ result # NoList => result \in Seq(Known) /\ IsInjective(result)
    /\ first \in Seq(Known) /\ IsInjective(first)
    /\ seen \in Seq(Known)

(* A walk that has come to position k and has shown the items of s: what   *)
(* lies before k and was not shown is there because of a deletion, what    *)
(* lies behind it and was shown because of a creation.                     *)
Before(k) == {entries[i] : i \in {j \in DOMAIN entries : j <= k}}
Behind(k) == {entries[i] : i \in {j \in DOMAIN entries : j > k}}

Hidden(s, k) == (ToSet(first) \cap Before(k)) \ ToSet(s)
Again(s, k)  == Behind(k) \cap ToSet(s)
Left(s)      == (ToSet(first) \cap ToSet(entries)) \ ToSet(s)

RepeatsBy(s, k) == Len(s) - Cardinality(ToSet(s)) + Cardinality(Again(s, k))

HasCome(s, k) ==
    /\ RepeatsBy(s, k) <= added
    /\ ~ masked => Cardinality(Hidden(s, k)) <= removed

HasEnded(s) == ~ masked => Cardinality(Left(s)) <= removed

ItemsOf(res) == IF res = NoList THEN << >> ELSE res
Reached      == params.offset + params.limit
Page         == paginate(ItemsOf(result), params).items

WalkAgrees ==
    /\ pc \in {"asked", "listed", "failed"} => HasCome(seen, params.offset)
    /\ pc = "listed" =>
          /\ HasCome(seen \o Page, Reached)
          /\ Reached >= Len(ItemsOf(result)) => HasEnded(seen \o Page)
    /\ pc = "paged" =>
          /\ HasCome(seen, Reached)
          /\ Reached >= total => HasEnded(seen)
    /\ pc = "done" => HasEnded(seen)
    /\ Repeats <= added

(* A walk begins with nothing, and only what page_params admits is listed. *)
PositionsAgree ==
    /\ pc = "idle" => seen = << >>
    /\ pc \in {"idle", "asked", "listed", "paged"} => failures <= MaxRetries
    /\ pc \in {"listed", "paged", "failed"} => page_params(params)

Invariant == TypeOK /\ ListAgrees /\ WalkAgrees /\ PositionsAgree

-----------------------------------------------------------------------------
(* Slices, and the lists that creations and deletions leave. *)

LEMMA SliceIsPart ==
    ASSUME NEW S, NEW s \in Seq(S), NEW a \in Nat, NEW b \in Int
    PROVE  /\ slice(s, a, b) \in Seq(S)
           /\ Len(slice(s, a, b)) <= Len(s)
           /\ \A i \in 1..Len(slice(s, a, b)) :
                 a + i \in 1..Len(s) /\ a + i <= b /\ slice(s, a, b)[i] = s[a + i]
           /\ \A j \in 1..Len(s) :
                 j > a /\ j <= b => j - a \in 1..Len(slice(s, a, b))
<1> DEFINE m == a + 1
           n == IF b < Len(s) THEN b ELSE Len(s)
<1>1. m \in Int /\ n \in Int /\ \A i \in m..n : s[i] \in S
  OBVIOUS
<1>2. slice(s, a, b) = SubSeq(s, m, n)
  BY DEF slice
<1> HIDE DEF m, n
<1>3. /\ SubSeq(s, m, n) \in Seq(S)
      /\ Len(SubSeq(s, m, n)) = IF m <= n THEN n - m + 1 ELSE 0
      /\ \A i \in 1..(n - m + 1) : SubSeq(s, m, n)[i] = s[m + i - 1]
  BY <1>1, SubSeqProperties
<1> QED
  BY <1>2, <1>3 DEF m, n

LEMMA InsertedIsList ==
    ASSUME NEW S, NEW s \in Seq(S), NEW i \in 1..(Len(s) + 1), NEW e \in S
    PROVE  /\ InsertAt(s, i, e) \in Seq(S)
           /\ Len(InsertAt(s, i, e)) = Len(s) + 1
           /\ \A j \in 1..(Len(s) + 1) :
                 InsertAt(s, i, e)[j] =
                     IF j < i THEN s[j] ELSE IF j = i THEN e ELSE s[j - 1]
<1> DEFINE p == SubSeq(s, 1, i - 1)
           q == SubSeq(s, i, Len(s))
<1>1. /\ p \in Seq(S) /\ Len(p) = i - 1
      /\ \A j \in 1..(i - 1) : p[j] = s[j]
  BY SubSeqProperties
<1>2. /\ q \in Seq(S) /\ Len(q) = Len(s) - i + 1
      /\ \A j \in 1..(Len(s) - i + 1) : q[j] = s[i + j - 1]
  BY SubSeqProperties
<1>3. InsertAt(s, i, e) = (p \o <<e>>) \o q
  BY DEF InsertAt
<1> HIDE DEF p, q
<1>4. <<e>> \in Seq(S) /\ Len(<<e>>) = 1 /\ <<e>>[1] = e
  OBVIOUS
<1>5. /\ p \o <<e>> \in Seq(S) /\ Len(p \o <<e>>) = i
      /\ \A j \in 1..i : (p \o <<e>>)[j] = IF j < i THEN p[j] ELSE e
  BY <1>1, <1>4, ConcatProperties
<1>6. /\ (p \o <<e>>) \o q \in Seq(S)
      /\ Len((p \o <<e>>) \o q) = Len(s) + 1
      /\ \A j \in 1..(Len(s) + 1) :
            ((p \o <<e>>) \o q)[j] = IF j <= i THEN (p \o <<e>>)[j] ELSE q[j - i]
  <2>1. PICK u \in Seq(S) : u = p \o <<e>>
    BY <1>5
  <2>2. Len(u) = i
    BY <1>5, <2>1
  <2>3. /\ u \o q \in Seq(S) /\ Len(u \o q) = Len(u) + Len(q)
        /\ \A j \in 1..(Len(u) + Len(q)) :
              (u \o q)[j] = IF j <= Len(u) THEN u[j] ELSE q[j - Len(u)]
    BY <1>2, ConcatProperties
  <2>4. Len(u) + Len(q) = Len(s) + 1
    BY <1>2, <2>2
  <2> QED
    BY <2>1, <2>2, <2>3, <2>4
<1> QED
  BY <1>1, <1>2, <1>3, <1>5, <1>6

LEMMA RemovedIsList ==
    ASSUME NEW S, NEW s \in Seq(S), NEW i \in 1..Len(s)
    PROVE  /\ RemoveAt(s, i) \in Seq(S)
           /\ Len(RemoveAt(s, i)) = Len(s) - 1
           /\ \A j \in 1..(Len(s) - 1) :
                 RemoveAt(s, i)[j] = IF j < i THEN s[j] ELSE s[j + 1]
<1> DEFINE p == SubSeq(s, 1, i - 1)
           q == SubSeq(s, i + 1, Len(s))
<1>1. /\ p \in Seq(S) /\ Len(p) = i - 1
      /\ \A j \in 1..(i - 1) : p[j] = s[j]
  BY SubSeqProperties
<1>2. /\ q \in Seq(S) /\ Len(q) = Len(s) - i
      /\ \A j \in 1..(Len(s) - i) : q[j] = s[i + j]
  BY SubSeqProperties
<1>3. RemoveAt(s, i) = p \o q
  BY DEF RemoveAt
<1> HIDE DEF p, q
<1>4. /\ p \o q \in Seq(S) /\ Len(p \o q) = Len(s) - 1
      /\ \A j \in 1..(Len(s) - 1) : (p \o q)[j] = IF j < i THEN p[j] ELSE q[j - i + 1]
  BY <1>1, <1>2, ConcatProperties
<1> QED
  BY <1>1, <1>2, <1>3, <1>4

LEMMA ListsAreSequences ==
    ASSUME NEW s
    PROVE  s \in Lists <=> /\ s \in Seq(Resources) /\ IsInjective(s)
                           /\ Len(s) <= MaxInitial + MaxCreated
<1>1. MaxInitial \in Nat /\ MaxCreated \in Nat
  BY PagesAssumption DEF PagesAssumption
<1>2. ASSUME s \in Lists
      PROVE  s \in Seq(Resources) /\ IsInjective(s) /\ Len(s) <= MaxInitial + MaxCreated
  <2>1. PICK n \in 0..(MaxInitial + MaxCreated) : s \in [1..n -> Resources]
    BY <1>2 DEF Lists
  <2> QED
    BY <1>1, <1>2, <2>1 DEF Lists
<1>3. ASSUME s \in Seq(Resources), Len(s) <= MaxInitial + MaxCreated
      PROVE  s \in UNION {[1..n -> Resources] : n \in 0..(MaxInitial + MaxCreated)}
  <2>1. Len(s) \in 0..(MaxInitial + MaxCreated) /\ s \in [1..Len(s) -> Resources]
    BY <1>1, <1>3
  <2> QED
    BY <2>1
<1> QED
  BY <1>2, <1>3 DEF Lists

LEMMA ItemsOfSequence ==
    ASSUME NEW S, NEW s \in Seq(S)
    PROVE  /\ ToSet(s) \subseteq S
           /\ \A x : x \in ToSet(s) <=> \E i \in 1..Len(s) : x = s[i]
BY DEF ToSet

-----------------------------------------------------------------------------
(* Counting. *)

LEMMA PartsAreCounted ==
    ASSUME NEW B, IsFiniteSet(B), NEW A, A \subseteq B
    PROVE  /\ IsFiniteSet(A) /\ Cardinality(A) \in Nat /\ Cardinality(B) \in Nat
           /\ Cardinality(A) <= Cardinality(B)
BY FS_Subset, FS_CardinalityType

LEMMA AtMostOneMore ==
    ASSUME NEW B, IsFiniteSet(B), NEW y, NEW A, A \subseteq B \cup {y}
    PROVE  /\ Cardinality(A) \in Nat /\ Cardinality(B) \in Nat
           /\ Cardinality(A) <= Cardinality(B) + 1
<1>1. IsFiniteSet(B \cup {y}) /\ Cardinality(B \cup {y}) <= Cardinality(B) + 1
      /\ Cardinality(B) \in Nat
  BY FS_AddElement, FS_CardinalityType
<1> QED
  BY <1>1, PartsAreCounted

LEMMA KnownIsFinite ==
    ASSUME TypeOK
    PROVE  IsFiniteSet(Known) /\ initial \in Nat /\ added \in Nat /\ removed \in Nat
<1>1. initial \in Nat /\ added \in Nat /\ removed \in Nat
  BY PagesAssumption DEF PagesAssumption, TypeOK
<1> QED
  BY <1>1, FS_Interval DEF Known

-----------------------------------------------------------------------------
(* What a creation and a deletion move across a position. *)

LEMMA CreationMoves ==
    ASSUME TypeOK, ListAgrees, NEW i \in 1..(Len(entries) + 1), Create(i), NEW k \in Int
    PROVE  /\ Before(k)' \subseteq Before(k) \cup {initial + added + 1}
           /\ ToSet(entries)' \subseteq ToSet(entries) \cup {initial + added + 1}
           /\ \E y : Behind(k)' \subseteq Behind(k) \cup {initial + added + 1, y}
<1> DEFINE e == initial + added + 1
<1>1. entries \in Seq(Nat) /\ e \in Nat /\ entries' = InsertAt(entries, i, e)
  BY KnownIsFinite DEF ListAgrees, Known, Create
<1> HIDE DEF e
<1>2. /\ entries' \in Seq(Nat) /\ Len(entries') = Len(entries) + 1
      /\ \A j \in 1..(Len(entries) + 1) :
            entries'[j] = IF j < i THEN entries[j] ELSE IF j = i THEN e ELSE entries[j - 1]
  <2>1. PICK s \in Seq(Nat) : s = entries
    BY <1>1
  <2>2. PICK x \in Nat : x = e
    BY <1>1
  <2>3. i \in 1..(Len(s) + 1)
    BY <2>1
  <2>4. /\ InsertAt(s, i, x) \in Seq(Nat)
        /\ Len(InsertAt(s, i, x)) = Len(s) + 1
        /\ \A j \in 1..(Len(s) + 1) :
              InsertAt(s, i, x)[j] =
                  IF j < i THEN s[j] ELSE IF j = i THEN x ELSE s[j - 1]
    BY <2>3, InsertedIsList
  <2> QED
    BY <1>1, <2>1, <2>2, <2>4
<1>3. DOMAIN entries = 1..Len(entries) /\ DOMAIN entries' = 1..(Len(entries) + 1)
      /\ Len(entries) \in Nat
  BY <1>1, <1>2
<1>4. ASSUME NEW j \in DOMAIN entries'
      PROVE  \/ entries'[j] = e
             \/ j \in DOMAIN entries /\ entries'[j] = entries[j]
             \/ j - 1 \in DOMAIN entries /\ entries'[j] = entries[j - 1]
  BY <1>2, <1>3, <1>4
<1>5. Before(k)' \subseteq Before(k) \cup {e}
  BY <1>3, <1>4 DEF Before
<1>6. ToSet(entries)' \subseteq ToSet(entries) \cup {e}
  BY <1>3, <1>4 DEF ToSet
<1>7. ASSUME NEW x \in Behind(k)', x # e, x \notin Behind(k)
      PROVE  x = entries[k]
  <2>1. PICK j \in DOMAIN entries' : j > k /\ x = entries'[j]
    BY <1>7 DEF Behind
  <2>2. j - 1 \in DOMAIN entries /\ x = entries[j - 1] /\ ~ (j - 1 > k)
    BY <1>3, <1>4, <1>7, <2>1 DEF Behind
  <2>3. j - 1 = k
    BY <1>3, <2>1, <2>2
  <2> QED
    BY <2>2, <2>3
<1>8. Behind(k)' \subseteq Behind(k) \cup {e, entries[k]}
  BY <1>7
<1> QED
  BY <1>5, <1>6, <1>8 DEF e

LEMMA DeletionMoves ==
    ASSUME TypeOK, ListAgrees, NEW i \in 1..Len(entries), Delete(i), NEW k \in Int
    PROVE  /\ Behind(k)' \subseteq Behind(k)
           /\ ToSet(entries)' \subseteq ToSet(entries)
           /\ \E y : Before(k)' \subseteq Before(k) \cup {y}
<1>1. entries \in Seq(Known) /\ entries' = RemoveAt(entries, i)
  BY DEF ListAgrees, Delete
<1>2. /\ entries' \in Seq(Known) /\ Len(entries') = Len(entries) - 1
      /\ \A j \in 1..(Len(entries) - 1) :
            entries'[j] = IF j < i THEN entries[j] ELSE entries[j + 1]
  BY <1>1, RemovedIsList
<1>3. DOMAIN entries = 1..Len(entries) /\ DOMAIN entries' = 1..(Len(entries) - 1)
      /\ Len(entries) \in Nat
  BY <1>1, <1>2
<1>4. ASSUME NEW j \in DOMAIN entries'
      PROVE  \/ j \in DOMAIN entries /\ entries'[j] = entries[j]
             \/ j + 1 \in DOMAIN entries /\ entries'[j] = entries[j + 1]
  BY <1>2, <1>3, <1>4
<1>5. Behind(k)' \subseteq Behind(k)
  BY <1>3, <1>4 DEF Behind
<1>6. ToSet(entries)' \subseteq ToSet(entries)
  BY <1>3, <1>4 DEF ToSet
<1>7. ASSUME NEW x \in Before(k)', x \notin Before(k)
      PROVE  x = entries[k + 1]
  <2>1. PICK j \in DOMAIN entries' : j <= k /\ x = entries'[j]
    BY <1>7 DEF Before
  <2>2. j + 1 \in DOMAIN entries /\ x = entries[j + 1] /\ ~ (j + 1 <= k)
    BY <1>3, <1>4, <1>7, <2>1 DEF Before
  <2>3. j = k
    BY <1>3, <2>1, <2>2
  <2> QED
    BY <2>2, <2>3
<1>8. Before(k)' \subseteq Before(k) \cup {entries[k + 1]}
  BY <1>7
<1> QED
  BY <1>5, <1>6, <1>8

(* What is counted is known, and so finite. *)
LEMMA CountsAreFinite ==
    ASSUME TypeOK, ListAgrees, NEW s \in Seq(Known), NEW k
    PROVE  /\ Hidden(s, k) \subseteq Known /\ IsFiniteSet(Hidden(s, k))
           /\ Again(s, k) \subseteq Known /\ IsFiniteSet(Again(s, k))
           /\ Left(s) \subseteq Known /\ IsFiniteSet(Left(s))
           /\ ToSet(s) \subseteq Known /\ IsFiniteSet(ToSet(s))
           /\ Cardinality(ToSet(s)) \in Nat /\ Len(s) \in Nat
<1>1. IsFiniteSet(Known)
  BY KnownIsFinite
<1>2. ToSet(s) \subseteq Known /\ ToSet(first) \subseteq Known
  BY ItemsOfSequence DEF ListAgrees
<1>3. /\ Hidden(s, k) \subseteq Known /\ Again(s, k) \subseteq Known
      /\ Left(s) \subseteq Known
  BY <1>2 DEF Hidden, Again, Left
<1> QED
  BY <1>1, <1>2, <1>3, PartsAreCounted

LEMMA CreationIsCounted ==
    ASSUME TypeOK, ListAgrees, NEW i \in 1..(Len(entries) + 1), Create(i)
    PROVE  \A s \in Seq(Known), k \in Int :
              /\ HasCome(s, k) => HasCome(s, k)'
              /\ HasEnded(s) => HasEnded(s)'
<1> SUFFICES ASSUME NEW s \in Seq(Known), NEW k \in Int
             PROVE  /\ HasCome(s, k) => HasCome(s, k)'
                    /\ HasEnded(s) => HasEnded(s)'
  OBVIOUS
<1>1. /\ initial + added + 1 \notin ToSet(s) /\ initial + added + 1 \notin ToSet(first)
      /\ UNCHANGED <<first, masked, removed>> /\ added' = added + 1
      /\ added \in Nat /\ removed \in Nat
  BY KnownIsFinite, ItemsOfSequence DEF ListAgrees, Known, Create, walkVars
<1>2. ToSet(first)' = ToSet(first)
  BY <1>1 DEF ToSet
<1>3. Hidden(s, k)' \subseteq Hidden(s, k)
  BY <1>1, <1>2, CreationMoves DEF Hidden
<1>4. Left(s)' \subseteq Left(s)
  BY <1>1, <1>2, CreationMoves DEF Left
<1>5. PICK y : Again(s, k)' \subseteq Again(s, k) \cup {y}
  BY <1>1, CreationMoves DEF Again
<1>6. /\ Cardinality(Hidden(s, k)') <= Cardinality(Hidden(s, k))
      /\ Cardinality(Hidden(s, k)') \in Nat /\ Cardinality(Hidden(s, k)) \in Nat
  BY <1>3, CountsAreFinite, PartsAreCounted
<1>7. /\ Cardinality(Left(s)') <= Cardinality(Left(s))
      /\ Cardinality(Left(s)') \in Nat /\ Cardinality(Left(s)) \in Nat
  BY <1>4, CountsAreFinite, PartsAreCounted
<1>8. /\ Cardinality(Again(s, k)') <= Cardinality(Again(s, k)) + 1
      /\ Cardinality(Again(s, k)') \in Nat /\ Cardinality(Again(s, k)) \in Nat
  BY <1>5, CountsAreFinite, AtMostOneMore
<1>9. Len(s) \in Nat /\ Cardinality(ToSet(s)) \in Nat
  BY CountsAreFinite
<1>10. HasEnded(s) => HasEnded(s)'
  BY <1>1, <1>7 DEF HasEnded
<1>11. RepeatsBy(s, k) <= added => RepeatsBy(s, k)' <= added'
  BY <1>1, <1>8, <1>9 DEF RepeatsBy
<1>12. HasCome(s, k) => HasCome(s, k)'
  BY <1>1, <1>6, <1>11 DEF HasCome
<1> QED
  BY <1>10, <1>12

LEMMA DeletionIsCounted ==
    ASSUME TypeOK, ListAgrees, NEW i \in 1..Len(entries), Delete(i)
    PROVE  \A s \in Seq(Known), k \in Int :
              /\ HasCome(s, k) => HasCome(s, k)'
              /\ HasEnded(s) => HasEnded(s)'
<1> SUFFICES ASSUME NEW s \in Seq(Known), NEW k \in Int
             PROVE  /\ HasCome(s, k) => HasCome(s, k)'
                    /\ HasEnded(s) => HasEnded(s)'
  OBVIOUS
<1>1. /\ UNCHANGED <<first, masked, added>> /\ removed' = removed + 1
      /\ added \in Nat /\ removed \in Nat
  BY KnownIsFinite DEF Delete, walkVars
<1>2. ToSet(first)' = ToSet(first)
  BY <1>1 DEF ToSet
<1>3. PICK y : Hidden(s, k)' \subseteq Hidden(s, k) \cup {y}
  BY <1>2, DeletionMoves DEF Hidden
<1>4. Left(s)' \subseteq Left(s)
  BY <1>2, DeletionMoves DEF Left
<1>5. Again(s, k)' \subseteq Again(s, k)
  BY DeletionMoves DEF Again
<1>6. /\ Cardinality(Hidden(s, k)') <= Cardinality(Hidden(s, k)) + 1
      /\ Cardinality(Hidden(s, k)') \in Nat /\ Cardinality(Hidden(s, k)) \in Nat
  BY <1>3, CountsAreFinite, AtMostOneMore
<1>7. /\ Cardinality(Left(s)') <= Cardinality(Left(s))
      /\ Cardinality(Left(s)') \in Nat /\ Cardinality(Left(s)) \in Nat
  BY <1>4, CountsAreFinite, PartsAreCounted
<1>8. /\ Cardinality(Again(s, k)') <= Cardinality(Again(s, k))
      /\ Cardinality(Again(s, k)') \in Nat /\ Cardinality(Again(s, k)) \in Nat
  BY <1>5, CountsAreFinite, PartsAreCounted
<1>9. Len(s) \in Nat /\ Cardinality(ToSet(s)) \in Nat
  BY CountsAreFinite
<1>10. HasEnded(s) => HasEnded(s)'
  BY <1>1, <1>7 DEF HasEnded
<1>11. RepeatsBy(s, k) <= added => RepeatsBy(s, k)' <= added'
  BY <1>1, <1>8, <1>9 DEF RepeatsBy
<1>12. HasCome(s, k) => HasCome(s, k)'
  BY <1>1, <1>6, <1>11 DEF HasCome
<1> QED
  BY <1>10, <1>12

-----------------------------------------------------------------------------
(* A page moves the walk on: what it repeats was counted as behind the old *)
(* position, and what lies between the positions is on it.                 *)

LEMMA InjectiveHasNoRepeats ==
    ASSUME NEW S, IsFiniteSet(S), NEW s \in Seq(S), IsInjective(s)
    PROVE  Len(s) <= Cardinality(ToSet(s))
<1>1. s \in Injection(1..Len(s), ToSet(s))
  BY DEF Injection, ToSet, IsInjective
<1>2. IsFiniteSet(ToSet(s))
  BY ItemsOfSequence, FS_Subset
<1>3. Cardinality(1..Len(s)) <= Cardinality(ToSet(s))
  BY <1>1, <1>2, FS_Injection
<1>4. Cardinality(1..Len(s)) = Len(s)
  <2>1. PICK n \in Nat : n = Len(s)
    OBVIOUS
  <2>2. Cardinality(1..n) = IF 1 > n THEN 0 ELSE n - 1 + 1
    BY FS_Interval
  <2> QED
    BY <2>1, <2>2
<1> QED
  BY <1>3, <1>4

LEMMA ItemsOfConcat ==
    ASSUME NEW S, NEW s \in Seq(S), NEW p \in Seq(S)
    PROVE  /\ s \o p \in Seq(S) /\ Len(s \o p) = Len(s) + Len(p)
           /\ ToSet(s \o p) = ToSet(s) \cup ToSet(p)
<1>1. /\ s \o p \in Seq(S) /\ Len(s \o p) = Len(s) + Len(p)
      /\ \A i \in 1..(Len(s) + Len(p)) :
            (s \o p)[i] = IF i <= Len(s) THEN s[i] ELSE p[i - Len(s)]
  BY ConcatProperties
<1>2. Len(s) \in Nat /\ Len(p) \in Nat
  OBVIOUS
<1>3. ASSUME NEW i \in 1..Len(s)
      PROVE  s[i] \in ToSet(s \o p)
  <2>1. i \in 1..(Len(s) + Len(p)) /\ (s \o p)[i] = s[i]
    BY <1>1, <1>2, <1>3
  <2> QED
    BY <1>1, <2>1, ItemsOfSequence
<1>4. ASSUME NEW i \in 1..Len(p)
      PROVE  p[i] \in ToSet(s \o p)
  <2>1. i + Len(s) \in 1..(Len(s) + Len(p)) /\ (s \o p)[i + Len(s)] = p[i]
    BY <1>1, <1>2, <1>4
  <2> QED
    BY <1>1, <2>1, ItemsOfSequence
<1>5. ASSUME NEW i \in 1..(Len(s) + Len(p))
      PROVE  (s \o p)[i] \in ToSet(s) \cup ToSet(p)
  <2>1. CASE i <= Len(s)
    BY <1>1, <1>2, <2>1, ItemsOfSequence
  <2>2. CASE i > Len(s)
    <3>1. i - Len(s) \in 1..Len(p) /\ (s \o p)[i] = p[i - Len(s)]
      BY <1>1, <1>2, <2>2
    <3> QED
      BY <3>1, ItemsOfSequence
  <2> QED
    BY <1>2, <2>1, <2>2
<1>6. ToSet(s \o p) \subseteq ToSet(s) \cup ToSet(p)
  <2> SUFFICES ASSUME NEW x \in ToSet(s \o p)
               PROVE  x \in ToSet(s) \cup ToSet(p)
    OBVIOUS
  <2>1. PICK i \in 1..Len(s \o p) : x = (s \o p)[i]
    <3>1. PICK u \in Seq(S) : u = s \o p
      BY <1>1
    <3>2. \E i \in 1..Len(u) : x = u[i]
      BY <3>1, ItemsOfSequence
    <3> QED
      BY <3>1, <3>2
  <2> QED
    BY <1>1, <1>5, <2>1
<1>7. ToSet(s) \subseteq ToSet(s \o p)
  BY <1>3, ItemsOfSequence
<1>8. ToSet(p) \subseteq ToSet(s \o p)
  BY <1>4, ItemsOfSequence
<1> QED
  BY <1>1, <1>6, <1>7, <1>8

LEMMA PageIsCounted ==
    ASSUME TypeOK, ListAgrees, NEW o \in Nat, NEW l \in Nat, NEW s \in Seq(Known),
           HasCome(s, o)
    PROVE  /\ s \o slice(entries, o, o + l) \in Seq(Known)
           /\ HasCome(s \o slice(entries, o, o + l), o + l)
           /\ o + l >= Len(entries) => HasEnded(s \o slice(entries, o, o + l))
<1> DEFINE p   == slice(entries, o, o + l)
           new == s \o p
<1>1. /\ entries \in Seq(Known) /\ Len(entries) \in Nat
      /\ DOMAIN entries = 1..Len(entries)
      /\ \A i, j \in 1..Len(entries) : entries[i] = entries[j] => i = j
  BY DEF ListAgrees, IsInjective
<1>2. /\ p \in Seq(Known)
      /\ \A i \in 1..Len(p) :
            o + i \in 1..Len(entries) /\ o + i <= o + l /\ p[i] = entries[o + i]
      /\ \A j \in 1..Len(entries) : j > o /\ j <= o + l => j - o \in 1..Len(p)
  <2>1. o + l \in Int
    OBVIOUS
  <2> QED
    BY <1>1, <2>1, SliceIsPart
<1> HIDE DEF p
<1>3. /\ new \in Seq(Known) /\ Len(new) = Len(s) + Len(p)
      /\ ToSet(new) = ToSet(s) \cup ToSet(p)
  BY <1>2, ItemsOfConcat
<1> HIDE DEF new
<1>4. ToSet(p) \subseteq Behind(o) /\ ToSet(p) \cap Behind(o + l) = {}
  <2> SUFFICES ASSUME NEW x \in ToSet(p)
               PROVE  x \in Behind(o) /\ x \notin Behind(o + l)
    OBVIOUS
  <2>1. PICK i \in 1..Len(p) : x = p[i]
    BY <1>2, ItemsOfSequence
  <2>2. o + i \in 1..Len(entries) /\ o + i <= o + l /\ x = entries[o + i] /\ o + i > o
    BY <1>2, <2>1
  <2> QED
    BY <1>1, <2>2 DEF Behind
<1>5. Behind(o + l) \subseteq Behind(o)
  BY <1>1 DEF Behind
<1>6. ASSUME NEW x \in Before(o + l), x \notin Before(o)
      PROVE  x \in ToSet(p)
  <2>1. PICK j \in 1..Len(entries) : j <= o + l /\ x = entries[j]
    BY <1>1 DEF Before
  <2>2. j > o
    BY <1>1, <1>6, <2>1 DEF Before
  <2>3. j - o \in 1..Len(p) /\ p[j - o] = x
    BY <1>2, <2>1, <2>2
  <2> QED
    BY <1>2, <2>3, ItemsOfSequence
<1>7. RepeatsBy(new, o + l) <= RepeatsBy(s, o)
  <2>1. Again(new, o + l) = Behind(o + l) \cap ToSet(s)
    BY <1>3, <1>4 DEF Again
  <2> DEFINE twice == ToSet(s) \cap ToSet(p)
             later == Again(new, o + l)
  <2>2. twice \cup later \subseteq Again(s, o) /\ twice \cap later = {}
    BY <1>4, <1>5, <2>1 DEF Again
  <2>3. /\ IsFiniteSet(twice) /\ IsFiniteSet(later)
        /\ IsFiniteSet(ToSet(s)) /\ IsFiniteSet(ToSet(p)) /\ IsFiniteSet(Again(s, o))
    BY <1>2, <1>3, CountsAreFinite, FS_Subset
  <2>4. Cardinality(twice \cup later) = Cardinality(twice) + Cardinality(later)
    <3>1. Cardinality(twice \cap later) = 0
      BY <2>2, FS_EmptySet
    <3>2. /\ Cardinality(twice \cup later) =
                 Cardinality(twice) + Cardinality(later) - Cardinality(twice \cap later)
          /\ Cardinality(twice) \in Nat /\ Cardinality(later) \in Nat
      BY <2>3, FS_Union, FS_CardinalityType
    <3> QED
      BY <3>1, <3>2
  <2>5. Cardinality(twice \cup later) <= Cardinality(Again(s, o))
    BY <2>2, <2>3, FS_Subset
  <2>6. Cardinality(ToSet(new)) =
            Cardinality(ToSet(s)) + Cardinality(ToSet(p)) - Cardinality(twice)
    BY <1>3, <2>3, FS_Union
  <2>7. Len(p) <= Cardinality(ToSet(p))
    <3>1. IsInjective(p)
      <4> SUFFICES ASSUME NEW i \in 1..Len(p), NEW j \in 1..Len(p), p[i] = p[j]
                   PROVE  i = j
        BY <1>2 DEF IsInjective
      <4>1. entries[o + i] = entries[o + j]
        BY <1>2
      <4>2. o + i = o + j
        BY <1>1, <1>2, <4>1
      <4> QED
        BY <4>2
    <3> QED
      BY <1>2, <3>1, KnownIsFinite, InjectiveHasNoRepeats
  <2>8. /\ Cardinality(twice) \in Nat /\ Cardinality(later) \in Nat
        /\ Cardinality(ToSet(s)) \in Nat /\ Cardinality(ToSet(p)) \in Nat
        /\ Cardinality(Again(s, o)) \in Nat
        /\ Len(s) \in Nat /\ Len(p) \in Nat
    BY <1>2, <2>3, FS_CardinalityType
  <2>9. RepeatsBy(s, o) = Len(s) - Cardinality(ToSet(s)) + Cardinality(Again(s, o))
    BY DEF RepeatsBy
  <2>10. RepeatsBy(new, o + l) =
            Len(new) - Cardinality(ToSet(new)) + Cardinality(later)
    BY DEF RepeatsBy
  <2>11. Cardinality(twice) + Cardinality(later) <= Cardinality(Again(s, o))
    BY <2>4, <2>5
  <2> HIDE DEF twice, later
  <2>12. Len(new) - Cardinality(ToSet(new)) + Cardinality(later) <=
            Len(s) - Cardinality(ToSet(s)) + Cardinality(Again(s, o))
    BY <1>3, <2>6, <2>7, <2>8, <2>11
  <2> QED
    BY <2>9, <2>10, <2>12
<1>8. Hidden(new, o + l) \subseteq Hidden(s, o)
  BY <1>3, <1>6 DEF Hidden
<1>9. Cardinality(Hidden(new, o + l)) <= Cardinality(Hidden(s, o))
  BY <1>8, CountsAreFinite, FS_Subset
<1>10. HasCome(new, o + l)
  <2>1. /\ Cardinality(Hidden(new, o + l)) \in Nat /\ Cardinality(Hidden(s, o)) \in Nat
        /\ removed \in Nat /\ added \in Nat
    BY <1>3, CountsAreFinite, KnownIsFinite, FS_CardinalityType
  <2>2. RepeatsBy(new, o + l) \in Int /\ RepeatsBy(s, o) \in Int
    <3>1. /\ Cardinality(ToSet(new)) \in Nat /\ Len(new) \in Nat
          /\ Cardinality(Again(new, o + l)) \in Nat
      BY <1>3, CountsAreFinite, FS_CardinalityType
    <3>2. /\ Cardinality(ToSet(s)) \in Nat /\ Len(s) \in Nat
          /\ Cardinality(Again(s, o)) \in Nat
      BY CountsAreFinite, FS_CardinalityType
    <3> QED
      BY <3>1, <3>2 DEF RepeatsBy
  <2> QED
    BY <1>7, <1>9, <2>1, <2>2 DEF HasCome
<1>11. ASSUME o + l >= Len(entries) PROVE HasEnded(new)
  <2>1. Left(new) = Hidden(new, o + l)
    BY <1>1, <1>11 DEF Left, Hidden, Before, ToSet
  <2> QED
    BY <1>10, <2>1 DEF HasCome, HasEnded
<1> QED
  BY <1>3, <1>10, <1>11 DEF new, p

(* A reply that is no list shows nothing, and is not counted on. *)
LEMMA NothingIsShown ==
    ASSUME TypeOK, ListAgrees, NEW o \in Nat, NEW l \in Nat, NEW s \in Seq(Known),
           HasCome(s, o)
    PROVE  RepeatsBy(s, o + l) <= added
<1>1. entries \in Seq(Known) /\ DOMAIN entries \subseteq Int
  BY DEF ListAgrees
<1>2. Again(s, o + l) \subseteq Again(s, o)
  BY <1>1 DEF Again, Behind
<1>3. /\ Cardinality(Again(s, o + l)) <= Cardinality(Again(s, o))
      /\ Cardinality(Again(s, o + l)) \in Nat /\ Cardinality(Again(s, o)) \in Nat
  BY <1>2, CountsAreFinite, PartsAreCounted
<1> QED
  BY <1>3, CountsAreFinite, KnownIsFinite DEF HasCome, RepeatsBy

-----------------------------------------------------------------------------
(* Each step keeps the invariant. *)

LEMMA InitInvariant == Init => Invariant
<1> SUFFICES ASSUME Init PROVE Invariant
  OBVIOUS
<1>1. MaxInitial \in Nat /\ MaxCreated \in Nat /\ MaxRetries \in Nat
  BY PagesAssumption DEF PagesAssumption
<1>2. /\ initial \in 0..MaxInitial /\ added = 0 /\ removed = 0
      /\ entries = [i \in 1..initial |-> i] /\ seen = << >> /\ first = << >>
      /\ pc = "idle" /\ result = NoList /\ failures = 0 /\ total = 0
      /\ params = NoParams /\ masked = FALSE
  BY DEF Init
<1>3. /\ entries \in Seq(Known) /\ Len(entries) = initial /\ IsInjective(entries)
      /\ entries \in Seq(Resources)
  BY <1>1, <1>2 DEF Known, IsInjective, Resources
<1>4. << >> \in Seq(Known) /\ IsInjective(<< >>) /\ Len(<< >>) = 0 /\ << >> \in Seq(Resources)
      /\ ToSet(<< >>) = {}
  BY DEF IsInjective, ToSet
<1>5. entries \in Lists /\ first \in Lists
  <2>1. Len(entries) <= MaxInitial + MaxCreated /\ 0 <= MaxInitial + MaxCreated
    BY <1>1, <1>2, <1>3
  <2>2. << >> \in Lists
    BY <1>4, <2>1, ListsAreSequences
  <2> QED
    BY <1>2, <1>3, <2>1, <2>2, ListsAreSequences
<1>6. TypeOK
  <2>1. ToSet(seen) \subseteq Resources
    BY <1>2, <1>4
  <2> QED
    <3>1. 0 \in 0..(MaxInitial + MaxCreated) /\ 0 \in 0..MaxCreated
          /\ 0 \in 0..(MaxRetries + 1)
      BY <1>1
    <3>2. /\ pc \in {"idle", "asked", "listed", "paged", "failed",
                     "done", "refused", "gaveUp"}
          /\ params \in Params \cup {NoParams}
          /\ result \in Lists \cup {NoList}
      BY <1>2
    <3>3. /\ initial \in 0..MaxInitial /\ total \in 0..(MaxInitial + MaxCreated)
          /\ added \in 0..MaxCreated /\ removed \in 0..(MaxInitial + MaxCreated)
          /\ failures \in 0..(MaxRetries + 1)
      BY <1>2, <3>1
    <3>4. masked \in BOOLEAN
      BY Zenon DEF Init
    <3> QED
      BY <1>5, <2>1, <3>2, <3>3, <3>4 DEF TypeOK
<1>7. ListAgrees
  BY <1>1, <1>2, <1>3, <1>4 DEF ListAgrees
<1>8. WalkAgrees
  BY <1>2, <1>4, FS_EmptySet DEF WalkAgrees, Repeats
<1>9. PositionsAgree
  BY <1>1, <1>2 DEF PositionsAgree
<1> QED
  BY <1>6, <1>7, <1>8, <1>9 DEF Invariant

(* What the counts of a walk are made of. *)
walkCounts == <<entries, first, added, removed, masked>>

LEMMA CountsAreKept ==
    ASSUME UNCHANGED walkCounts, NEW s, NEW k
    PROVE  /\ HasCome(s, k)' <=> HasCome(s, k)
           /\ HasEnded(s)' <=> HasEnded(s)
BY DEF walkCounts, HasCome, HasEnded, RepeatsBy, Hidden, Again, Left, Before, Behind, ToSet

(* A list, once it was given, may be asked for, kept or cut. *)
LEMMA BeginKeeps ==
    ASSUME Invariant, NEW l \in Limits, NEW o \in Offsets,
           Begin([limit |-> l, offset |-> o])
    PROVE  Invariant'
<1> DEFINE p == [limit |-> l, offset |-> o]
<1>1. /\ pc = "idle" /\ pc' = "asked" /\ params' = p
      /\ first' = IF o >= 0 THEN slice(entries, o, Len(entries)) ELSE << >>
      /\ UNCHANGED <<entries, initial, added, removed, result, total, seen, masked, failures>>
      /\ l \in Int /\ o \in Int
  BY PagesAssumption DEF Begin, PagesAssumption
<1>2. /\ entries \in Seq(Known) /\ IsInjective(entries) /\ entries \in Lists
      /\ DOMAIN entries = 1..Len(entries) /\ Len(entries) \in Nat
      /\ \A i, j \in 1..Len(entries) : entries[i] = entries[j] => i = j
      /\ seen = << >>
  BY <1>1 DEF Invariant, ListAgrees, PositionsAgree, TypeOK, IsInjective
<1>3. /\ first' \in Seq(Known) /\ IsInjective(first') /\ Len(first') <= Len(entries)
      /\ \A i \in DOMAIN first' : o + i \in 1..Len(entries) /\ o + i > o
                                 /\ first'[i] = entries[o + i]
  <2>1. CASE o >= 0
    <3>1. /\ first' \in Seq(Known) /\ Len(first') <= Len(entries)
          /\ \A i \in 1..Len(first') :
                o + i \in 1..Len(entries) /\ first'[i] = entries[o + i]
      BY <1>1, <1>2, <2>1, SliceIsPart
    <3>2. ASSUME NEW i \in 1..Len(first'), NEW j \in 1..Len(first'), first'[i] = first'[j]
          PROVE  i = j
      <4>1. entries[o + i] = entries[o + j] /\ o + i = o + j
        BY <1>2, <3>1, <3>2
      <4> QED
        BY <1>1, <4>1
    <3>3. DOMAIN first' = 1..Len(first') /\ Len(first') \in Nat
      BY <3>1
    <3>4. IsInjective(first')
      BY <3>2, <3>3 DEF IsInjective
    <3>5. \A i \in 1..Len(first') : o + i > o
      BY <1>1, <3>3
    <3> QED
      BY <3>1, <3>3, <3>4, <3>5
  <2>2. CASE o < 0
    BY <1>1, <1>2, <2>2 DEF IsInjective
  <2> QED
    BY <1>1, <2>1, <2>2
<1>4. first' \in Lists
  <2>1. /\ Len(entries) <= MaxInitial + MaxCreated /\ Known \subseteq Resources
        /\ MaxInitial + MaxCreated \in Nat
    <3>1. Len(entries) <= MaxInitial + MaxCreated
      BY <1>2, ListsAreSequences
    <3>2. /\ initial \in 0..MaxInitial /\ added \in 0..MaxCreated
          /\ MaxInitial \in Nat /\ MaxCreated \in Nat
      BY PagesAssumption DEF PagesAssumption, Invariant, TypeOK
    <3> QED
      BY <3>1, <3>2 DEF Known, Resources
  <2>2. first' \in Seq(Resources) /\ Len(first') <= MaxInitial + MaxCreated
    BY <1>2, <1>3, <2>1
  <2> QED
    BY <1>3, <2>2, ListsAreSequences
<1>5. TypeOK'
  BY <1>1, <1>4 DEF Invariant, TypeOK, Params
<1>6. ListAgrees'
  BY <1>1, <1>3 DEF Invariant, ListAgrees, Known
<1>7. ASSUME NEW s, s = << >>
      PROVE  HasCome(s, o)'
  <2>1. ToSet(s) = {} /\ Len(s) = 0
    BY <1>7 DEF ToSet
  <2>2. Again(s, o)' = {}
    BY <2>1 DEF Again
  <2>3. Hidden(s, o)' = {}
    <3> SUFFICES ASSUME NEW x \in ToSet(first)', x \in Before(o)'
                 PROVE  FALSE
      BY DEF Hidden
    <3>1. PICK i \in DOMAIN first' : x = first'[i]
      BY DEF ToSet
    <3>2. PICK j \in DOMAIN entries : j <= o /\ x = entries[j]
      BY <1>1 DEF Before
    <3>3. o + i = j
      BY <1>2, <1>3, <3>1, <3>2
    <3> QED
      BY <1>1, <1>2, <1>3, <3>1, <3>2, <3>3
  <2>4. Cardinality({}) = 0 /\ added' \in Nat /\ removed' \in Nat
    BY <1>5, FS_EmptySet, PagesAssumption DEF TypeOK, PagesAssumption
  <2> QED
    <3>1. RepeatsBy(s, o)' = 0
      BY <2>1, <2>2, <2>4 DEF RepeatsBy
    <3>2. Cardinality(Hidden(s, o)') = 0
      BY <2>3, <2>4
    <3> QED
      BY <2>4, <3>1, <3>2 DEF HasCome
<1>8. WalkAgrees'
  <2>1. HasCome(seen, params.offset)'
    <3>1. PICK s : s = << >>
      OBVIOUS
    <3>2. HasCome(s, o)'
      BY <1>7, <3>1
    <3> QED
      BY <1>1, <1>2, <3>1, <3>2
  <2>2. (Repeats <= added)'
    BY <1>1 DEF Invariant, WalkAgrees, Repeats, ToSet
  <2> QED
    BY <1>1, <2>1, <2>2 DEF WalkAgrees
<1>9. PositionsAgree'
  BY <1>1 DEF Invariant, PositionsAgree
<1> QED
  BY <1>5, <1>6, <1>8, <1>9 DEF Invariant

(* The limit and the offset of any request, and the page of its reply. *)
LEMMA ParamsAreNumbers ==
    ASSUME TypeOK
    PROVE  /\ params.limit \in Int /\ params.offset \in Int /\ Reached \in Int
           /\ \A k \in Int : [params EXCEPT !.offset = k].offset = k
                          /\ [params EXCEPT !.offset = k].limit = params.limit
                          /\ [params EXCEPT !.offset = k] \in
                                 [limit : Limits \cup {0}, offset : Int]
<1>1. params \in [limit : Limits \cup {0}, offset : Int] /\ Limits \subseteq Int
  BY PagesAssumption DEF PagesAssumption, TypeOK, Params, NoParams
<1> QED
  BY <1>1 DEF Reached

LEMMA PageIsKnown ==
    ASSUME Invariant, pc = "listed"
    PROVE  /\ ItemsOf(result) \in Seq(Known) /\ Page \in Seq(Known)
           /\ Page = slice(ItemsOf(result), params.offset, Reached)
           /\ seen \o Page \in Seq(Known)
           /\ Len(ItemsOf(result)) <= MaxInitial + MaxCreated
<1>1. ItemsOf(result) \in Seq(Known)
  BY DEF Invariant, ListAgrees, ItemsOf
<1>2. params.offset \in Nat /\ Reached \in Int
  BY ParamsAreNumbers DEF Invariant, PositionsAgree, page_params
<1>3. Page = slice(ItemsOf(result), params.offset, Reached)
  BY DEF Page, paginate, Reached
<1>4. Page \in Seq(Known)
  BY <1>1, <1>2, <1>3, SliceIsPart
<1>5. seen \o Page \in Seq(Known)
  BY <1>4, ItemsOfConcat DEF Invariant, ListAgrees
<1>6. Len(ItemsOf(result)) <= MaxInitial + MaxCreated
  BY ListsAreSequences, PagesAssumption
  DEF PagesAssumption, Invariant, TypeOK, ItemsOf
<1> QED
  BY <1>1, <1>3, <1>4, <1>5, <1>6

(* A step of others keeps what the walk has come to. *)
LEMMA WalkIsKept ==
    ASSUME Invariant, UNCHANGED walkVars, added' \in Nat, added' >= added,
           \A s \in Seq(Known), k \in Int :
              /\ HasCome(s, k) => HasCome(s, k)'
              /\ HasEnded(s) => HasEnded(s)'
    PROVE  WalkAgrees' /\ PositionsAgree'
<1>1. UNCHANGED <<pc, params, result, total, seen, first, masked, failures>>
  BY DEF walkVars
<1>2. PICK s \in Seq(Known) : s = seen
  BY DEF Invariant, ListAgrees
<1>3. PICK o \in Int : o = params.offset
  BY ParamsAreNumbers DEF Invariant
<1>4. PICK k \in Int : k = Reached
  BY ParamsAreNumbers DEF Invariant
<1>5. k = Reached' /\ Page' = Page /\ ItemsOf(result)' = ItemsOf(result)
  BY <1>1, <1>4 DEF Reached, Page, ItemsOf, paginate
<1>6. ASSUME pc = "listed"
      PROVE  /\ HasCome(seen \o Page, Reached)'
             /\ Reached >= Len(ItemsOf(result)) => HasEnded(seen \o Page)'
  <2>1. PICK n \in Seq(Known) : n = seen \o Page
    BY <1>6, PageIsKnown
  <2>2. HasCome(n, k) /\ (Reached >= Len(ItemsOf(result)) => HasEnded(n))
    BY <1>4, <1>6, <2>1 DEF Invariant, WalkAgrees
  <2>3. n = (seen \o Page)'
    BY <1>1, <1>5, <2>1
  <2> QED
    BY <1>5, <2>2, <2>3
<1>7. (Repeats <= added)'
  <2>1. Repeats' = Repeats
    BY <1>1 DEF Repeats, ToSet
  <2>2. Repeats \in Int /\ added \in Int /\ Repeats <= added
    <3>1. /\ Len(seen) \in Nat /\ Cardinality(ToSet(seen)) \in Nat
          /\ Repeats <= added
      BY <1>2, CountsAreFinite DEF Invariant, WalkAgrees
    <3>2. added \in Nat
      BY KnownIsFinite DEF Invariant
    <3> QED
      BY <3>1, <3>2 DEF Repeats
  <2> QED
    BY <2>1, <2>2
<1>8. PositionsAgree'
  BY <1>1 DEF Invariant, PositionsAgree, page_params
<1>9. /\ HasCome(seen, params.offset) => HasCome(seen, params.offset)'
      /\ HasCome(seen, Reached) => HasCome(seen, Reached)'
      /\ HasEnded(seen) => HasEnded(seen)'
  BY <1>1, <1>2, <1>3, <1>4, <1>5
<1> QED
  BY <1>1, <1>4, <1>5, <1>6, <1>7, <1>8, <1>9 DEF Invariant, WalkAgrees

LEMMA CreateKeeps ==
    ASSUME Invariant, NEW i \in 1..(Len(entries) + 1), Create(i)
    PROVE  Invariant'
<1> DEFINE e == initial + added + 1
<1>1. /\ initial \in 0..MaxInitial /\ added \in Nat /\ removed \in Nat
      /\ added < MaxCreated /\ added' = added + 1
      /\ UNCHANGED <<initial, removed, pc, params, result, total, seen, first, masked, failures>>
      /\ MaxInitial \in Nat /\ MaxCreated \in Nat
      /\ pc # "idle"
  BY KnownIsFinite, PagesAssumption
  DEF PagesAssumption, Invariant, TypeOK, Create, walkVars, Walking
<1>2. Known \subseteq Known' /\ e \in Known' /\ Known' \subseteq Resources /\ e \notin Known
  BY <1>1 DEF Known, Resources
<1>3. PICK s : s = entries
  OBVIOUS
<1>4. PICK x : x = e
  OBVIOUS
<1>5. PICK K : K = Known'
  OBVIOUS
<1>6. /\ s \in Seq(Known) /\ s \in Seq(K) /\ x \in K /\ i \in 1..(Len(s) + 1)
      /\ DOMAIN s = 1..Len(s) /\ Len(s) \in Nat
      /\ \A j \in 1..Len(s) : s[j] # x
      /\ \A j, k \in 1..Len(s) : s[j] = s[k] => j = k
      /\ Len(s) + removed = initial + added
  BY <1>2, <1>3, <1>4, <1>5 DEF Invariant, ListAgrees, IsInjective
<1>7. entries' = InsertAt(s, i, x)
  BY <1>3, <1>4 DEF Create
<1>8. /\ entries' \in Seq(K) /\ Len(entries') = Len(s) + 1
      /\ \A j \in 1..(Len(s) + 1) :
            entries'[j] = IF j < i THEN s[j] ELSE IF j = i THEN x ELSE s[j - 1]
  <2>1. /\ InsertAt(s, i, x) \in Seq(K)
        /\ Len(InsertAt(s, i, x)) = Len(s) + 1
        /\ \A j \in 1..(Len(s) + 1) :
              InsertAt(s, i, x)[j] =
                  IF j < i THEN s[j] ELSE IF j = i THEN x ELSE s[j - 1]
    <3>1. PICK u \in Seq(K) : u = s
      BY <1>6
    <3>2. PICK y \in K : y = x
      BY <1>6
    <3>3. i \in 1..(Len(u) + 1)
      BY <1>6, <3>1
    <3>4. /\ InsertAt(u, i, y) \in Seq(K)
          /\ Len(InsertAt(u, i, y)) = Len(u) + 1
          /\ \A j \in 1..(Len(u) + 1) :
                InsertAt(u, i, y)[j] =
                    IF j < i THEN u[j] ELSE IF j = i THEN y ELSE u[j - 1]
      BY <3>3, InsertedIsList
    <3> QED
      BY <3>1, <3>2, <3>4
  <2> QED
    BY <1>7, <2>1
<1>9. IsInjective(entries')
  <2> SUFFICES ASSUME NEW j \in 1..(Len(s) + 1), NEW k \in 1..(Len(s) + 1),
                      entries'[j] = entries'[k]
               PROVE  j = k
    BY <1>6, <1>8 DEF IsInjective
  <2>1. CASE j = i \/ k = i
    BY <1>6, <1>8, <2>1
  <2>2. CASE j # i /\ k # i
    BY <1>6, <1>8, <2>2
  <2> QED
    BY <2>1, <2>2
<1>10. entries' \in Lists
  <2>1. entries' \in Seq(Resources) /\ Len(entries') <= MaxInitial + MaxCreated
    BY <1>1, <1>2, <1>5, <1>6, <1>8
  <2> QED
    BY <1>9, <2>1, ListsAreSequences
<1>11. TypeOK'
  BY <1>1, <1>10 DEF Invariant, TypeOK
<1>12. ListAgrees'
  <2>1. /\ result' # NoList => result' \in Seq(Known')
        /\ first' \in Seq(Known') /\ seen' \in Seq(Known')
    BY <1>1, <1>2 DEF Invariant, ListAgrees
  <2>2. Len(entries') + removed' = initial' + added'
    <3>1. Len(s) + removed = initial + added /\ Len(s) \in Nat
      BY <1>6
    <3>2. Len(entries') = Len(s) + 1
      BY <1>8
    <3> QED
      BY <1>1, <3>1, <3>2
  <2> QED
    BY <1>1, <1>5, <1>8, <1>9, <2>1, <2>2 DEF Invariant, ListAgrees
<1>13. WalkAgrees' /\ PositionsAgree'
  <2>1. UNCHANGED walkVars /\ added' \in Nat /\ added' >= added
    BY <1>1 DEF walkVars
  <2>2. \A n \in Seq(Known), k \in Int :
           /\ HasCome(n, k) => HasCome(n, k)'
           /\ HasEnded(n) => HasEnded(n)'
    BY CreationIsCounted DEF Invariant
  <2> QED
    BY <2>1, <2>2, WalkIsKept
<1> QED
  BY <1>11, <1>12, <1>13 DEF Invariant

LEMMA DeleteKeeps ==
    ASSUME Invariant, NEW i \in 1..Len(entries), Delete(i)
    PROVE  Invariant'
<1>1. /\ initial \in 0..MaxInitial /\ added \in 0..MaxCreated /\ removed \in Nat
      /\ removed' = removed + 1
      /\ UNCHANGED <<initial, added, pc, params, result, total, seen, first, masked, failures>>
      /\ MaxInitial \in Nat /\ MaxCreated \in Nat
      /\ pc # "idle"
  BY KnownIsFinite, PagesAssumption
  DEF PagesAssumption, Invariant, TypeOK, Delete, walkVars, Walking
<1>2. Known' = Known /\ Known \subseteq Resources
  BY <1>1 DEF Known, Resources
<1>3. PICK s : s = entries
  OBVIOUS
<1>4. /\ s \in Seq(Known) /\ i \in 1..Len(s)
      /\ DOMAIN s = 1..Len(s) /\ Len(s) \in Nat
      /\ \A j, k \in 1..Len(s) : s[j] = s[k] => j = k
      /\ Len(s) + removed = initial + added
  BY <1>3 DEF Invariant, ListAgrees, IsInjective
<1>5. entries' = RemoveAt(s, i)
  BY <1>3 DEF Delete
<1>6. /\ entries' \in Seq(Known) /\ Len(entries') = Len(s) - 1
      /\ \A j \in 1..(Len(s) - 1) : entries'[j] = IF j < i THEN s[j] ELSE s[j + 1]
  BY <1>4, <1>5, RemovedIsList
<1>7. IsInjective(entries')
  <2> SUFFICES ASSUME NEW j \in 1..(Len(s) - 1), NEW k \in 1..(Len(s) - 1),
                      entries'[j] = entries'[k]
               PROVE  j = k
    BY <1>4, <1>6 DEF IsInjective
  <2> QED
    BY <1>4, <1>6
<1>8. entries' \in Lists
  <2>1. entries' \in Seq(Resources) /\ Len(entries') <= MaxInitial + MaxCreated
    BY <1>1, <1>2, <1>4, <1>6
  <2> QED
    BY <1>7, <2>1, ListsAreSequences
<1>9. TypeOK'
  BY <1>1, <1>4, <1>8 DEF Invariant, TypeOK
<1>10. ListAgrees'
  <2>1. Len(entries') + removed' = initial' + added'
    <3>1. Len(s) + removed = initial + added /\ Len(s) \in Nat
      BY <1>4
    <3>2. Len(entries') = Len(s) - 1
      BY <1>6
    <3> QED
      BY <1>1, <3>1, <3>2
  <2> QED
    BY <1>1, <1>2, <1>6, <1>7, <2>1 DEF Invariant, ListAgrees
<1>11. WalkAgrees' /\ PositionsAgree'
  <2>1. UNCHANGED walkVars /\ added' \in Nat /\ added' >= added
    BY <1>1 DEF walkVars
  <2>2. \A n \in Seq(Known), k \in Int :
           /\ HasCome(n, k) => HasCome(n, k)'
           /\ HasEnded(n) => HasEnded(n)'
    BY DeletionIsCounted DEF Invariant
  <2> QED
    BY <2>1, <2>2, WalkIsKept
<1> QED
  BY <1>9, <1>10, <1>11 DEF Invariant

(* A step of the client, or a refusal: the walk goes on to another request *)
(* or comes to an end.                                                     *)
LEMMA WalksKeeps ==
    ASSUME Invariant, NextPage \/ LastPage \/ Retry \/ GiveUp \/ Refuse
    PROVE  Invariant'
<1>1. /\ UNCHANGED <<entries, initial, added, removed, result, total, seen,
                     first, masked, failures>>
      /\ pc # "idle" /\ pc' \notin {"idle", "listed", "paged", "failed"}
  BY DEF NextPage, LastPage, Retry, GiveUp, Refuse, Walks
<1>2. UNCHANGED walkCounts
  BY <1>1 DEF walkCounts
<1>3. PICK s \in Seq(Known) : s = seen
  BY DEF Invariant, ListAgrees
<1>4. ListAgrees' /\ (Repeats <= added)'
  BY <1>1 DEF Invariant, ListAgrees, Known, WalkAgrees, Repeats, ToSet
<1>5. CASE NextPage
  <2>1. /\ pc = "paged" /\ pc' = "asked"
        /\ params' = [params EXCEPT !.offset = @ + params.limit]
    BY <1>5 DEF NextPage, Walks
  <2>2. PICK k \in Int : k = Reached
    BY ParamsAreNumbers DEF Invariant
  <2>3. /\ params' = [params EXCEPT !.offset = k]
        /\ params'.offset = k /\ params'.limit = params.limit
        /\ params' \in [limit : Limits \cup {0}, offset : Int]
    <3>1. params' = [params EXCEPT !.offset = k]
      BY <2>1, <2>2 DEF Reached
    <3> QED
      BY <3>1, ParamsAreNumbers DEF Invariant
  <2>4. params.limit \in 1..MaxLimit
    BY <2>1 DEF Invariant, PositionsAgree, page_params
  <2>5. params' \in Params
    <3>1. params.limit \in Limits
      BY <2>4 DEF Invariant, TypeOK, Params, NoParams
    <3> QED
      BY <2>3, <3>1 DEF Params
  <2>6. TypeOK'
    BY <1>1, <2>1, <2>5 DEF Invariant, TypeOK
  <2>7. HasCome(s, k)
    BY <1>3, <2>1, <2>2 DEF Invariant, WalkAgrees
  <2>8. HasCome(s, k)'
    BY <1>2, <2>7, CountsAreKept
  <2>9. WalkAgrees'
    BY <1>1, <1>3, <1>4, <2>1, <2>3, <2>8 DEF WalkAgrees
  <2>10. PositionsAgree'
    BY <1>1, <2>1 DEF Invariant, PositionsAgree
  <2> QED
    BY <1>4, <2>6, <2>9, <2>10 DEF Invariant
<1>6. CASE LastPage
  <2>1. pc = "paged" /\ pc' = "done" /\ UNCHANGED params /\ Reached >= total
    BY <1>6 DEF LastPage, Walks, Reached
  <2>2. HasEnded(s)
    BY <1>3, <2>1 DEF Invariant, WalkAgrees
  <2>3. HasEnded(s)'
    BY <1>2, <2>2, CountsAreKept
  <2>4. WalkAgrees'
    BY <1>1, <1>3, <1>4, <2>1, <2>3 DEF WalkAgrees
  <2>5. TypeOK' /\ PositionsAgree'
    BY <1>1, <2>1 DEF Invariant, TypeOK, PositionsAgree
  <2> QED
    BY <1>4, <2>4, <2>5 DEF Invariant
<1>7. CASE Retry
  <2>1. pc = "failed" /\ pc' = "asked" /\ UNCHANGED params /\ failures <= MaxRetries
    BY <1>7 DEF Retry, Walks
  <2>2. PICK k \in Int : k = params.offset
    BY ParamsAreNumbers DEF Invariant
  <2>3. HasCome(s, k)
    BY <1>3, <2>1, <2>2 DEF Invariant, WalkAgrees
  <2>4. HasCome(s, k)'
    BY <1>2, <2>3, CountsAreKept
  <2>5. WalkAgrees'
    BY <1>1, <1>3, <1>4, <2>1, <2>2, <2>4 DEF WalkAgrees
  <2>6. TypeOK' /\ PositionsAgree'
    BY <1>1, <2>1 DEF Invariant, TypeOK, PositionsAgree
  <2> QED
    BY <1>4, <2>5, <2>6 DEF Invariant
<1>8. CASE GiveUp \/ Refuse
  <2>1. pc' \in {"gaveUp", "refused"} /\ UNCHANGED params
    BY <1>8 DEF GiveUp, Refuse, Walks
  <2>2. WalkAgrees'
    BY <1>4, <2>1 DEF WalkAgrees
  <2>3. TypeOK' /\ PositionsAgree'
    BY <1>1, <2>1 DEF Invariant, TypeOK, PositionsAgree
  <2> QED
    BY <1>4, <2>2, <2>3 DEF Invariant
<1> QED
  BY <1>5, <1>6, <1>7, <1>8

LEMMA FailsKeeps ==
    ASSUME Invariant, Fails
    PROVE  Invariant'
<1>1. /\ pc \in {"asked", "listed"} /\ pc' = "failed" /\ page_params(params)
      /\ failures' = failures + 1
      /\ UNCHANGED <<entries, initial, added, removed, params, result, total, seen,
                     first, masked>>
  BY DEF Fails
<1>2. UNCHANGED walkCounts
  BY <1>1 DEF walkCounts
<1>3. PICK s \in Seq(Known) : s = seen
  BY DEF Invariant, ListAgrees
<1>4. PICK k \in Int : k = params.offset
  BY ParamsAreNumbers DEF Invariant
<1>5. HasCome(s, k)
  BY <1>1, <1>3, <1>4 DEF Invariant, WalkAgrees
<1>6. HasCome(s, k)'
  BY <1>2, <1>5, CountsAreKept
<1>7. ListAgrees' /\ (Repeats <= added)'
  BY <1>1 DEF Invariant, ListAgrees, Known, WalkAgrees, Repeats, ToSet
<1>8. WalkAgrees'
  BY <1>1, <1>3, <1>4, <1>6, <1>7 DEF WalkAgrees
<1>9. TypeOK'
  <2>1. failures' \in 0..(MaxRetries + 1)
    BY <1>1, PagesAssumption DEF PagesAssumption, Invariant, TypeOK, PositionsAgree
  <2> QED
    BY <1>1, <2>1 DEF Invariant, TypeOK
<1>10. PositionsAgree'
  BY <1>1 DEF PositionsAgree, page_params
<1> QED
  BY <1>7, <1>8, <1>9, <1>10 DEF Invariant

LEMMA LxdListsKeeps ==
    ASSUME Invariant, LxdLists
    PROVE  Invariant'
<1>1. /\ pc = "asked" /\ pc' = "listed" /\ page_params(params) /\ result' = entries
      /\ UNCHANGED <<entries, initial, added, removed, params, total, seen, first,
                     masked, failures>>
  BY DEF LxdLists
<1>2. UNCHANGED walkCounts
  BY <1>1 DEF walkCounts
<1>3. PICK s \in Seq(Known) : s = seen
  BY DEF Invariant, ListAgrees
<1>4. PICK o \in Nat : o = params.offset
  BY <1>1, ParamsAreNumbers DEF Invariant, page_params
<1>5. PICK l \in Nat : l = params.limit
  BY <1>1, ParamsAreNumbers DEF Invariant, page_params
<1>6. HasCome(s, o)
  BY <1>1, <1>3, <1>4 DEF Invariant, WalkAgrees
<1>7. PICK n : n = s \o slice(entries, o, o + l)
  OBVIOUS
<1>8. HasCome(n, o + l) /\ (o + l >= Len(entries) => HasEnded(n))
  BY <1>6, <1>7, PageIsCounted DEF Invariant
<1>9. PICK k : k = o + l
  OBVIOUS
<1>10. HasCome(n, k)' /\ (k >= Len(entries) => HasEnded(n)')
  BY <1>2, <1>8, <1>9, CountsAreKept
<1>11. entries # NoList
  <2>1. entries \in Seq(Nat)
    BY KnownIsFinite DEF Invariant, ListAgrees, Known
  <2> QED
    BY <2>1, PagesAssumption DEF PagesAssumption
<1>12. k = Reached' /\ ItemsOf(result)' = entries /\ (seen \o Page)' = n
  BY <1>1, <1>3, <1>4, <1>5, <1>7, <1>9, <1>11 DEF Reached, ItemsOf, Page, paginate
<1>13. ListAgrees' /\ (Repeats <= added)'
  BY <1>1 DEF Invariant, ListAgrees, Known, WalkAgrees, Repeats, ToSet
<1>14. HasCome(seen, params.offset)'
  <2>1. HasCome(s, o)'
    BY <1>2, <1>6, CountsAreKept
  <2> QED
    BY <1>1, <1>3, <1>4, <2>1
<1>15. WalkAgrees'
  <2>1. HasCome(seen \o Page, Reached)'
    BY <1>10, <1>12
  <2>2. (Reached >= Len(ItemsOf(result)) => HasEnded(seen \o Page))'
    BY <1>10, <1>12
  <2> QED
    BY <1>1, <1>13, <1>14, <2>1, <2>2 DEF WalkAgrees
<1>16. TypeOK' /\ PositionsAgree'
  BY <1>1 DEF Invariant, TypeOK, PositionsAgree, page_params
<1> QED
  BY <1>13, <1>15, <1>16 DEF Invariant

LEMMA LxdGivesNoListKeeps ==
    ASSUME Invariant, LxdGivesNoList
    PROVE  Invariant'
<1>1. /\ pc = "asked" /\ pc' = "listed" /\ page_params(params) /\ result' = NoList
      /\ masked' = TRUE
      /\ UNCHANGED <<entries, initial, added, removed, params, total, seen, first,
                     failures>>
  BY DEF LxdGivesNoList
<1>2. PICK s \in Seq(Known) : s = seen
  BY DEF Invariant, ListAgrees
<1>3. PICK o \in Nat : o = params.offset
  BY <1>1, ParamsAreNumbers DEF Invariant, page_params
<1>4. PICK l \in Nat : l = params.limit
  BY <1>1, ParamsAreNumbers DEF Invariant, page_params
<1>5. HasCome(s, o)
  BY <1>1, <1>2, <1>3 DEF Invariant, WalkAgrees
<1>6. RepeatsBy(s, o) <= added /\ RepeatsBy(s, o + l) <= added
  BY <1>5, NothingIsShown DEF Invariant, HasCome
<1>7. PICK k : k = o + l
  OBVIOUS
<1>8. \A q : HasCome(s, q)' <=> RepeatsBy(s, q) <= added
  BY <1>1 DEF HasCome, RepeatsBy, Again, Behind, ToSet
<1>9. HasCome(s, o)' /\ HasCome(s, k)'
  BY <1>6, <1>7, <1>8
<1>10. HasEnded(s)'
  BY <1>1 DEF HasEnded
<1>11. (seen \o Page)' = s /\ k = Reached'
  <2>1. Page' = slice(<< >>, o, o + l)
    BY <1>1, <1>3, <1>4 DEF Page, ItemsOf, paginate
  <2>2. << >> \in Seq(Known) /\ Len(<< >>) = 0 /\ o + l \in Int
    OBVIOUS
  <2>3. slice(<< >>, o, o + l) = << >>
    <3>1. /\ slice(<< >>, o, o + l) \in Seq(Known)
          /\ Len(slice(<< >>, o, o + l)) <= Len(<< >>)
      BY <2>2, SliceIsPart
    <3> QED
      BY <2>2, <3>1
  <2>4. s \o << >> = s
    BY ConcatEmptySeq
  <2> QED
    BY <1>1, <1>2, <1>3, <1>4, <1>7, <2>1, <2>3, <2>4 DEF Reached
<1>12. ListAgrees' /\ (Repeats <= added)'
  BY <1>1 DEF Invariant, ListAgrees, Known, WalkAgrees, Repeats, ToSet
<1>13. WalkAgrees'
  <2>1. HasCome(seen, params.offset)'
    BY <1>1, <1>2, <1>3, <1>9
  <2>2. HasCome(seen \o Page, Reached)' /\ HasEnded(seen \o Page)'
    BY <1>9, <1>10, <1>11
  <2> QED
    BY <1>1, <1>12, <2>1, <2>2 DEF WalkAgrees
<1>14. TypeOK' /\ PositionsAgree'
  BY <1>1 DEF Invariant, TypeOK, PositionsAgree, page_params
<1> QED
  BY <1>12, <1>13, <1>14 DEF Invariant

LEMMA AnswerKeeps ==
    ASSUME Invariant, Answer
    PROVE  Invariant'
<1>1. /\ pc = "listed" /\ pc' = "paged"
      /\ seen' = seen \o Page /\ total' = Len(ItemsOf(result))
      /\ UNCHANGED <<entries, initial, added, removed, params, result, first,
                     masked, failures>>
  BY DEF Answer, Page, ItemsOf, paginate
<1>2. UNCHANGED walkCounts
  BY <1>1 DEF walkCounts
<1>3. PICK n \in Seq(Known) : n = seen \o Page
  BY <1>1, PageIsKnown
<1>4. PICK k \in Int : k = Reached
  BY ParamsAreNumbers DEF Invariant
<1>5. HasCome(n, k) /\ (k >= Len(ItemsOf(result)) => HasEnded(n))
  BY <1>1, <1>3, <1>4 DEF Invariant, WalkAgrees
<1>6. HasCome(n, k)' /\ (k >= Len(ItemsOf(result)) => HasEnded(n)')
  BY <1>2, <1>5, CountsAreKept
<1>7. k = Reached' /\ n = seen'
  BY <1>1, <1>3, <1>4 DEF Reached
<1>8. (Repeats <= added)'
  <2>1. /\ Len(n) - Cardinality(ToSet(n)) + Cardinality(Again(n, k)) <= added
        /\ Len(n) \in Nat /\ Cardinality(ToSet(n)) \in Nat /\ added \in Nat
        /\ Cardinality(Again(n, k)) \in Nat
    BY <1>5, CountsAreFinite, FS_CardinalityType, KnownIsFinite
    DEF Invariant, HasCome, RepeatsBy
  <2> QED
    <3>1. Len(n) - Cardinality(ToSet(n)) <= added
      BY <2>1
    <3>2. Repeats' = Len(n) - Cardinality(ToSet(n))
      BY <1>7 DEF Repeats, ToSet
    <3> QED
      BY <1>1, <3>1, <3>2
<1>9. WalkAgrees'
  BY <1>1, <1>6, <1>7, <1>8 DEF WalkAgrees
<1>10. ListAgrees'
  BY <1>1, <1>3, <1>7 DEF Invariant, ListAgrees, Known
<1>11. TypeOK'
  <2>1. ToSet(seen') \subseteq Resources
    <3>1. ToSet(n) \subseteq Known
      BY ItemsOfSequence
    <3>2. Known \subseteq Resources
      BY PagesAssumption DEF PagesAssumption, Invariant, TypeOK, Known, Resources
    <3> QED
      BY <1>7, <3>1, <3>2
  <2>2. total' \in 0..(MaxInitial + MaxCreated)
    <3>1. /\ ItemsOf(result) \in Seq(Known)
          /\ Len(ItemsOf(result)) <= MaxInitial + MaxCreated
      BY <1>1, PageIsKnown
    <3> QED
      BY <1>1, <3>1, PagesAssumption DEF PagesAssumption
  <2> QED
    BY <1>1, <2>1, <2>2 DEF Invariant, TypeOK, ToSet
<1>12. PositionsAgree'
  BY <1>1 DEF Invariant, PositionsAgree, page_params
<1> QED
  BY <1>9, <1>10, <1>11, <1>12 DEF Invariant

LEMMA StutterKeeps ==
    ASSUME Invariant, UNCHANGED vars
    PROVE  Invariant'
<1>1. /\ UNCHANGED <<entries, initial, added, removed, walkVars, walkCounts>>
      /\ UNCHANGED <<pc, params, result, total, seen, first, masked, failures>>
  BY DEF vars, walkVars, walkCounts
<1>2. TypeOK' /\ ListAgrees'
  BY <1>1 DEF Invariant, TypeOK, ListAgrees, Known
<1>3. WalkAgrees' /\ PositionsAgree'
  <2>1. added' \in Nat /\ added' >= added
    BY <1>1, KnownIsFinite DEF Invariant
  <2>2. \A s \in Seq(Known), k \in Int :
           /\ HasCome(s, k) => HasCome(s, k)'
           /\ HasEnded(s) => HasEnded(s)'
    BY <1>1, CountsAreKept
  <2> QED
    BY <1>1, <2>1, <2>2, WalkIsKept
<1> QED
  BY <1>2, <1>3 DEF Invariant

LEMMA NextInvariant == Invariant /\ [Next]_vars => Invariant'
BY BeginKeeps, WalksKeeps, FailsKeeps, LxdListsKeeps, LxdGivesNoListKeeps, AnswerKeeps,
   CreateKeeps, DeleteKeeps, StutterKeeps
DEF Next, Client, Gateway

(* Lists, positions and counts agree in every reachable state, for any     *)
(* limits, offsets, lengths and numbers of changes.                        *)
THEOREM Safety == Spec => []Invariant
BY InitInvariant, NextInvariant, PTL DEF Spec

(* Every variable keeps its type: no list names a resource twice.          *)
THEOREM TypeCorrect == Spec => []TypeOK
<1>1. Invariant => TypeOK
  BY DEF Invariant
<1> QED
  BY <1>1, Safety, PTL

(* A client that has walked to the last page has missed at most as many of *)
(* the resources that were and are there as were deleted meanwhile.        *)
THEOREM DeletionsAloneHide == Spec => []OnlyDeletionsHideEntries
<1>1. Invariant => OnlyDeletionsHideEntries
  BY DEF Invariant, WalkAgrees, OnlyDeletionsHideEntries, HasEnded, Left, Missed
<1> QED
  BY <1>1, Safety, PTL

(* It has been shown at most as many resources again as were created.      *)
THEOREM CreationsAloneRepeat == Spec => []OnlyCreationsRepeatEntries
<1>1. Invariant => OnlyCreationsRepeatEntries
  BY DEF Invariant, WalkAgrees, OnlyCreationsRepeatEntries
<1> QED
  BY <1>1, Safety, PTL

-----------------------------------------------------------------------------
(* A collection at rest: pages put together are the list. *)

(* p is what s holds from position a to position e, as Python counts.      *)
CutFrom(p, s, a, e) ==
    /\ Len(p) = IF a < e THEN e - a ELSE 0
    /\ \A i \in 1..(e - a) : p[i] = s[a + i]

LEMMA SliceIsExact ==
    ASSUME NEW S, NEW s \in Seq(S), NEW a \in Nat, NEW b \in Nat, NEW e \in Nat,
           e = IF b < Len(s) THEN b ELSE Len(s)
    PROVE  slice(s, a, b) \in Seq(S) /\ CutFrom(slice(s, a, b), s, a, e)
<1> DEFINE m == a + 1
<1>1. slice(s, a, b) = SubSeq(s, m, e)
  BY DEF slice
<1>2. m \in Int /\ \A i \in m..e : s[i] \in S
  OBVIOUS
<1>3. /\ SubSeq(s, m, e) \in Seq(S)
      /\ Len(SubSeq(s, m, e)) = IF m <= e THEN e - m + 1 ELSE 0
      /\ \A i \in 1..(e - m + 1) : SubSeq(s, m, e)[i] = s[m + i - 1]
  BY <1>2, SubSeqProperties
<1> HIDE DEF m
<1>4. /\ Len(SubSeq(s, m, e)) = IF a < e THEN e - a ELSE 0
      /\ \A i \in 1..(e - a) : SubSeq(s, m, e)[i] = s[a + i]
  BY <1>3 DEF m
<1> QED
  BY <1>1, <1>3, <1>4 DEF CutFrom

(* A page and the next one are the slice from the beginning of the one to  *)
(* the end of the other.                                                   *)
LEMMA SlicesJoin ==
    ASSUME NEW S, NEW s \in Seq(S), NEW a \in Nat, NEW b \in Nat, NEW c \in Nat,
           a <= b, b <= c
    PROVE  slice(s, a, b) \o slice(s, b, c) = slice(s, a, c)
<1>1. PICK e \in Nat : e = IF b < Len(s) THEN b ELSE Len(s)
  OBVIOUS
<1>2. PICK f \in Nat : f = IF c < Len(s) THEN c ELSE Len(s)
  OBVIOUS
<1>3. PICK p \in Seq(S) : p = slice(s, a, b) /\ CutFrom(p, s, a, e)
  <2>1. slice(s, a, b) \in Seq(S) /\ CutFrom(slice(s, a, b), s, a, e)
    BY <1>1, SliceIsExact
  <2> QED
    BY <2>1
<1>4. PICK q \in Seq(S) : q = slice(s, b, c) /\ CutFrom(q, s, b, f)
  <2>1. slice(s, b, c) \in Seq(S) /\ CutFrom(slice(s, b, c), s, b, f)
    BY <1>2, SliceIsExact
  <2> QED
    BY <2>1
<1>5. PICK t \in Seq(S) : t = slice(s, a, c) /\ CutFrom(t, s, a, f)
  <2>1. slice(s, a, c) \in Seq(S) /\ CutFrom(slice(s, a, c), s, a, f)
    BY <1>2, SliceIsExact
  <2> QED
    BY <2>1
<1>6. /\ Len(p) = IF a < e THEN e - a ELSE 0
      /\ \A i \in 1..(e - a) : p[i] = s[a + i]
  BY <1>3 DEF CutFrom
<1>7. /\ Len(q) = IF b < f THEN f - b ELSE 0
      /\ \A i \in 1..(f - b) : q[i] = s[b + i]
  BY <1>4 DEF CutFrom
<1>8. /\ Len(t) = IF a < f THEN f - a ELSE 0
      /\ \A i \in 1..(f - a) : t[i] = s[a + i]
  BY <1>5 DEF CutFrom
<1>9. /\ p \o q \in Seq(S) /\ Len(p \o q) = Len(p) + Len(q)
      /\ \A i \in 1..(Len(p) + Len(q)) :
            (p \o q)[i] = IF i <= Len(p) THEN p[i] ELSE q[i - Len(p)]
  BY ConcatProperties
<1>10. e <= f /\ (b < f => e = b) /\ (f <= b => e = f)
  <2>1. Len(s) \in Nat
    OBVIOUS
  <2> QED
    BY <1>1, <1>2, <2>1, SMT
<1>11. Len(p) + Len(q) = Len(t)
  <2>1. Len(p) = IF a < e THEN e - a ELSE 0
    BY <1>6
  <2>2. Len(q) = IF b < f THEN f - b ELSE 0
    BY <1>7
  <2>3. Len(t) = IF a < f THEN f - a ELSE 0
    BY <1>8
  <2>4. (IF a < e THEN e - a ELSE 0) + (IF b < f THEN f - b ELSE 0)
        = IF a < f THEN f - a ELSE 0
    BY <1>10
  <2> QED
    BY <2>1, <2>2, <2>3, <2>4
<1>12. ASSUME NEW i \in 1..Len(t)
       PROVE  (p \o q)[i] = t[i]
  <2>1. i <= f - a /\ t[i] = s[a + i]
    BY <1>8
  <2>2. CASE i <= Len(p)
    <3>1. i \in 1..(e - a)
      BY <1>6, <2>2
    <3> QED
      BY <1>6, <1>9, <1>11, <2>1, <2>2, <3>1
  <2>3. CASE i > Len(p)
    <3>1. Len(p) = b - a /\ i - Len(p) \in 1..(f - b)
      BY <1>6, <1>7, <1>8, <1>10, <1>11, <2>3
    <3>2. q[i - Len(p)] = s[b + (i - Len(p))]
      BY <1>7, <3>1
    <3>3. b + (i - Len(p)) = a + i
      BY <3>1
    <3> QED
      BY <1>9, <1>11, <2>1, <2>3, <3>2, <3>3
  <2> QED
    <3>1. Len(t) \in Nat /\ Len(p) \in Nat
      OBVIOUS
    <3>2. i <= Len(p) \/ i > Len(p)
      BY <3>1
    <3> QED
      BY <2>2, <2>3, <3>2, Zenon
<1>13. p \o q = t
  BY <1>9, <1>11, <1>12, SeqEqual
<1> QED
  BY <1>3, <1>4, <1>5, <1>13

(* What was shown is the collection from where the walk began to k.        *)
Shown(s, k) ==
    \E o \in Nat : /\ o <= k
                  /\ first = slice(entries, o, Len(entries))
                  /\ s = slice(entries, o, k)

RestAgrees ==
    AtRest =>
      /\ pc \in {"asked", "listed", "failed"} /\ page_params(params) =>
            Shown(seen, params.offset)
      /\ pc = "listed" => result = entries
      /\ pc = "paged"  => total = Len(entries) /\ Shown(seen, Reached)
      /\ pc = "done"   => seen = first

LEMMA RestBegins ==
    ASSUME Invariant, NEW l \in Limits, NEW o \in Offsets,
           Begin([limit |-> l, offset |-> o])
    PROVE  RestAgrees'
<1>1. /\ pc = "idle" /\ pc' = "asked"
      /\ params' = [limit |-> l, offset |-> o]
      /\ o >= 0 => first' = slice(entries, o, Len(entries))
      /\ UNCHANGED <<entries, seen>>
      /\ o \in Int
  BY PagesAssumption DEF Begin, PagesAssumption
<1>2. params'.offset = o
  BY <1>1
<1>3. ASSUME page_params(params)'
      PROVE  Shown(seen, params.offset)'
  <2>1. o \in Nat
    BY <1>1, <1>2, <1>3 DEF page_params
  <2>2. PICK e \in Seq(Known) : e = entries
    BY DEF Invariant, ListAgrees
  <2>3. PICK n \in Nat : n = IF o < Len(e) THEN o ELSE Len(e)
    BY <2>1
  <2>4. slice(e, o, o) \in Seq(Known) /\ CutFrom(slice(e, o, o), e, o, n)
    BY <2>1, <2>3, SliceIsExact
  <2>5. ~ (o < n)
    BY <2>1, <2>3
  <2>6. Len(slice(e, o, o)) = 0
    BY <2>4, <2>5 DEF CutFrom
  <2>7. slice(e, o, o) = << >>
    BY <2>4, <2>6, EmptySeq
  <2>8. seen = << >>
    BY <1>1 DEF Invariant, PositionsAgree
  <2>9. /\ o <= o
        /\ first' = slice(e, o, Len(e))
        /\ seen' = slice(e, o, o) /\ entries' = e
    BY <1>1, <2>1, <2>2, <2>7, <2>8
  <2> QED
    BY <1>2, <2>1, <2>9 DEF Shown
<1> QED
  BY <1>1, <1>3 DEF RestAgrees

LEMMA RestAnswers ==
    ASSUME Invariant, RestAgrees, Answer
    PROVE  RestAgrees'
<1>1. /\ pc = "listed" /\ pc' = "paged"
      /\ seen' = seen \o Page /\ total' = Len(ItemsOf(result))
      /\ UNCHANGED <<entries, added, removed, params, first, masked>>
  BY DEF Answer, Page, ItemsOf, paginate
<1>2. SUFFICES ASSUME AtRest
               PROVE  total' = Len(entries) /\ Shown(seen, Reached)'
  BY <1>1 DEF RestAgrees, AtRest
<1>3. PICK e \in Seq(Known) : e = entries
  BY DEF Invariant, ListAgrees
<1>4. ItemsOf(result) = e
  <2>1. result = e
    BY <1>1, <1>2, <1>3 DEF RestAgrees
  <2>2. Known \subseteq Nat
    BY KnownIsFinite DEF Invariant, Known
  <2>3. e \in Seq(Nat)
    <3>1. Len(e) \in Nat /\ e = [i \in 1..Len(e) |-> e[i]]
      OBVIOUS
    <3>2. \A i \in 1..Len(e) : e[i] \in Known
      OBVIOUS
    <3>3. \A i \in 1..Len(e) : e[i] \in Nat
      BY <2>2, <3>2, Zenon
    <3>4. e \in [1..Len(e) -> Nat]
      BY <3>1, <3>3, Zenon
    <3> QED
      BY <3>1, <3>4
  <2> QED
    BY <2>1, <2>3, PagesAssumption DEF ItemsOf, PagesAssumption
<1>5. page_params(params) /\ params.limit \in Int /\ params.offset \in Int
  BY <1>1, ParamsAreNumbers DEF Invariant, PositionsAgree
<1>6. PICK k \in Nat : k = params.offset
  BY <1>5 DEF page_params
<1>7. PICK r \in Nat : r = Reached /\ k <= r
  BY <1>5, <1>6 DEF page_params, Reached
<1>8. PICK o \in Nat : /\ o <= k
                      /\ first = slice(e, o, Len(e))
                      /\ seen = slice(e, o, k)
  BY <1>1, <1>2, <1>3, <1>5, <1>6 DEF RestAgrees, Shown
<1>9. Page = slice(e, k, r)
  BY <1>4, <1>6, <1>7 DEF Page, paginate, Reached
<1>10. slice(e, o, k) \o slice(e, k, r) = slice(e, o, r)
  BY <1>7, <1>8, SlicesJoin
<1>11. seen' = slice(e, o, r) /\ entries' = e /\ first' = slice(e, o, Len(e))
  BY <1>1, <1>3, <1>8, <1>9, <1>10
<1>12. Reached' = r /\ o <= r
  BY <1>1, <1>7, <1>8 DEF Reached
<1>13. Shown(seen, Reached)'
  BY <1>11, <1>12 DEF Shown
<1> QED
  BY <1>1, <1>3, <1>4, <1>13

LEMMA RestEnds ==
    ASSUME Invariant, RestAgrees, LastPage
    PROVE  RestAgrees'
<1>1. /\ pc = "paged" /\ Reached >= total /\ pc' = "done"
      /\ UNCHANGED <<added, removed, masked, seen, first>>
  BY DEF LastPage, Walks, Reached
<1>2. SUFFICES ASSUME AtRest
               PROVE  seen = first
  BY <1>1 DEF RestAgrees, AtRest
<1>3. total = Len(entries) /\ Shown(seen, Reached)
  BY <1>1, <1>2 DEF RestAgrees
<1>4. PICK e \in Seq(Known) : e = entries
  BY DEF Invariant, ListAgrees
<1>5. PICK r \in Int : r = Reached
  BY ParamsAreNumbers DEF Invariant
<1>6. PICK o \in Nat : first = slice(e, o, Len(e)) /\ seen = slice(e, o, r)
  BY <1>3, <1>4, <1>5 DEF Shown
<1>7. ~ (r < Len(e)) /\ ~ (Len(e) < Len(e))
  BY <1>1, <1>3, <1>4, <1>5
<1> QED
  BY <1>6, <1>7 DEF slice

LEMMA RestGoesOn ==
    ASSUME Invariant, RestAgrees, NextPage
    PROVE  RestAgrees'
<1>1. /\ pc = "paged" /\ pc' = "asked"
      /\ params' = [params EXCEPT !.offset = Reached]
      /\ UNCHANGED <<entries, added, removed, masked, seen, first>>
  BY DEF NextPage, Walks, Reached
<1>2. SUFFICES ASSUME AtRest
               PROVE  Shown(seen, params.offset)'
  BY <1>1 DEF RestAgrees, AtRest
<1>3. params'.offset = Reached
  BY <1>1, ParamsAreNumbers DEF Invariant
<1>4. Shown(seen, Reached)
  BY <1>1, <1>2 DEF RestAgrees
<1> QED
  BY <1>1, <1>3, <1>4 DEF Shown

LEMMA RestOtherwise ==
    ASSUME Invariant, RestAgrees,
           \/ Retry \/ GiveUp \/ Refuse \/ Fails \/ LxdLists \/ LxdGivesNoList
           \/ UNCHANGED vars
    PROVE  RestAgrees'
<1>1. /\ UNCHANGED <<entries, added, removed, params, seen, first>>
      /\ \/ pc \in {"asked", "listed", "failed"} /\ pc' = "asked" /\ UNCHANGED masked
         \/ pc \in {"asked", "listed"} /\ pc' = "failed" /\ UNCHANGED masked
         \/ pc = "asked" /\ pc' = "listed" /\ result' = entries /\ UNCHANGED masked
         \/ pc' \in {"refused", "gaveUp"}
         \/ masked'
         \/ UNCHANGED <<pc, result, total, masked>>
  BY DEF Retry, GiveUp, Refuse, Fails, LxdLists, LxdGivesNoList, Walks, vars, walkVars
<1>2. Reached' = Reached /\ page_params(params)' = page_params(params)
  BY <1>1 DEF Reached, page_params
<1>3. \A s, k : Shown(s, k)' = Shown(s, k)
  BY <1>1 DEF Shown
<1>4. SUFFICES ASSUME AtRest'
               PROVE  RestAgrees'
  BY DEF RestAgrees
<1>5. ~ masked' /\ (UNCHANGED masked => AtRest)
  BY <1>1, <1>4 DEF AtRest
<1> QED
  BY <1>1, <1>2, <1>3, <1>4, <1>5 DEF RestAgrees

LEMMA RestStep == Invariant /\ RestAgrees /\ [Next]_vars => RestAgrees'
<1>1. ASSUME Invariant, NEW i, Create(i)
      PROVE  RestAgrees'
  <2>1. added' = added + 1 /\ added \in Nat
    BY <1>1, KnownIsFinite DEF Create, Invariant
  <2> QED
    BY <2>1 DEF RestAgrees, AtRest
<1>2. ASSUME Invariant, NEW i, Delete(i)
      PROVE  RestAgrees'
  <2>1. removed' = removed + 1 /\ removed \in Nat
    BY <1>2, PagesAssumption DEF Delete, Invariant, TypeOK, PagesAssumption
  <2> QED
    BY <2>1 DEF RestAgrees, AtRest
<1> QED
  BY <1>1, <1>2, RestBegins, RestAnswers, RestEnds, RestGoesOn, RestOtherwise
  DEF Next, Client, Gateway

(* While no resource is created or deleted and every reply is a list, a    *)
(* walk that has come to its end has shown exactly what LXD lists from the *)
(* offset on, each resource once and in LXD's order, for any limit and     *)
(* offset and through any number of failed requests.                       *)
THEOREM QuietWalksAreExact == Spec => []QuietWalkIsExact
<1>1. Init => RestAgrees
  BY DEF Init, RestAgrees
<1>2. RestAgrees => QuietWalkIsExact
  BY DEF RestAgrees, QuietWalkIsExact
<1> QED
  BY <1>1, <1>2, RestStep, Safety, PTL DEF Spec
=============================================================================
