--------------------------- MODULE VersionProofs ----------------------------
(***************************************************************************)
(* Theorems about module Version, for all version strings.                 *)
(***************************************************************************)
EXTENDS Version, TLAPS

-----------------------------------------------------------------------------
(* What the theorems rest on.                                              *)

LEMMA FieldsAreNumbers ==
    ASSUME NEW t \in Text, Valid(t)
    PROVE  t.fields[1] \in Nat /\ t.fields[2] \in Nat /\ t.fields[3] \in Nat
BY DEF Text, Valid, Bad

LEMMA SortsBeforeUnfolded ==
    ASSUME NEW p, NEW q
    PROVE  SortsBefore(p, q) <=>
               \/ p[1] < q[1]
               \/ p[1] = q[1] /\ p[2] < q[2]
               \/ p[1] = q[1] /\ p[2] = q[2] /\ p[3] < q[3]
               \/ p[1] = q[1] /\ p[2] = q[2] /\ p[3] = q[3] /\ p[4] < q[4]
               \/ /\ p[1] = q[1] /\ p[2] = q[2] /\ p[3] = q[3] /\ p[4] = q[4]
                  /\ p[5] < q[5]
               \/ /\ p[1] = q[1] /\ p[2] = q[2] /\ p[3] = q[3] /\ p[4] = q[4]
                  /\ p[5] = q[5] /\ p[6] < q[6]
<1>1. /\ 1 .. 6 = {1, 2, 3, 4, 5, 6}
      /\ 1 .. 1 - 1 = {} /\ 1 .. 2 - 1 = {1} /\ 1 .. 3 - 1 = {1, 2}
      /\ 1 .. 4 - 1 = {1, 2, 3} /\ 1 .. 5 - 1 = {1, 2, 3, 4}
      /\ 1 .. 6 - 1 = {1, 2, 3, 4, 5}
  OBVIOUS
<1>2. QED BY <1>1, ZenonT(60) DEF SortsBefore

(* The nested comparisons of Compare give the order that its comment       *)
(* describes: by key, component by component, what cannot be parsed first, *)
(* and the tags of pre-releases in byte order.                             *)
THEOREM OlderSortsBefore ==
    ASSUME NEW a \in Text, NEW b \in Text
    PROVE  /\ Compare(a, b) \in {-1, 0, 1}
           /\ Older(a, b) <=> SortsBefore(Key(a), Key(b))
           /\ Newer(a, b) <=> SortsBefore(Key(b), Key(a))
<1>0. a.pre \in Nat /\ b.pre \in Nat /\ a.raw \in Nat /\ b.raw \in Nat
  BY DEF Text
<1>1. CASE Valid(a) /\ Valid(b)
  BY <1>0, <1>1, FieldsAreNumbers, SortsBeforeUnfolded
     DEF Compare, CompareParsed, ComparePre, Sign, Older, Newer, Key
<1>2. CASE ~(Valid(a) /\ Valid(b))
  BY <1>0, <1>2, SortsBeforeUnfolded DEF Compare, Sign, Older, Newer, Key
<1>3. QED BY <1>1, <1>2

(* Which of two strings is asked about first makes no difference (Compare, *)
(* and the antisymmetry that TestCompareOrdersVersions samples).           *)
THEOREM CompareIsAntisymmetric ==
    ASSUME NEW a \in Text, NEW b \in Text
    PROVE  Compare(a, b) = -Compare(b, a)
<1>1. (Compare(a, b) < 0 <=> Compare(b, a) > 0) /\ (Compare(a, b) > 0 <=> Compare(b, a) < 0)
  BY OlderSortsBefore DEF Older, Newer
<1>2. QED BY <1>1, OlderSortsBefore

LEMMA KeyType ==
    ASSUME NEW t \in Text
    PROVE  \A k \in 1 .. 6 : Key(t)[k] \in Int
<1>1. t.pre \in Nat /\ t.raw \in Nat
  BY DEF Text
<1>2. CASE Valid(t)
  BY <1>1, <1>2, FieldsAreNumbers DEF Key
<1>3. CASE ~Valid(t)
  BY <1>1, <1>3 DEF Key
<1>4. QED BY <1>2, <1>3

(* The order of releases is a weak order: being older is transitive, and   *)
(* so is not being newer.  A release between two others cannot be newer    *)
(* than the one and older than the other the wrong way round, whatever     *)
(* tags, build metadata and unparseable strings are among them.            *)
THEOREM CompareIsAWeakOrder ==
    ASSUME NEW a \in Text, NEW b \in Text, NEW c \in Text
    PROVE  /\ ~Older(a, a)
           /\ Older(a, b) /\ Older(b, c) => Older(a, c)
           /\ ~Newer(a, b) /\ ~Newer(b, c) => ~Newer(a, c)
<1> DEFINE p == Key(a)
           q == Key(b)
           r == Key(c)
<1>1. /\ p[1] \in Int /\ p[2] \in Int /\ p[3] \in Int
      /\ p[4] \in Int /\ p[5] \in Int /\ p[6] \in Int
      /\ q[1] \in Int /\ q[2] \in Int /\ q[3] \in Int
      /\ q[4] \in Int /\ q[5] \in Int /\ q[6] \in Int
      /\ r[1] \in Int /\ r[2] \in Int /\ r[3] \in Int
      /\ r[4] \in Int /\ r[5] \in Int /\ r[6] \in Int
  BY KeyType
<1> HIDE DEF p, q, r
<1>2. ~SortsBefore(p, p)
  BY <1>1, SortsBeforeUnfolded
<1>3. SortsBefore(p, q) /\ SortsBefore(q, r) => SortsBefore(p, r)
  BY <1>1, SortsBeforeUnfolded
<1>4. ~SortsBefore(q, p) /\ ~SortsBefore(r, q) => ~SortsBefore(r, p)
  BY <1>1, SortsBeforeUnfolded
<1>5. QED BY <1>2, <1>3, <1>4, OlderSortsBefore DEF p, q, r

(* "a corrupt remote version can never look newer than what is installed", *)
(* and whatever can be parsed is newer than a corrupt local one.           *)
THEOREM CorruptIsOldest ==
    ASSUME NEW a \in Text, NEW b \in Text, ~Valid(a), Valid(b)
    PROVE  Older(a, b) /\ Newer(b, a)
BY DEF Compare, Older, Newer

(* Versions that compare equal are one release: no two that differ in a    *)
(* component or in the tag are taken for each other.                       *)
THEOREM EqualIsOneRelease ==
    ASSUME NEW a \in Text, NEW b \in Text, Valid(a), Valid(b), Compare(a, b) = 0
    PROVE  a.pre = b.pre /\ a.fields = b.fields
<1>1. a.pre \in Nat /\ b.pre \in Nat
  BY DEF Text
<1>2. /\ a.fields[1] = b.fields[1] /\ a.fields[2] = b.fields[2]
      /\ a.fields[3] = b.fields[3] /\ a.pre = b.pre
  BY <1>1, FieldsAreNumbers DEF Compare, CompareParsed, ComparePre, Sign
<1>3. a.fields \in Seq(Nat \cup {Bad}) /\ b.fields \in Seq(Nat \cup {Bad})
  BY DEF Text
<1>4. Len(a.fields) = 3 /\ Len(b.fields) = 3
  BY DEF Valid
<1>5. a.fields = b.fields
  BY <1>2, <1>3, <1>4
<1>6. QED BY <1>2, <1>5

=============================================================================
