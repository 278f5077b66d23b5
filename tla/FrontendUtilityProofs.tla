------------------------ MODULE FrontendUtilityProofs ------------------------
(***************************************************************************)
(* The two ways in which the frontend groups its boards by category agree  *)
(* on every list of boards: the reduce of Utility.groupByArray and the set *)
(* of categories with a filter each of IndexPage.svelte.                   *)
(***************************************************************************)
EXTENDS FrontendUtility, WellFoundedInduction, TLAPS

-----------------------------------------------------------------------------
(* FoldLeft over the indices of a list, which takes off the last first.     *)

\* The value of a fold exists on every set of indices, and keeps its type, when
\* its steps do.
FoldsUpTo(A, k, base, F) ==
  \E it \in [SUBSET (1..k) -> A] :
    \A s \in SUBSET (1..k) :
      it[s] = IF s = {} THEN base ELSE F[<<it[s \ {Max(s)}], Max(s)>>]

\* The greatest index of a nonempty set of them.
LEMMA GreatestIndex ==
  ASSUME NEW k \in Nat, NEW s \in SUBSET (1..k), s # {}
  PROVE  Max(s) \in s /\ \A y \in s : Max(s) >= y
<1> DEFINE Above == {m \in 0..k : \A y \in s : y <= m}
<1>1. k \in Above /\ Above \subseteq Nat
  OBVIOUS
<1>2. PICK x \in Above : \A y \in Above : ~(<<y, x>> \in OpToRel(<, Nat))
  BY <1>1, NatLessThanWellFounded, WFMin, Zenon
<1>3. \A y \in Above : ~(y < x)
  BY <1>1, <1>2 DEF OpToRel
<1>4. x \in s
  <2>1. SUFFICES ASSUME x \notin s PROVE FALSE
    OBVIOUS
  <2>2. PICK z \in s : TRUE
    OBVIOUS
  <2>3. x > 0 /\ \A y \in s : y <= x - 1
    BY <2>1, <2>2
  <2>4. x - 1 \in Above
    BY <2>3
  <2>5. QED
    BY <1>3, <2>3, <2>4
<1>5. \A y \in s : x >= y
  OBVIOUS
<1>6. QED
  BY <1>4, <1>5 DEF Max

\* One index more.
LEMMA FoldsFurther ==
  ASSUME NEW A, NEW n \in Nat, NEW base \in A, NEW F \in [A \X (1..n) -> A],
         NEW k \in 1..n, FoldsUpTo(A, k - 1, base, F)
  PROVE  FoldsUpTo(A, k, base, F)
<1>1. k \in Nat
  OBVIOUS
<1>2. PICK it \in [SUBSET (1..(k - 1)) -> A] :
        \A s \in SUBSET (1..(k - 1)) :
          it[s] = IF s = {} THEN base ELSE F[<<it[s \ {Max(s)}], Max(s)>>]
  BY DEF FoldsUpTo
<1> DEFINE jt == [s \in SUBSET (1..k) |->
                    IF k \in s THEN F[<<it[s \ {k}], k>>] ELSE it[s]]
<1>3. \A s \in SUBSET (1..k) :
        /\ s \ {k} \in SUBSET (1..(k - 1))
        /\ k \notin s => s \in SUBSET (1..(k - 1))
  OBVIOUS
<1>4. jt \in [SUBSET (1..k) -> A]
  <2>1. ASSUME NEW s \in SUBSET (1..k)
        PROVE  (IF k \in s THEN F[<<it[s \ {k}], k>>] ELSE it[s]) \in A
    BY <1>3
  <2>2. QED
    BY <2>1
<1>5. ASSUME NEW s \in SUBSET (1..k)
      PROVE  jt[s] = IF s = {} THEN base ELSE F[<<jt[s \ {Max(s)}], Max(s)>>]
  <2>1. CASE k \in s
    <3>1. Max(s) \in s /\ \A y \in s : Max(s) >= y
      BY <1>1, <2>1, GreatestIndex, Zenon
    <3> DEFINE m == Max(s)
    <3> HIDE DEF m
    <3>2. m \in s /\ m >= k
      BY <2>1, <3>1 DEF m
    <3>3. m = k
      BY <1>1, <3>2
    <3>4. Max(s) = k
      BY <3>3 DEF m
    <3>5. jt[s] = F[<<it[s \ {k}], k>>]
      BY <2>1
    <3>6. s \ {k} \in SUBSET (1..k) /\ k \notin s \ {k}
      OBVIOUS
    <3>7. jt[s \ {k}] = it[s \ {k}]
      BY <3>6
    <3> HIDE DEF jt
    <3>8. QED
      BY <2>1, <3>4, <3>5, <3>7
  <2>2. CASE k \notin s /\ s # {}
    <3>1. Max(s) \in s
      BY <1>1, <2>2, GreatestIndex, Zenon
    <3>2. s \ {Max(s)} \in SUBSET (1..k) /\ k \notin s \ {Max(s)}
      BY <2>2
    <3>3. jt[s] = it[s] /\ jt[s \ {Max(s)}] = it[s \ {Max(s)}]
      BY <2>2, <3>2
    <3>4. s \in SUBSET (1..(k - 1))
      BY <1>3, <2>2
    <3> HIDE DEF jt
    <3>5. QED
      BY <1>2, <2>2, <3>3, <3>4
  <2>3. CASE s = {}
    <3>1. jt[s] = it[s] /\ s \in SUBSET (1..(k - 1))
      BY <2>3
    <3> HIDE DEF jt
    <3>2. QED
      BY <1>2, <2>3, <3>1
  <2>4. QED
    BY <2>1, <2>2, <2>3
<1> HIDE DEF jt
<1>6. QED
  BY <1>4, <1>5 DEF FoldsUpTo

LEMMA FoldExists ==
  ASSUME NEW A, NEW n \in Nat, NEW base \in A, NEW F \in [A \X (1..n) -> A]
  PROVE  FoldsUpTo(A, n, base, F)
<1> DEFINE Bad == {k \in 0..n : ~FoldsUpTo(A, k, base, F)}
<1>1. FoldsUpTo(A, 0, base, F)
  <2> DEFINE it == [s \in SUBSET (1..0) |-> base]
  <2>1. it \in [SUBSET (1..0) -> A]
    OBVIOUS
  <2>2. \A s \in SUBSET (1..0) : s = {} /\ it[s] = base
    OBVIOUS
  <2> HIDE DEF it
  <2>3. QED
    BY <2>1, <2>2 DEF FoldsUpTo
<1>2. SUFFICES ASSUME Bad # {} PROVE FALSE
  OBVIOUS
<1>3. Bad \subseteq Nat
  OBVIOUS
<1> HIDE DEF Bad
<1>4. PICK k \in Bad : \A m \in Bad : ~(<<m, k>> \in OpToRel(<, Nat))
  BY <1>2, <1>3, WFMin, NatLessThanWellFounded, Zenon
<1>5. k \in 0..n /\ ~FoldsUpTo(A, k, base, F)
  BY DEF Bad
<1>6. k \in 1..n /\ k - 1 \in 0..n /\ k - 1 < k /\ k - 1 \in Nat /\ k \in Nat
  BY <1>1, <1>5
<1>7. k - 1 \notin Bad
  BY <1>3, <1>4, <1>5, <1>6 DEF OpToRel
<1>8. FoldsUpTo(A, k - 1, base, F)
  BY <1>6, <1>7 DEF Bad
<1>9. QED
  BY <1>5, <1>6, <1>8, FoldsFurther
\* The greatest index of a prefix is its last; without it, the prefix before.
LEMMA PrefixEnds ==
  ASSUME NEW n \in Nat, NEW m \in 1..n
  PROVE  /\ 1..m \in SUBSET (1..n) /\ 1..m # {}
         /\ Max(1..m) = m /\ (1..m) \ {m} = 1..(m - 1)
<1>1. m \in Nat /\ 1..m # {} /\ 1..m \in SUBSET (1..m)
  OBVIOUS
<1>2. Max(1..m) \in 1..m /\ \A y \in 1..m : Max(1..m) >= y
  BY <1>1, GreatestIndex, Zenon
<1> DEFINE greatest == Max(1..m)
<1> HIDE DEF greatest
<1>3. greatest \in 1..m /\ greatest >= m
  BY <1>1, <1>2 DEF greatest
<1>4. greatest = m
  BY <1>1, <1>3
<1>5. Max(1..m) = m
  BY <1>4 DEF greatest
<1>6. (1..m) \ {m} = 1..(m - 1) /\ 1..m \in SUBSET (1..n)
  BY <1>1
<1>7. QED
  BY <1>1, <1>5, <1>6

-----------------------------------------------------------------------------
(* The three folds over the boards, prefix by prefix. *)

CategoriesOf(X) == {x.category : x \in X}
GroupsOf(X) == [key : CategoriesOf(X), values : Seq(X)]

\* A board added to groups of boards leaves groups of boards.
LEMMA AddToGroupType ==
  ASSUME NEW X, NEW groups \in Seq(GroupsOf(X)), NEW x \in X
  PROVE  AddToGroup(groups, x, x.category) \in Seq(GroupsOf(X))
<1> DEFINE found == {i \in DOMAIN groups : groups[i].key = x.category}
           grown == [i \in DOMAIN groups |-> IF i \in found
                       THEN [groups[i] EXCEPT !.values = Append(@, x)]
                       ELSE groups[i]]
<1>1. \A i \in DOMAIN groups : groups[i] \in GroupsOf(X)
  OBVIOUS
<1>2. ASSUME NEW i \in DOMAIN groups
      PROVE  [groups[i] EXCEPT !.values = Append(@, x)] \in GroupsOf(X)
  <2>1. groups[i] \in GroupsOf(X)
    BY <1>1
  <2>2. Append(groups[i].values, x) \in Seq(X)
    BY <2>1 DEF GroupsOf
  <2>3. QED
    BY <2>1, <2>2 DEF GroupsOf
<1>3. grown \in Seq(GroupsOf(X))
  <2>1. DOMAIN groups = 1..Len(groups) /\ Len(groups) \in Nat
    OBVIOUS
  <2>2. \A i \in 1..Len(groups) :
          (IF i \in found THEN [groups[i] EXCEPT !.values = Append(@, x)]
           ELSE groups[i]) \in GroupsOf(X)
    BY <1>1, <1>2, <2>1
  <2>3. grown = [i \in 1..Len(groups) |-> IF i \in found
                   THEN [groups[i] EXCEPT !.values = Append(@, x)]
                   ELSE groups[i]]
    BY <2>1
  <2>4. grown \in [1..Len(groups) -> GroupsOf(X)]
    BY <2>2, <2>3
  <2> HIDE DEF grown
  <2>5. QED
    BY <2>1, <2>4
<1>4. [key |-> x.category, values |-> <<x>>] \in GroupsOf(X)
  BY DEF GroupsOf, CategoriesOf
<1>5. AddToGroup(groups, x, x.category) =
        IF found # {} THEN grown
        ELSE Append(groups, [key |-> x.category, values |-> <<x>>])
  BY DEF AddToGroup
<1> HIDE DEF grown, found
<1>6. QED
  BY <1>3, <1>4, <1>5

\* The menu's groups of the first boards.
LEMMA MenuPrefixes ==
  ASSUME NEW X, NEW boards \in Seq(X)
  PROVE  \E g :
           /\ g[0] = << >> /\ g[Len(boards)] = GroupByArray(boards)
           /\ \A m \in 1..Len(boards) :
                g[m] = AddToGroup(g[m - 1], boards[m], boards[m].category)
<1> DEFINE A == Seq(GroupsOf(X))
           n == Len(boards)
           F == [p \in A \X (1..n) |->
                   AddToGroup(p[1], boards[p[2]], boards[p[2]].category)]
<1>1. n \in Nat /\ DOMAIN boards = 1..n /\ \A i \in 1..n : boards[i] \in X
  OBVIOUS
<1>2. << >> \in A
  OBVIOUS
<1>3. F \in [A \X (1..n) -> A]
  <2>1. ASSUME NEW p \in A \X (1..n)
        PROVE  AddToGroup(p[1], boards[p[2]], boards[p[2]].category) \in A
    <3>1. p[1] \in Seq(GroupsOf(X)) /\ boards[p[2]] \in X
      BY <1>1
    <3>2. QED
      BY <3>1, AddToGroupType
  <2>2. QED
    BY <2>1
<1>4. \A a \in A, i \in 1..n :
        F[<<a, i>>] = AddToGroup(a, boards[i], boards[i].category)
  OBVIOUS
<1> HIDE DEF F, A, n
<1>5. FoldsUpTo(A, n, << >>, F)
  BY <1>1, <1>2, <1>3, FoldExists
<1>6. PICK it \in [SUBSET (1..n) -> A] :
        \A s \in SUBSET (1..n) :
          it[s] = IF s = {} THEN << >> ELSE F[<<it[s \ {Max(s)}], Max(s)>>]
  BY <1>5 DEF FoldsUpTo
<1> DEFINE Is(f) ==
      f = [s \in SUBSET DOMAIN boards |->
             IF s = {} THEN << >>
             ELSE AddToGroup(f[s \ {Max(s)}], boards[Max(s)],
                             boards[Max(s)].category)]
<1>7. Is(it)
  <2>1. ASSUME NEW s \in SUBSET (1..n), s # {}
        PROVE  it[s] = AddToGroup(it[s \ {Max(s)}], boards[Max(s)],
                                  boards[Max(s)].category)
    <3>1. Max(s) \in 1..n
      BY <1>1, <2>1, GreatestIndex
    <3>2. it[s \ {Max(s)}] \in A
      OBVIOUS
    <3>3. QED
      BY <1>4, <1>6, <2>1, <3>1, <3>2
  <2>2. it = [s \in SUBSET (1..n) |-> it[s]]
    OBVIOUS
  <2>3. QED
    BY <1>1, <1>6, <2>1, <2>2
<1>8. PICK f : Is(f) /\ GroupByArray(boards) = f[DOMAIN boards]
  BY <1>7, Zenon DEF GroupByArray, FoldLeft, MapThenFoldSet
<1> HIDE DEF Is
<1> DEFINE g == [m \in 0..n |-> f[1..m]]
<1>9. g[0] = << >>
  <2>1. 0 \in 0..n /\ 1..0 = {} /\ {} \in SUBSET DOMAIN boards
    BY <1>1
  <2>2. f[{}] = << >>
    BY <1>8, <2>1 DEF Is
  <2>3. QED
    BY <2>1, <2>2
<1>10. g[n] = GroupByArray(boards)
  BY <1>1, <1>8
<1>11. ASSUME NEW m \in 1..n
       PROVE  g[m] = AddToGroup(g[m - 1], boards[m], boards[m].category)
  <2>1. /\ 1..m \in SUBSET DOMAIN boards /\ 1..m # {}
        /\ Max(1..m) = m /\ (1..m) \ {m} = 1..(m - 1)
    BY <1>1, PrefixEnds
  <2>2. f[1..m] = AddToGroup(f[1..(m - 1)], boards[m], boards[m].category)
    BY <1>8, <2>1 DEF Is
  <2>3. m \in 0..n /\ m - 1 \in 0..n
    BY <1>1
  <2>4. QED
    BY <2>2, <2>3
<1> HIDE DEF g
<1>12. QED
  BY <1>9, <1>10, <1>11 DEF n
\* The distinct categories of the first boards.
LEMMA CategoryPrefixes ==
  ASSUME NEW X, NEW boards \in Seq(X)
  PROVE  \E g :
           /\ g[0] = << >> /\ g[Len(boards)] = UniqueCategories(boards)
           /\ \A m \in 1..Len(boards) :
                g[m] = AddCategory(g[m - 1], boards[m])
<1> DEFINE A == Seq(CategoriesOf(X))
           n == Len(boards)
           F == [p \in A \X (1..n) |->
                   AddCategory(p[1], boards[p[2]])]
<1>1. n \in Nat /\ DOMAIN boards = 1..n /\ \A i \in 1..n : boards[i] \in X
  OBVIOUS
<1>2. << >> \in A
  OBVIOUS
<1>3. F \in [A \X (1..n) -> A]
  <2>1. ASSUME NEW p \in A \X (1..n)
        PROVE  AddCategory(p[1], boards[p[2]]) \in A
    <3>1. p[1] \in A /\ boards[p[2]] \in X
      BY <1>1
    <3>2. boards[p[2]].category \in CategoriesOf(X)
      BY <3>1 DEF CategoriesOf
    <3>3. QED
      BY <3>1, <3>2 DEF AddCategory
  <2>2. QED
    BY <2>1
<1>4. \A a \in A, i \in 1..n :
        F[<<a, i>>] = AddCategory(a, boards[i])
  OBVIOUS
<1> HIDE DEF F, A, n
<1>5. FoldsUpTo(A, n, << >>, F)
  BY <1>1, <1>2, <1>3, FoldExists
<1>6. PICK it \in [SUBSET (1..n) -> A] :
        \A s \in SUBSET (1..n) :
          it[s] = IF s = {} THEN << >> ELSE F[<<it[s \ {Max(s)}], Max(s)>>]
  BY <1>5 DEF FoldsUpTo
<1> DEFINE Is(f) ==
      f = [s \in SUBSET DOMAIN boards |->
             IF s = {} THEN << >>
             ELSE AddCategory(f[s \ {Max(s)}], boards[Max(s)])]
<1>7. Is(it)
  <2>1. ASSUME NEW s \in SUBSET (1..n), s # {}
        PROVE  it[s] = AddCategory(it[s \ {Max(s)}], boards[Max(s)])
    <3>1. Max(s) \in 1..n
      BY <1>1, <2>1, GreatestIndex
    <3>2. it[s \ {Max(s)}] \in A
      OBVIOUS
    <3>3. QED
      BY <1>4, <1>6, <2>1, <3>1, <3>2
  <2>2. it = [s \in SUBSET (1..n) |-> it[s]]
    OBVIOUS
  <2>3. QED
    BY <1>1, <1>6, <2>1, <2>2
<1>8. PICK f : Is(f) /\ UniqueCategories(boards) = f[DOMAIN boards]
  BY <1>7, Zenon DEF UniqueCategories, FoldLeft, MapThenFoldSet
<1> HIDE DEF Is
<1> DEFINE g == [m \in 0..n |-> f[1..m]]
<1>9. g[0] = << >>
  <2>1. 0 \in 0..n /\ 1..0 = {} /\ {} \in SUBSET DOMAIN boards
    BY <1>1
  <2>2. f[{}] = << >>
    BY <1>8, <2>1 DEF Is
  <2>3. QED
    BY <2>1, <2>2
<1>10. g[n] = UniqueCategories(boards)
  BY <1>1, <1>8
<1>11. ASSUME NEW m \in 1..n
       PROVE  g[m] = AddCategory(g[m - 1], boards[m])
  <2>1. /\ 1..m \in SUBSET DOMAIN boards /\ 1..m # {}
        /\ Max(1..m) = m /\ (1..m) \ {m} = 1..(m - 1)
    BY <1>1, PrefixEnds
  <2>2. f[1..m] = AddCategory(f[1..(m - 1)], boards[m])
    BY <1>8, <2>1 DEF Is
  <2>3. m \in 0..n /\ m - 1 \in 0..n
    BY <1>1
  <2>4. QED
    BY <2>2, <2>3
<1> HIDE DEF g
<1>12. QED
  BY <1>9, <1>10, <1>11 DEF n

\* Those of the first boards that are of the category.
LEMMA FilterPrefixes ==
  ASSUME NEW X, NEW boards \in Seq(X), NEW c
  PROVE  \E g :
           /\ g[0] = << >> /\ g[Len(boards)] = OfCategory(boards, c)
           /\ \A m \in 1..Len(boards) :
                g[m] = Keep(g[m - 1], boards[m], c)
<1> DEFINE A == Seq(X)
           n == Len(boards)
           F == [p \in A \X (1..n) |->
                   Keep(p[1], boards[p[2]], c)]
<1>1. n \in Nat /\ DOMAIN boards = 1..n /\ \A i \in 1..n : boards[i] \in X
  OBVIOUS
<1>2. << >> \in A
  OBVIOUS
<1>3. F \in [A \X (1..n) -> A]
  <2>1. ASSUME NEW p \in A \X (1..n)
        PROVE  Keep(p[1], boards[p[2]], c) \in A
    <3>1. p[1] \in A /\ boards[p[2]] \in X
      BY <1>1
    <3>2. QED
      BY <3>1 DEF Keep
  <2>2. QED
    BY <2>1
<1>4. \A a \in A, i \in 1..n :
        F[<<a, i>>] = Keep(a, boards[i], c)
  OBVIOUS
<1> HIDE DEF F, A, n
<1>5. FoldsUpTo(A, n, << >>, F)
  BY <1>1, <1>2, <1>3, FoldExists
<1>6. PICK it \in [SUBSET (1..n) -> A] :
        \A s \in SUBSET (1..n) :
          it[s] = IF s = {} THEN << >> ELSE F[<<it[s \ {Max(s)}], Max(s)>>]
  BY <1>5 DEF FoldsUpTo
<1> DEFINE Is(f) ==
      f = [s \in SUBSET DOMAIN boards |->
             IF s = {} THEN << >>
             ELSE Keep(f[s \ {Max(s)}], boards[Max(s)], c)]
<1>7. Is(it)
  <2>1. ASSUME NEW s \in SUBSET (1..n), s # {}
        PROVE  it[s] = Keep(it[s \ {Max(s)}], boards[Max(s)], c)
    <3>1. Max(s) \in 1..n
      BY <1>1, <2>1, GreatestIndex
    <3>2. it[s \ {Max(s)}] \in A
      OBVIOUS
    <3>3. QED
      BY <1>4, <1>6, <2>1, <3>1, <3>2
  <2>2. it = [s \in SUBSET (1..n) |-> it[s]]
    OBVIOUS
  <2>3. QED
    BY <1>1, <1>6, <2>1, <2>2
<1>8. PICK f : Is(f) /\ OfCategory(boards, c) = f[DOMAIN boards]
  BY <1>7, Zenon DEF OfCategory, FoldLeft, MapThenFoldSet
<1> HIDE DEF Is
<1> DEFINE g == [m \in 0..n |-> f[1..m]]
<1>9. g[0] = << >>
  <2>1. 0 \in 0..n /\ 1..0 = {} /\ {} \in SUBSET DOMAIN boards
    BY <1>1
  <2>2. f[{}] = << >>
    BY <1>8, <2>1 DEF Is
  <2>3. QED
    BY <2>1, <2>2
<1>10. g[n] = OfCategory(boards, c)
  BY <1>1, <1>8
<1>11. ASSUME NEW m \in 1..n
       PROVE  g[m] = Keep(g[m - 1], boards[m], c)
  <2>1. /\ 1..m \in SUBSET DOMAIN boards /\ 1..m # {}
        /\ Max(1..m) = m /\ (1..m) \ {m} = 1..(m - 1)
    BY <1>1, PrefixEnds
  <2>2. f[1..m] = Keep(f[1..(m - 1)], boards[m], c)
    BY <1>8, <2>1 DEF Is
  <2>3. m \in 0..n /\ m - 1 \in 0..n
    BY <1>1
  <2>4. QED
    BY <2>2, <2>3
<1> HIDE DEF g
<1>12. QED
  BY <1>9, <1>10, <1>11 DEF n
-----------------------------------------------------------------------------
(* Board by board, the two groupings stay the same. *)

Groups(seen, kept) ==
  [i \in DOMAIN seen |-> [key |-> seen[i], values |-> kept[seen[i]]]]

\* A category is seen once, and one that was not seen has kept no board.
Grouped(X, seen, kept) ==
  /\ seen \in Seq(CategoriesOf(X)) /\ kept \in [CategoriesOf(X) -> Seq(X)]
  /\ \A i, j \in DOMAIN seen : seen[i] = seen[j] => i = j
  /\ \A c \in CategoriesOf(X) : (\A i \in DOMAIN seen : seen[i] # c) => kept[c] = << >>

\* A board of a category that is there goes to its one group.
LEMMA BoardJoins ==
  ASSUME NEW X, NEW seen, NEW kept, Grouped(X, seen, kept), NEW x \in X,
         NEW at \in DOMAIN seen, seen[at] = x.category,
         NEW more, more = [c \in CategoriesOf(X) |-> Keep(kept[c], x, c)]
  PROVE  /\ AddCategory(seen, x) = seen
         /\ Grouped(X, seen, more)
         /\ AddToGroup(Groups(seen, kept), x, x.category) = Groups(seen, more)
<1> DEFINE groups == Groups(seen, kept)
           found == {i \in DOMAIN groups : groups[i].key = x.category}
<1>1. /\ seen \in Seq(CategoriesOf(X)) /\ kept \in [CategoriesOf(X) -> Seq(X)]
      /\ DOMAIN seen = 1..Len(seen) /\ x.category \in CategoriesOf(X)
  BY DEF Grouped, CategoriesOf
<1>2. \A i \in DOMAIN seen : seen[i] \in CategoriesOf(X)
  BY <1>1
<1>3. AddCategory(seen, x) = seen
  BY <1>1 DEF AddCategory, Contains
<1>4. /\ \A c \in CategoriesOf(X) \ {x.category} : more[c] = kept[c]
      /\ more[x.category] = Append(kept[x.category], x)
  BY <1>1 DEF Keep
<1>5. more \in [CategoriesOf(X) -> Seq(X)]
  <2>1. ASSUME NEW c \in CategoriesOf(X)
        PROVE  Keep(kept[c], x, c) \in Seq(X)
    <3>1. kept[c] \in Seq(X)
      BY <1>1
    <3>2. QED
      BY <3>1 DEF Keep
  <2>2. QED
    BY <2>1
<1>6. Grouped(X, seen, more)
  <2>1. ASSUME NEW c \in CategoriesOf(X), \A i \in DOMAIN seen : seen[i] # c
        PROVE  more[c] = << >>
    BY <1>4, <2>1 DEF Grouped
  <2>2. QED
    BY <1>1, <1>5, <2>1 DEF Grouped
<1>7. DOMAIN groups = DOMAIN seen
      /\ \A i \in DOMAIN seen : groups[i] = [key |-> seen[i], values |-> kept[seen[i]]]
  BY DEF Groups
<1>8. found = {at}
  BY <1>7 DEF Grouped
<1>9. AddToGroup(groups, x, x.category) =
        [i \in DOMAIN seen |-> IF i \in found
           THEN [groups[i] EXCEPT !.values = Append(@, x)] ELSE groups[i]]
  BY <1>7, <1>8 DEF AddToGroup
<1> HIDE DEF groups, found
<1>10. ASSUME NEW i \in DOMAIN seen
       PROVE  (IF i \in found THEN [groups[i] EXCEPT !.values = Append(@, x)]
               ELSE groups[i]) = [key |-> seen[i], values |-> more[seen[i]]]
  <2>1. CASE i = at
    <3>1. groups[i] = [key |-> seen[i], values |-> kept[seen[i]]]
      BY <1>7
    <3>2. [groups[i] EXCEPT !.values = Append(@, x)] =
            [key |-> seen[i], values |-> Append(kept[seen[i]], x)]
      BY <3>1
    <3>3. QED
      BY <1>4, <1>8, <2>1, <3>2
  <2>2. CASE i # at
    <3>1. seen[i] # x.category /\ i \notin found
      BY <1>8, <2>2 DEF Grouped
    <3>2. more[seen[i]] = kept[seen[i]]
      BY <1>2, <1>4, <3>1
    <3>3. QED
      BY <1>7, <3>1, <3>2
  <2>3. QED
    BY <2>1, <2>2
<1>11. AddToGroup(groups, x, x.category) = Groups(seen, more)
  BY <1>9, <1>10 DEF Groups
<1>12. QED
  BY <1>3, <1>6, <1>11 DEF groups

\* A board of a new category opens a group at the end.
LEMMA BoardOpens ==
  ASSUME NEW X, NEW seen, NEW kept, Grouped(X, seen, kept), NEW x \in X,
         \A i \in DOMAIN seen : seen[i] # x.category,
         NEW more, more = [c \in CategoriesOf(X) |-> Keep(kept[c], x, c)]
  PROVE  /\ Grouped(X, AddCategory(seen, x), more)
         /\ AddToGroup(Groups(seen, kept), x, x.category) =
              Groups(AddCategory(seen, x), more)
<1> DEFINE next == Append(seen, x.category)
           groups == Groups(seen, kept)
<1>1. /\ seen \in Seq(CategoriesOf(X)) /\ kept \in [CategoriesOf(X) -> Seq(X)]
      /\ Len(seen) \in Nat
      /\ DOMAIN seen = 1..Len(seen) /\ x.category \in CategoriesOf(X)
  BY DEF Grouped, CategoriesOf
<1>2. \A i \in DOMAIN seen : seen[i] \in CategoriesOf(X)
  BY <1>1
<1>3. AddCategory(seen, x) = next
  BY <1>1 DEF AddCategory, Contains
<1>4. /\ \A c \in CategoriesOf(X) \ {x.category} : more[c] = kept[c]
      /\ more[x.category] = Append(kept[x.category], x)
  BY <1>1 DEF Keep
<1>5. more[x.category] = <<x>>
  <2>1. kept[x.category] = << >>
    BY <1>1 DEF Grouped
  <2>2. QED
    BY <1>4, <2>1
<1>6. more \in [CategoriesOf(X) -> Seq(X)]
  <2>1. ASSUME NEW c \in CategoriesOf(X)
        PROVE  Keep(kept[c], x, c) \in Seq(X)
    <3>1. kept[c] \in Seq(X)
      BY <1>1
    <3>2. QED
      BY <3>1 DEF Keep
  <2>2. QED
    BY <2>1
<1>7. /\ next \in Seq(CategoriesOf(X)) /\ DOMAIN next = 1..(Len(seen) + 1)
      /\ \A i \in DOMAIN seen : next[i] = seen[i]
      /\ next[Len(seen) + 1] = x.category
  BY <1>1
<1> HIDE DEF next
<1>8. Grouped(X, next, more)
  <2>1. ASSUME NEW i \in DOMAIN next, NEW j \in DOMAIN next, next[i] = next[j]
        PROVE  i = j
    <3>1. /\ i \in DOMAIN seen \/ i = Len(seen) + 1
          /\ j \in DOMAIN seen \/ j = Len(seen) + 1
      BY <1>1, <1>7
    <3>2. QED
      BY <1>7, <2>1, <3>1 DEF Grouped
  <2>2. ASSUME NEW c \in CategoriesOf(X), \A i \in DOMAIN next : next[i] # c
        PROVE  more[c] = << >>
    <3>1. c # x.category /\ \A i \in DOMAIN seen : seen[i] # c
      <4>1. Len(seen) + 1 \in DOMAIN next /\ DOMAIN seen \subseteq DOMAIN next
        BY <1>1, <1>7
      <4>2. QED
        BY <1>7, <2>2, <4>1
    <3>2. QED
      BY <1>4, <3>1 DEF Grouped
  <2>3. QED
    BY <1>6, <1>7, <2>1, <2>2 DEF Grouped
<1>9. DOMAIN groups = DOMAIN seen
      /\ \A i \in DOMAIN seen : groups[i] = [key |-> seen[i], values |-> kept[seen[i]]]
  BY DEF Groups
<1> DEFINE new == [key |-> x.category, values |-> <<x>>]
<1>10. AddToGroup(groups, x, x.category) = Append(groups, new)
  <2>1. {i \in DOMAIN groups : groups[i].key = x.category} = {}
    BY <1>9
  <2> HIDE DEF groups
  <2>2. QED
    BY <2>1 DEF AddToGroup
<1>11. groups \in Seq([key : CategoriesOf(X), values : Seq(X)]) /\ Len(groups) = Len(seen)
  <2>1. ASSUME NEW i \in 1..Len(seen)
        PROVE  [key |-> seen[i], values |-> kept[seen[i]]]
                 \in [key : CategoriesOf(X), values : Seq(X)]
    BY <1>1, <1>2
  <2>2. groups = [i \in 1..Len(seen) |-> [key |-> seen[i], values |-> kept[seen[i]]]]
    BY <1>1 DEF Groups
  <2>3. QED
    BY <1>1, <2>1, <2>2
<1> DEFINE Group == [key : CategoriesOf(X), values : Seq(X)]
<1>12. new \in Group
  BY <1>1
<1>13. groups \in Seq(Group)
  BY <1>11
<1> HIDE DEF groups, new, Group
<1>14. /\ DOMAIN Append(groups, new) = 1..(Len(seen) + 1)
       /\ Append(groups, new)[Len(seen) + 1] = new
       /\ \A i \in 1..Len(seen) : Append(groups, new)[i] = groups[i]
       /\ Append(groups, new) = [i \in 1..(Len(seen) + 1) |-> Append(groups, new)[i]]
  <2>1. Append(groups, new) \in Seq(Group)
    BY <1>12, <1>13
  <2>2. Len(Append(groups, new)) = Len(seen) + 1
    BY <1>1, <1>12, <1>13, <1>11
  <2>3. DOMAIN Append(groups, new) = 1..(Len(seen) + 1)
    BY <2>1, <2>2
  <2>4. Append(groups, new)[Len(seen) + 1] = new
    BY <1>1, <1>12, <1>13, <1>11
  <2>5. \A i \in 1..Len(seen) : Append(groups, new)[i] = groups[i]
    BY <1>1, <1>12, <1>13, <1>11
  <2>6. Append(groups, new) = [i \in 1..(Len(seen) + 1) |-> Append(groups, new)[i]]
    <3> DEFINE longer == Append(groups, new)
    <3>1. longer \in Seq(Group) /\ Len(longer) = Len(seen) + 1
      BY <2>1, <2>2
    <3> HIDE DEF longer
    <3>2. longer = [i \in 1..Len(longer) |-> longer[i]]
      BY <3>1
    <3>3. longer = [i \in 1..(Len(seen) + 1) |-> longer[i]]
      BY <3>1, <3>2
    <3>4. QED
      BY <3>3 DEF longer
  <2>7. QED
    BY <2>3, <2>4, <2>5, <2>6
<1>15. ASSUME NEW i \in DOMAIN next
       PROVE  Append(groups, new)[i] = [key |-> next[i], values |-> more[next[i]]]
  <2>1. CASE i \in DOMAIN seen
    <3>1. next[i] = seen[i] /\ seen[i] # x.category
      BY <1>7, <2>1
    <3>2. more[seen[i]] = kept[seen[i]]
      BY <1>2, <1>4, <2>1, <3>1
    <3>3. QED
      BY <1>1, <1>9, <1>14, <2>1, <3>1, <3>2
  <2>2. CASE i \notin DOMAIN seen
    <3>1. i = Len(seen) + 1
      BY <1>1, <1>7, <2>2
    <3>2. QED
      BY <1>5, <1>7, <1>14, <3>1 DEF new
  <2>3. QED
    BY <2>1, <2>2
<1>16. Append(groups, new) = Groups(next, more)
  BY <1>7, <1>14, <1>15 DEF Groups
<1>17. QED
  BY <1>3, <1>8, <1>10, <1>16 DEF groups
(***************************************************************************)
(* Utility.groupByArray and the index page's categories and filters make   *)
(* the same groups, in the same order, of every list of boards.            *)
(***************************************************************************)
THEOREM GroupingsEqual ==
  ASSUME NEW X, NEW boards \in Seq(X)
  PROVE  GroupByArray(boards) = IndexGroups(boards)
<1> DEFINE n == Len(boards)
           Filters(c, h) == /\ h[0] = << >> /\ h[n] = OfCategory(boards, c)
                            /\ \A m \in 1..n : h[m] = Keep(h[m - 1], boards[m], c)
           k == [c \in CategoriesOf(X) |-> CHOOSE h : Filters(c, h)]
           kept(m) == [c \in CategoriesOf(X) |-> k[c][m]]
<1>1. n \in Nat /\ \A m \in 1..n : boards[m] \in X
  OBVIOUS
<1>2. PICK g : /\ g[0] = << >> /\ g[n] = GroupByArray(boards)
               /\ \A m \in 1..n :
                    g[m] = AddToGroup(g[m - 1], boards[m], boards[m].category)
  BY MenuPrefixes, Zenon
<1>3. PICK u : /\ u[0] = << >> /\ u[n] = UniqueCategories(boards)
               /\ \A m \in 1..n : u[m] = AddCategory(u[m - 1], boards[m])
  BY CategoryPrefixes, Zenon
<1>4. ASSUME NEW c \in CategoriesOf(X)
      PROVE  Filters(c, k[c])
  <2>1. \E h : Filters(c, h)
    BY FilterPrefixes, Zenon
  <2>2. k[c] = CHOOSE h : Filters(c, h)
    OBVIOUS
  <2> HIDE DEF Filters, k
  <2>3. QED
    BY <2>1, <2>2, Zenon
<1> HIDE DEF k
<1> DEFINE Agrees(m) == Grouped(X, u[m], kept(m)) /\ g[m] = Groups(u[m], kept(m))
           Bad == {m \in 0..n : ~Agrees(m)}
<1>5. Agrees(0)
  <2>1. kept(0) = [c \in CategoriesOf(X) |-> << >>]
    BY <1>4
  <2>2. << >> \in Seq(CategoriesOf(X)) /\ << >> \in Seq(X) /\ DOMAIN << >> = {}
    OBVIOUS
  <2> HIDE DEF kept
  <2>3. Grouped(X, << >>, kept(0))
    BY <2>1, <2>2 DEF Grouped
  <2>4. Groups(<< >>, kept(0)) = << >>
    BY DEF Groups
  <2>5. QED
    BY <1>2, <1>3, <2>3, <2>4
<1>6. ASSUME NEW m \in 1..n, Agrees(m - 1)
      PROVE  Agrees(m)
  <2> DEFINE x == boards[m]
             before == kept(m - 1)
             more == [c \in CategoriesOf(X) |-> Keep(before[c], x, c)]
  <2>1. x \in X
    BY <1>1
  <2>2. kept(m) = more
    BY <1>4
  <2>3. more = [c \in CategoriesOf(X) |-> Keep(before[c], x, c)]
    OBVIOUS
  <2>4. /\ u[m] = AddCategory(u[m - 1], x)
        /\ g[m] = AddToGroup(Groups(u[m - 1], before), x, x.category)
    BY <1>2, <1>3, <1>6
  <2>5. Grouped(X, u[m - 1], before)
    BY <1>6
  <2> HIDE DEF x, before, kept, more
  <2>6. CASE \E at \in DOMAIN u[m - 1] : u[m - 1][at] = x.category
    <3>1. PICK at \in DOMAIN u[m - 1] : u[m - 1][at] = x.category
      BY <2>6
    <3>2. /\ AddCategory(u[m - 1], x) = u[m - 1]
          /\ Grouped(X, u[m - 1], more)
          /\ AddToGroup(Groups(u[m - 1], before), x, x.category) = Groups(u[m - 1], more)
      BY <2>1, <2>5, <2>3, <3>1, BoardJoins
    <3>3. QED
      BY <2>2, <2>4, <3>2
  <2>7. CASE \A i \in DOMAIN u[m - 1] : u[m - 1][i] # x.category
    <3>1. /\ Grouped(X, AddCategory(u[m - 1], x), more)
          /\ AddToGroup(Groups(u[m - 1], before), x, x.category) =
               Groups(AddCategory(u[m - 1], x), more)
      BY <2>1, <2>5, <2>7, <2>3, BoardOpens
    <3>2. QED
      BY <2>2, <2>4, <3>1
  <2>8. QED
    BY <2>6, <2>7
<1> HIDE DEF Agrees
<1>7. Bad = {}
  <2>1. SUFFICES ASSUME Bad # {} PROVE FALSE
    OBVIOUS
  <2>2. PICK b \in Bad : TRUE
    BY <2>1
  <2>3. Bad \subseteq Nat
    OBVIOUS
  <2> HIDE DEF Bad
  <2>4. PICK x \in Bad : \A y \in Bad : ~(<<y, x>> \in OpToRel(<, Nat))
    BY <2>2, <2>3, NatLessThanWellFounded, WFMin, Zenon
  <2>5. \A y \in Bad : ~(y < x)
    BY <2>3, <2>4 DEF OpToRel
  <2>6. x \in 1..n /\ ~Agrees(x) /\ x - 1 \in 0..n /\ x - 1 < x
    BY <1>1, <1>5 DEF Bad
  <2>7. Agrees(x - 1)
    BY <2>5, <2>6 DEF Bad
  <2>8. QED
    BY <1>6, <2>6, <2>7
<1>8. Agrees(n)
  BY <1>1, <1>7
<1>9. /\ u[n] = UniqueCategories(boards) /\ g[n] = GroupByArray(boards)
      /\ u[n] \in Seq(CategoriesOf(X)) /\ g[n] = Groups(u[n], kept(n))
  BY <1>2, <1>3, <1>8 DEF Agrees, Grouped
<1>10. \A i \in DOMAIN u[n] : u[n][i] \in CategoriesOf(X)
  BY <1>9
<1>11. \A i \in DOMAIN u[n] : kept(n)[u[n][i]] = OfCategory(boards, u[n][i])
  BY <1>4, <1>10
<1>12. Groups(u[n], kept(n)) = IndexGroups(boards)
  <2> DEFINE cs == u[n]
             last == kept(n)
  <2>1. /\ cs = UniqueCategories(boards)
        /\ \A i \in DOMAIN cs : last[cs[i]] = OfCategory(boards, cs[i])
    BY <1>9, <1>11
  <2> HIDE DEF cs, last
  <2>2. Groups(cs, last) = IndexGroups(boards)
    BY <2>1 DEF Groups, IndexGroups
  <2>3. QED
    BY <2>2 DEF cs, last
<1>13. QED
  BY <1>9, <1>12


===============================================================================
