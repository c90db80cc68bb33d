---------------------------- MODULE LegacyProofs ----------------------------
(***************************************************************************)
(* What TLAPS proves of the local workspace, for files of any size and any  *)
(* number of clients: the outline is the outline of the rows, the links of  *)
(* the document hold, a scenario is one override and moves only what        *)
(* follows it, and no moved activity works through a left-out exception.    *)
(***************************************************************************)
EXTENDS LegacyWorkspace, FiniteSetTheorems, TLAPS

----------------------------------------------------------------------------
(* The outline.                                                              *)

(* The parent of row i is the last row before it of a lower level.           *)
Placed(rows, i, parent) ==
    IF parent = None THEN \A j \in 1..i - 1 : rows[j].level >= rows[i].level
    ELSE \E j \in 1..i - 1 :
            /\ rows[j].uid = parent /\ rows[j].level < rows[i].level
            /\ \A k \in j + 1..i - 1 : rows[k].level >= rows[i].level

IsItemOf(rows, i, item) ==
    /\ item.id = rows[i].uid /\ item.order = i - 1 /\ item.level = rows[i].level
    /\ item.row = rows[i] /\ Placed(rows, i, item.parent)

ReadShape(read) ==
    /\ read = [refused |-> read.refused, seen |-> read.seen, root |-> read.root,
               open |-> read.open, order |-> read.order, wbs |-> read.wbs,
               activities |-> read.activities]
    /\ read.refused \in BOOLEAN

(* A summary is open as long as no row of its level or a lower one follows.  *)
OpenOf(rows, n, open) ==
    \A l \in DOMAIN open :
        /\ l \in Int
        /\ \E i \in 1..n :
              /\ rows[i].level = l /\ rows[i].uid = open[l]
              /\ \A j \in i + 1..n : rows[j].level > l

ItemsOf(rows, n, items) ==
    /\ IsFiniteSet(items)
    /\ \A item \in items : \E i \in 1..n : IsItemOf(rows, i, item)
    /\ \A i \in 1..n : \E item \in items : item.order = i - 1

RowsRead(rows, n, read) ==
    /\ read.order = n
    /\ read.root = None => n = 0
    /\ read.root # None => read.root \in Int
    /\ \A i \in 1..n :
          /\ rows[i].level \in Int /\ rows[i].uid # None
          /\ read.root # None => rows[i].level >= read.root
    /\ OpenOf(rows, n, read.open)
    /\ IsFiniteSet(read.activities) /\ IsFiniteSet(read.wbs)
    /\ ItemsOf(rows, n, read.wbs \union read.activities)

ReadNothing(rows) == NothingRead
ReadNext(rows, before, n) == ReadTask(before, rows[n])
ReadSoFar(rows, n, read) == ReadShape(read) /\ (read.refused \/ RowsRead(rows, n, read))
Reading == INSTANCE Recursion WITH
    First <- ReadNothing, Following <- ReadNext, Claim <- ReadSoFar

(* Reading one row more keeps what is said of the rows read.                 *)
LEMMA OneTaskMore ==
    ASSUME NEW rows, NEW n \in Nat, NEW read, ReadSoFar(rows, n, read), Known({rows[n + 1].level})
    PROVE  ReadSoFar(rows, n + 1, ReadTask(read, rows[n + 1]))
<1> DEFINE row == rows[n + 1]
           next == ReadTask(read, row)
           open == Above(read.open, row.level)
           root == RootLevel(read, row)
           item == Item(read, row)
<1>1. CASE read.refused \/ TaskRefused(read, row)
  <2>1. next = [read EXCEPT !.refused = TRUE]
    BY <1>1 DEF ReadTask
  <2> QED BY <2>1 DEF ReadSoFar, ReadShape
<1>2. CASE ~(read.refused \/ TaskRefused(read, row))
  <2>1. RowsRead(rows, n, read) /\ ReadShape(read) /\ ~read.refused
    BY <1>2 DEF ReadSoFar
  <2>2. /\ row.uid # None /\ row.level # None /\ row.level >= 0 /\ ~(row.level < root)
        /\ ~(row.level > root /\ ParentOf(read, row) = None)
    BY <1>2 DEF TaskRefused, Known, NoneAssumption
  <2>3. row.level \in Int
    BY <2>2 DEF Known
  <2>4. root \in Int /\ root <= row.level /\ \A i \in 1..n : rows[i].level >= root
    BY <2>1, <2>2, <2>3 DEF RootLevel, RowsRead
  <2>5. \A l \in DOMAIN open :
           /\ l \in Int /\ l < row.level
           /\ \E i \in 1..n :
                 /\ rows[i].level = l /\ rows[i].uid = open[l]
                 /\ \A j \in i + 1..n : rows[j].level > l
    BY <2>1 DEF Above, RowsRead, OpenOf
  <2>6. Placed(rows, n + 1, ParentOf(read, row))
    <3>1. CASE ParentOf(read, row) = None
      <4>1. row.level = root
        BY <2>2, <2>3, <2>4, <3>1
      <4> QED BY <2>4, <3>1, <4>1 DEF Placed
    <3>2. CASE ParentOf(read, row) # None
      <4>1. row.level - 1 \in DOMAIN open /\ ParentOf(read, row) = open[row.level - 1]
        BY <3>2 DEF ParentOf
      <4> HIDE DEF open
      <4>2. PICK i \in 1..n :
               /\ rows[i].level = row.level - 1 /\ rows[i].uid = open[row.level - 1]
               /\ \A j \in i + 1..n : rows[j].level > row.level - 1
        BY <2>5, <4>1
      <4>3. i \in 1..(n + 1) - 1 /\ rows[i].level < row.level
        BY <2>3, <4>2
      <4>4. \A k \in i + 1..(n + 1) - 1 : rows[k].level >= row.level
        BY <2>1, <2>3, <4>2 DEF RowsRead
      <4> QED BY <3>2, <4>1, <4>2, <4>3, <4>4 DEF Placed
    <3> QED BY <3>1, <3>2
  <2>7. IsItemOf(rows, n + 1, item)
    BY <2>1, <2>6 DEF IsItemOf, Item, RowsRead
  <2> DEFINE nextOpen == IF row.summary THEN Opening(open, row) ELSE open
  <2>8. next = [refused |-> read.refused, seen |-> read.seen \union {row.uid}, root |-> root,
                open |-> nextOpen, order |-> read.order + 1,
                wbs |-> IF row.summary THEN read.wbs \union {item} ELSE read.wbs,
                activities |-> IF row.summary THEN read.activities
                               ELSE read.activities \union {item}]
    <3> HIDE DEF open, item, root
    <3>1. next = [read EXCEPT
               !.seen = @ \union {row.uid}, !.order = @ + 1, !.root = root,
               !.open = nextOpen,
               !.wbs = IF row.summary THEN @ \union {item} ELSE @,
               !.activities = IF row.summary THEN @ ELSE @ \union {item}]
      BY <1>2 DEF ReadTask, open, item, root
    <3> HIDE DEF nextOpen
    <3> QED BY <2>1, <3>1 DEF ReadShape
  <2>9. OpenOf(rows, n + 1, nextOpen)
    <3>1. ASSUME NEW l \in DOMAIN open, nextOpen[l] = open[l]
          PROVE  /\ l \in Int
                 /\ \E i \in 1..n + 1 :
                       /\ rows[i].level = l /\ rows[i].uid = nextOpen[l]
                       /\ \A j \in i + 1..n + 1 : rows[j].level > l
      <4> HIDE DEF open, nextOpen
      <4>1. PICK i \in 1..n :
               /\ rows[i].level = l /\ rows[i].uid = open[l]
               /\ \A j \in i + 1..n : rows[j].level > l
        BY <2>5
      <4>2. l \in Int /\ l < row.level
        BY <2>5
      <4>3. i \in 1..n + 1 /\ \A j \in i + 1..n + 1 : j \in i + 1..n \/ j = n + 1
        OBVIOUS
      <4>4. \A j \in i + 1..n + 1 : rows[j].level > l
        BY <2>3, <4>1, <4>2, <4>3
      <4> QED BY <3>1, <4>1, <4>2, <4>3, <4>4
    <3>2. CASE row.summary
      <4> DEFINE level == row.level
      <4>0. nextOpen = [l \in DOMAIN open \union {level} |-> IF l = level THEN row.uid ELSE open[l]]
        BY <3>2 DEF Opening
      <4> HIDE DEF nextOpen, open
      <4>1. DOMAIN nextOpen = {level} \union DOMAIN open
        BY <4>0
      <4>2. nextOpen[level] = row.uid
        BY <4>0
      <4>3. \A l \in DOMAIN open : l # level => nextOpen[l] = open[l]
        BY <4>0
      <4>4. row.level \notin DOMAIN open
        BY <2>3, <2>5
      <4>5. n + 1 \in 1..n + 1 /\ \A j \in (n + 1) + 1..n + 1 : rows[j].level > row.level
        OBVIOUS
      <4> QED BY <2>3, <3>1, <4>1, <4>2, <4>3, <4>4, <4>5 DEF OpenOf
    <3>3. CASE ~row.summary
      <4>1. nextOpen = open
        BY <3>3
      <4> HIDE DEF nextOpen, open
      <4> QED BY <3>1, <4>1 DEF OpenOf
    <3> QED BY <3>2, <3>3
  <2> HIDE DEF nextOpen, open, item, root
  <2>10. next.wbs \union next.activities = (read.wbs \union read.activities) \union {item}
    BY <2>8
  <2>11. IsFiniteSet(next.wbs) /\ IsFiniteSet(next.activities)
    <3>1. IsFiniteSet(read.wbs) /\ IsFiniteSet(read.activities)
      BY <2>1 DEF RowsRead
    <3>2. IsFiniteSet(read.wbs \union {item}) /\ IsFiniteSet(read.activities \union {item})
      BY <3>1, FS_AddElement
    <3> QED BY <2>8, <3>1, <3>2
  <2>12. ItemsOf(rows, n + 1, next.wbs \union next.activities)
    <3>1. IsFiniteSet(next.wbs \union next.activities)
      BY <2>11, FS_Union
    <3>2. ItemsOf(rows, n, read.wbs \union read.activities)
      BY <2>1 DEF RowsRead
    <3>3. \A i \in 1..n : i \in 1..n + 1
      OBVIOUS
    <3>4. ASSUME NEW it \in next.wbs \union next.activities
          PROVE  \E i \in 1..n + 1 : IsItemOf(rows, i, it)
      <4>1. CASE it = item
        <5>1. n + 1 \in 1..n + 1
          OBVIOUS
        <5> QED BY <2>7, <4>1, <5>1
      <4>2. CASE it \in read.wbs \union read.activities
        BY <3>2, <3>3, <4>2 DEF ItemsOf
      <4> QED BY <2>10, <4>1, <4>2
    <3>5. ASSUME NEW i \in 1..n + 1
          PROVE  \E it \in next.wbs \union next.activities : it.order = i - 1
      <4>1. CASE i = n + 1
        BY <2>7, <2>10, <4>1 DEF IsItemOf
      <4>2. CASE i # n + 1
        <5>1. i \in 1..n
          BY <4>2
        <5> QED BY <2>10, <3>2, <5>1 DEF ItemsOf
      <4> QED BY <4>1, <4>2
    <3> QED BY <3>1, <3>4, <3>5 DEF ItemsOf
  <2>13. RowsRead(rows, n + 1, next)
    <3>1. \A i \in 1..n + 1 : i \in 1..n \/ i = n + 1
      OBVIOUS
    <3>2. /\ next.order = n + 1 /\ next.root = root /\ next.open = nextOpen
      BY <2>1, <2>8 DEF RowsRead
    <3>3. next.root # None
      BY <2>4, <3>2, NoneAssumption
    <3>4. \A i \in 1..n + 1 :
             rows[i].level \in Int /\ rows[i].uid # None /\ rows[i].level >= root
      BY <2>1, <2>2, <2>3, <2>4, <3>1 DEF RowsRead
    <3> HIDE DEF next, row
    <3> QED BY <2>4, <2>9, <2>11, <2>12, <3>2, <3>3, <3>4 DEF RowsRead
  <2>14. ReadShape(next)
    BY <2>1, <2>8 DEF ReadShape
  <2> QED BY <2>13, <2>14 DEF ReadSoFar
<1> QED BY <1>1, <1>2

(* All rows read.                                                            *)
LEMMA TasksRead ==
    ASSUME NEW rows, Rows(rows), \A row \in ToSet(rows) : Known({row.level})
    PROVE  ReadSoFar(rows, Len(rows), ParseTasks(rows))
<1> DEFINE n == Len(rows)
           f == CHOOSE g : g = [k \in 0..n |-> IF k = 0 THEN NothingRead
                                               ELSE ReadTask(g[k - 1], rows[k])]
<1>1. n \in Nat /\ \A k \in 1..n : rows[k] \in ToSet(rows)
  BY DEF Rows
<1>2. f = CHOOSE g : Reading!Recursive(rows, n, g)
  BY DEF Reading!Recursive, ReadNothing, ReadNext
<1>3. ParseTasks(rows) = f[n]
  BY DEF ParseTasks
<1> HIDE DEF f, n
<1>4. f[0] = ReadNothing(rows) /\ \A k \in 1..n : f[k] = ReadNext(rows, f[k - 1], k)
  BY <1>1, <1>2, Reading!RecursiveDefinition
<1>5. ReadSoFar(rows, 0, ReadNothing(rows))
  <2>1. IsFiniteSet({}) /\ {} \union {} = {}
    BY FS_EmptySet
  <2> QED BY <2>1 DEF ReadSoFar, ReadShape, RowsRead, OpenOf, ItemsOf, ReadNothing, NothingRead
<1>6. ASSUME NEW k \in 1..n, ReadSoFar(rows, k - 1, f[k - 1])
      PROVE  ReadSoFar(rows, k, ReadNext(rows, f[k - 1], k))
  <2>1. k - 1 \in Nat /\ (k - 1) + 1 = k /\ Known({rows[k].level})
    BY <1>1
  <2> QED BY <1>6, <2>1, OneTaskMore DEF ReadNext
<1>7. \A k \in 0..n : ReadSoFar(rows, k, f[k])
  BY <1>1, <1>4, <1>5, <1>6, Reading!RecursiveInduction
<1> QED BY <1>1, <1>3, <1>7 DEF n

(* What OutlineIsKept says of one document.                                  *)
OutlineOf(items) ==
    \A item \in items :
        /\ item.parent = None => Enclosing(items, item) = {}
        /\ item.parent # None => Ids(Enclosing(items, item)) = {item.parent}

(* Items placed under the last row before them of a lower level are the      *)
(* outline.                                                                  *)
LEMMA OutlineOfRows ==
    ASSUME NEW rows, NEW n \in Nat, NEW items, ItemsOf(rows, n, items),
           \A i \in 1..n : rows[i].level \in Int
    PROVE  OutlineOf(items)
<1>1. \A it \in items : \E i \in 1..n : IsItemOf(rows, i, it)
  BY DEF ItemsOf
<1> SUFFICES ASSUME NEW item \in items
             PROVE  /\ item.parent = None => Enclosing(items, item) = {}
                    /\ item.parent # None => Ids(Enclosing(items, item)) = {item.parent}
  BY DEF OutlineOf
<1>2. PICK i \in 1..n : IsItemOf(rows, i, item)
  BY <1>1
<1>3. item.order = i - 1 /\ item.level = rows[i].level /\ Placed(rows, i, item.parent)
  BY <1>2 DEF IsItemOf
<1>4. ASSUME NEW other \in Enclosing(items, item)
      PROVE  \E j \in 1..i - 1 :
                /\ other.id = rows[j].uid /\ rows[j].level < rows[i].level
                /\ \A k \in j + 1..i - 1 : rows[k].level >= rows[i].level
  <2>1. /\ other \in items /\ other.order < item.order /\ other.level < item.level
        /\ \A between \in items :
              between.order \in other.order + 1..item.order - 1 => between.level >= item.level
    BY <1>4 DEF Enclosing
  <2>2. PICK j \in 1..n : IsItemOf(rows, j, other)
    BY <1>1, <2>1
  <2>3. other.id = rows[j].uid /\ other.order = j - 1 /\ other.level = rows[j].level
    BY <2>2 DEF IsItemOf
  <2>4. j \in 1..i - 1 /\ rows[j].level < rows[i].level
    BY <1>3, <2>1, <2>3
  <2>5. ASSUME NEW k \in j + 1..i - 1 PROVE rows[k].level >= rows[i].level
    <3>1. k \in 1..n
      BY <2>4
    <3>2. PICK between \in items : between.order = k - 1
      BY <3>1 DEF ItemsOf
    <3>3. PICK l \in 1..n : IsItemOf(rows, l, between)
      BY <1>1, <3>2
    <3>4. l = k /\ between.level = rows[k].level
      BY <3>1, <3>2, <3>3 DEF IsItemOf
    <3>5. between.order \in other.order + 1..item.order - 1
      BY <1>3, <2>3, <3>1, <3>2
    <3> QED BY <1>3, <2>1, <3>4, <3>5
  <2> QED BY <2>3, <2>4, <2>5
<1>5. CASE item.parent = None
  <2>1. \A j \in 1..i - 1 : rows[j].level >= rows[i].level
    BY <1>3, <1>5 DEF Placed
  <2>2. \A j \in 1..i - 1 : rows[j].level \in Int /\ rows[i].level \in Int
    OBVIOUS
  <2>3. Enclosing(items, item) = {}
    BY <1>4, <2>1, <2>2
  <2> QED BY <1>5, <2>3
<1>6. CASE item.parent # None
  <2>1. PICK p \in 1..i - 1 :
           /\ rows[p].uid = item.parent /\ rows[p].level < rows[i].level
           /\ \A k \in p + 1..i - 1 : rows[k].level >= rows[i].level
    BY <1>3, <1>6 DEF Placed
  <2>2. \A j \in 1..i - 1 : rows[j].level \in Int /\ rows[i].level \in Int /\ j \in 1..n
    OBVIOUS
  <2>3. ASSUME NEW other \in Enclosing(items, item) PROVE other.id = item.parent
    <3>1. PICK j \in 1..i - 1 :
                /\ other.id = rows[j].uid /\ rows[j].level < rows[i].level
                /\ \A k \in j + 1..i - 1 : rows[k].level >= rows[i].level
      BY <1>4
    <3>2. ~(j < p)
      <4>1. j < p => p \in j + 1..i - 1
        OBVIOUS
      <4> QED BY <2>1, <2>2, <3>1, <4>1
    <3>3. ~(p < j)
      <4>1. p < j => j \in p + 1..i - 1
        OBVIOUS
      <4> QED BY <2>1, <2>2, <3>1, <4>1
    <3>4. j = p
      BY <3>2, <3>3
    <3> QED BY <2>1, <3>1, <3>4
  <2>4. PICK above \in items : above.order = p - 1
    BY <2>2 DEF ItemsOf
  <2>5. PICK l \in 1..n : IsItemOf(rows, l, above)
    BY <1>1, <2>4
  <2>6. l = p /\ above.level = rows[p].level /\ above.id = item.parent
    BY <2>1, <2>4, <2>5 DEF IsItemOf
  <2>7. ASSUME NEW between \in items, between.order \in above.order + 1..item.order - 1
        PROVE  between.level >= item.level
    <3>1. PICK k \in 1..n : IsItemOf(rows, k, between)
      BY <1>1
    <3>2. between.order = k - 1 /\ between.level = rows[k].level
      BY <3>1 DEF IsItemOf
    <3>3. k \in p + 1..i - 1
      BY <1>3, <2>4, <2>7, <3>2
    <3> QED BY <1>3, <2>1, <3>2, <3>3
  <2>8. above.order < item.order /\ above.level < item.level
    BY <1>3, <2>1, <2>4, <2>6
  <2>9. above \in Enclosing(items, item)
    BY <2>7, <2>8 DEF Enclosing
  <2>10. Ids(Enclosing(items, item)) = {item.parent}
    BY <2>3, <2>6, <2>9 DEF Ids
  <2> QED BY <1>6, <2>10
<1> QED BY <1>5, <1>6

----------------------------------------------------------------------------
(* Finite sets.                                                              *)

(* The image of a finite set is finite.                                      *)
LEMMA FiniteImage ==
    ASSUME NEW D, IsFiniteSet(D), NEW f
    PROVE  IsFiniteSet({f[x] : x \in D})
<1> DEFINE S == {f[x] : x \in D}
           g == [x \in D |-> f[x]]
<1>1. g \in Surjection(D, S)
  BY DEF Surjection
<1> HIDE DEF S, g
<1>2. IsFiniteSet(S)
  BY <1>1, FS_Surjection
<1> QED BY <1>2 DEF S

(* The union of finitely many finite sets is finite.                         *)
LEMMA FiniteUnion ==
    ASSUME NEW n \in Nat, NEW f, \A k \in 1..n : IsFiniteSet(f[k])
    PROVE  IsFiniteSet(UNION {f[k] : k \in 1..n})
<1> DEFINE U(m) == UNION {f[k] : k \in 1..m}
           S == {m \in Nat : m <= n => IsFiniteSet(U(m))}
<1>1. 0 \in S
  <2>1. U(0) = {}
    OBVIOUS
  <2> QED BY <2>1, FS_EmptySet
<1>2. ASSUME NEW m \in Nat, m \in S PROVE m + 1 \in S
  <2> SUFFICES ASSUME m + 1 <= n PROVE IsFiniteSet(U(m + 1))
    OBVIOUS
  <2>1. m + 1 \in 1..n /\ IsFiniteSet(U(m)) /\ IsFiniteSet(f[m + 1])
    BY <1>2
  <2>2. \A k : k \in 1..m + 1 <=> k \in 1..m \/ k = m + 1
    OBVIOUS
  <2>3. U(m + 1) = U(m) \union f[m + 1]
    BY <2>2
  <2> DEFINE A == U(m)
             B == f[m + 1]
  <2>4. IsFiniteSet(A) /\ IsFiniteSet(B)
    BY <2>1
  <2> HIDE DEF A, B
  <2>5. IsFiniteSet(A \union B)
    BY ONLY <2>4, FS_Union
  <2> USE DEF A, B
  <2> QED BY <2>3, <2>5
<1> HIDE DEF S
<1>3. n \in S
  BY <1>1, <1>2, Reading!EveryNatural
<1> QED BY <1>3 DEF S

(* A finite set of numbers has a least and a greatest one.                   *)
LEMMA Extremes ==
    ASSUME NEW D, IsFiniteSet(D), D # {}, D \subseteq Int
    PROVE  /\ Min(D) \in D /\ \A x \in D : Min(D) <= x
           /\ Max(D) \in D /\ \A x \in D : x <= Max(D)
<1> DEFINE Low(S) == \E m \in S : \A x \in S : m <= x
           High(S) == \E m \in S : \A x \in S : x <= m
           Sized == {n \in Nat : \A S \in SUBSET D :
                        IsFiniteSet(S) /\ Cardinality(S) = n /\ S # {} => Low(S) /\ High(S)}
<1>1. 0 \in Sized
  <2> SUFFICES ASSUME NEW S \in SUBSET D, IsFiniteSet(S), Cardinality(S) = 0, S # {} PROVE FALSE
    OBVIOUS
  <2> QED BY FS_EmptySet
<1>2. ASSUME NEW n \in Nat, n \in Sized PROVE n + 1 \in Sized
  <2> SUFFICES ASSUME NEW S \in SUBSET D, IsFiniteSet(S), Cardinality(S) = n + 1, S # {}
               PROVE  Low(S) /\ High(S)
    OBVIOUS
  <2>1. PICK x \in S : TRUE
    OBVIOUS
  <2> DEFINE T == S \ {x}
  <2>2. IsFiniteSet(T) /\ Cardinality(T) = n /\ T \in SUBSET D
    <3>1. IsFiniteSet(T) /\ Cardinality(T) = Cardinality(S) - 1
      BY <2>1, FS_RemoveElement
    <3> QED BY <3>1
  <2>3. CASE T = {}
    <3>1. \A k \in S : k = x
      BY <2>3
    <3>2. x \in Int /\ x <= x
      BY <2>1
    <3> QED BY <2>1, <3>1, <3>2
  <2>4. CASE T # {}
    <3>1. Low(T) /\ High(T)
      BY <1>2, <2>2, <2>4
    <3>2. PICK l \in T : \A k \in T : l <= k
      BY <3>1
    <3>3. PICK h \in T : \A k \in T : k <= h
      BY <3>1
    <3>4. x \in Int /\ l \in Int /\ h \in Int /\ l \in S /\ h \in S /\ T \subseteq Int
      BY <2>1, <3>2, <3>3
    <3>5. \A k \in S : k = x \/ k \in T
      OBVIOUS
    <3> HIDE DEF T
    <3>6. Low(S)
      <4>1. CASE x <= l
        BY <2>1, <3>2, <3>4, <3>5, <4>1
      <4>2. CASE ~(x <= l)
        BY <3>2, <3>4, <3>5, <4>2
      <4> QED BY <4>1, <4>2
    <3>7. High(S)
      <4>1. CASE h <= x
        BY <2>1, <3>3, <3>4, <3>5, <4>1
      <4>2. CASE ~(h <= x)
        BY <3>3, <3>4, <3>5, <4>2
      <4> QED BY <4>1, <4>2
    <3> QED BY <3>6, <3>7
  <2> QED BY <2>3, <2>4
<1> HIDE DEF Sized
<1>3. \A n \in Nat : n \in Sized
  BY <1>1, <1>2, Reading!EveryNatural
<1>4. Cardinality(D) \in Nat /\ Cardinality(D) \in Sized
  BY <1>3, FS_CardinalityType
<1>5. Low(D) /\ High(D)
  BY <1>4 DEF Sized
<1>6. Min(D) \in D /\ \A x \in D : Min(D) <= x
  BY <1>5 DEF Min
<1>7. Max(D) \in D /\ \A x \in D : Max(D) >= x
  <2>1. PICK h \in D : \A x \in D : x <= h
    BY <1>5
  <2>2. \A x \in D : h >= x
    BY <2>1
  <2> QED BY <2>2 DEF Max
<1> QED BY <1>6, <1>7

----------------------------------------------------------------------------
(* Documents.                                                                *)

(* What is used of an imported document.                                     *)
DatesKnown(source) ==
    /\ Rows(source.specials) /\ Rows(source.exceptions)
    /\ \A range \in Dated(source) : Known({range.from, range.to})

DocumentOK(doc) ==
    /\ IsFiniteSet(doc.activities) /\ IsFiniteSet(doc.relationships)
    /\ OutlineOf(doc.wbs \union doc.activities)
    /\ Known({doc.project.start, doc.project.finish})
    /\ \A item \in doc.activities : Known({item.row.start, item.row.finish, item.row.duration})
    /\ \A r \in doc.relationships : Known({r.lag})
    /\ Rows(doc.calendars) /\ \A source \in ToSet(doc.calendars) : DatesKnown(source)
    /\ \A a, b \in ToSet(doc.calendars) : a.uid = b.uid => a = b
    /\ \E n \in Nat : DOMAIN doc.assignments = 1..n

(* The relationships of finitely many rows are finitely many.                *)
LEMMA RelationshipsOfRows ==
    ASSUME NEW rows, NEW seen, Rows(rows),
           \A row \in ToSet(rows) : Rows(row.links) /\ \A link \in ToSet(row.links) : Known({link.lag})
    PROVE  /\ IsFiniteSet(Relationships(rows, seen))
           /\ \A r \in Relationships(rows, seen) : Known({r.lag})
<1> DEFINE n == Len(rows)
           One(row, i) ==
               [id |-> <<row.uid, i>>, succ |-> row.uid,
                pred |-> IF row.links[i].uid \in seen THEN row.links[i].uid ELSE None,
                type |-> row.links[i].type, lag |-> row.links[i].lag,
                format |-> row.links[i].format, faults |-> row.links[i].faults]
           f == [k \in 1..n |-> {One(rows[k], i) : i \in DOMAIN rows[k].links}]
<1>1. n \in Nat /\ DOMAIN rows = 1..n /\ ToSet(rows) = {rows[k] : k \in 1..n}
  BY DEF Rows, ToSet
<1>2. Relationships(rows, seen) = UNION {{One(row, i) : i \in DOMAIN row.links} : row \in ToSet(rows)}
  BY DEF Relationships
<1>3. Relationships(rows, seen) = UNION {f[k] : k \in 1..n}
  <2>1. \A k \in 1..n : f[k] = {One(rows[k], i) : i \in DOMAIN rows[k].links}
    OBVIOUS
  <2> HIDE DEF f, One, n
  <2> QED BY <1>1, <1>2, <2>1
<1>4. ASSUME NEW k \in 1..n PROVE IsFiniteSet(f[k])
  <2> DEFINE g == [i \in DOMAIN rows[k].links |-> One(rows[k], i)]
             links == rows[k].links
  <2>1. Rows(links)
    BY <1>1
  <2>2. DOMAIN links = 1..Len(links) /\ Len(links) \in Nat
    BY <2>1 DEF Rows
  <2>3. IsFiniteSet(DOMAIN links)
    <3> DEFINE m == Len(links)
               D == DOMAIN links
    <3>1. D = 1..m /\ m \in Nat
      BY <2>2
    <3> HIDE DEF m, D
    <3>2. IsFiniteSet(1..m)
      BY <3>1, FS_Interval
    <3>3. IsFiniteSet(D)
      BY <3>1, <3>2
    <3> QED BY <3>3 DEF D
  <2>4. f[k] = {g[i] : i \in DOMAIN links}
    OBVIOUS
  <2> HIDE DEF g, links, f
  <2> QED BY <2>3, <2>4, FiniteImage
<1>5. ASSUME NEW r \in Relationships(rows, seen) PROVE Known({r.lag})
  <2>1. PICK row \in ToSet(rows) : \E i \in DOMAIN row.links : r = One(row, i)
    <3> HIDE DEF One
    <3> QED BY <1>2, <1>5
  <2>2. PICK i \in DOMAIN row.links : r.lag = row.links[i].lag
    BY <2>1
  <2>3. row.links[i] \in ToSet(row.links)
    BY <2>2 DEF ToSet
  <2> QED BY <2>2, <2>3
<1> HIDE DEF f, n
<1>6. IsFiniteSet(Relationships(rows, seen))
  BY <1>1, <1>3, <1>4, FiniteUnion
<1> QED BY <1>5, <1>6

(* What the importer accepts is such a document.                             *)
LEMMA ImportedDocument ==
    ASSUME NEW file \in Files, ImportMspdi(file) # None
    PROVE  DocumentOK(ImportMspdi(file))
<1> DEFINE doc == Document(file)
           read == ParseTasks(file.tasks)
           rows == file.tasks
<1>1. Parsed(file)
  BY FilesAssumption
<1>2. ImportMspdi(file) = doc /\ ~ParseRefused(file, read) /\ ~Invalid(doc)
  BY DEF ImportMspdi
<1>3. /\ doc.project = file.project /\ doc.wbs = read.wbs /\ doc.activities = read.activities
      /\ doc.relationships = Relationships(rows, read.seen) /\ doc.calendars = file.calendars
      /\ DOMAIN doc.assignments = DOMAIN file.assignments
  BY DEF Document
<1> HIDE DEF doc
<1>4. Rows(rows) /\ Len(rows) \in Nat /\ \A i \in 1..Len(rows) : rows[i] \in ToSet(rows)
  BY <1>1 DEF Parsed, Rows
<1>5. \A row \in ToSet(rows) :
         /\ Known({row.level, row.start, row.finish, row.duration})
         /\ Rows(row.links) /\ \A link \in ToSet(row.links) : Known({link.lag})
  BY <1>1 DEF Parsed
<1>6. ReadSoFar(rows, Len(rows), read)
  <2>1. \A row \in ToSet(rows) : Known({row.level})
    BY <1>5 DEF Known
  <2> QED BY <1>4, <2>1, TasksRead
<1>7. RowsRead(rows, Len(rows), read)
  BY <1>2, <1>6 DEF ParseRefused, ReadSoFar
<1>8. IsFiniteSet(doc.activities) /\ ItemsOf(rows, Len(rows), doc.wbs \union doc.activities)
  BY <1>3, <1>7 DEF RowsRead
<1>9. OutlineOf(doc.wbs \union doc.activities)
  <2>1. \A i \in 1..Len(rows) : rows[i].level \in Int
    BY <1>7 DEF RowsRead
  <2> QED BY <1>4, <1>8, <2>1, OutlineOfRows
<1>10. ASSUME NEW item \in doc.activities
       PROVE  Known({item.row.start, item.row.finish, item.row.duration})
  <2>1. PICK i \in 1..Len(rows) : IsItemOf(rows, i, item)
    BY <1>8 DEF ItemsOf
  <2>2. item.row \in ToSet(rows)
    BY <1>4, <2>1 DEF IsItemOf
  <2> QED BY <1>5, <2>2 DEF Known
<1>11. IsFiniteSet(doc.relationships) /\ \A r \in doc.relationships : Known({r.lag})
  <2> DEFINE seen == read.seen
  <2>1. \A row \in ToSet(rows) : Rows(row.links) /\ \A link \in ToSet(row.links) : Known({link.lag})
    BY <1>5
  <2>2. doc.relationships = Relationships(rows, seen)
    BY <1>3
  <2> HIDE DEF seen, rows, read
  <2> QED BY <1>4, <2>1, <2>2, RelationshipsOfRows
<1>12. Rows(doc.calendars) /\ \A source \in ToSet(doc.calendars) : DatesKnown(source)
  BY <1>1, <1>3 DEF Parsed, DatesKnown
<1>13. \A a, b \in ToSet(doc.calendars) : a.uid = b.uid => a = b
  <2>1. ~Repeated(doc.calendars)
    BY <1>2 DEF Invalid
  <2> QED BY <2>1 DEF Repeated, ToSet
<1>14. \E n \in Nat : DOMAIN doc.assignments = 1..n
  BY <1>1, <1>3 DEF Parsed, Rows
<1>15. Known({doc.project.start, doc.project.finish})
  BY <1>1, <1>3 DEF Parsed
<1> QED BY <1>2, <1>8, <1>9, <1>10, <1>11, <1>12, <1>13, <1>14, <1>15 DEF DocumentOK

(* The horizon of a document is between two dates.                           *)
LEMMA HorizonIsDated ==
    ASSUME NEW doc, DocumentOK(doc), ~NoHorizon(doc)
    PROVE  Horizon(doc).start \in Int /\ Horizon(doc).finish \in Int
<1> DEFINE Of == [item \in doc.activities |-> item.row.start]
           To == [item \in doc.activities |-> item.row.finish]
           leads == {r \in doc.relationships : IsLead(doc, r) /\ Activity(doc, r.pred).finish # None}
           At == [r \in leads |-> Activity(doc, r.pred).finish + r.lag]
           own == UNION {{item.row.start, item.row.finish} \ {None} : item \in doc.activities}
           led == {Activity(doc, r.pred).finish + r.lag : r \in leads}
           ends == {doc.project.start, doc.project.finish}
<1>1. ends \subseteq Int /\ IsFiniteSet(ends) /\ ends # {}
  <2>1. ends \subseteq Int
    BY DEF DocumentOK, Known, NoHorizon
  <2>2. IsFiniteSet({doc.project.start}) /\ IsFiniteSet({doc.project.start} \union {doc.project.finish})
    BY FS_Singleton, FS_AddElement
  <2>3. ends = {doc.project.start} \union {doc.project.finish}
    OBVIOUS
  <2> QED BY <2>1, <2>2, <2>3
<1>2. own \subseteq Int
  BY DEF DocumentOK, Known
<1>3. IsFiniteSet(own)
  <2> DEFINE A == {Of[item] : item \in doc.activities}
             B == {To[item] : item \in doc.activities}
  <2>1. own \subseteq A \union B
    OBVIOUS
  <2>2. IsFiniteSet(A) /\ IsFiniteSet(B)
    <3> HIDE DEF Of, To
    <3> QED BY FiniteImage DEF DocumentOK
  <2> HIDE DEF A, B, own
  <2>3. IsFiniteSet(A \union B)
    BY <2>2, FS_Union
  <2> QED BY <2>1, <2>3, FS_Subset
<1>4. led \subseteq Int
  <2> SUFFICES ASSUME NEW r \in leads PROVE Activity(doc, r.pred).finish + r.lag \in Int
    OBVIOUS
  <2>1. IsLead(doc, r) /\ Activity(doc, r.pred).finish # None /\ r \in doc.relationships
    OBVIOUS
  <2>2. r.lag \in Int
    BY <2>1 DEF IsLead, DocumentOK, Known
  <2>3. \E item \in doc.activities : item.id = r.pred
    BY <2>1 DEF IsLead, Ids
  <2>4. ItemOf(doc.activities, r.pred) \in doc.activities
    BY <2>3 DEF ItemOf
  <2>5. Activity(doc, r.pred).finish \in Int
    BY <2>1, <2>4 DEF DocumentOK, Known, Activity
  <2> QED BY <2>2, <2>5
<1>5. IsFiniteSet(led)
  <2>1. led = {At[r] : r \in leads}
    OBVIOUS
  <2>2. IsFiniteSet(leads)
    BY FS_Subset DEF DocumentOK
  <2> HIDE DEF At, leads, led
  <2> QED BY <2>1, <2>2, FiniteImage
<1>6. Coordinates(doc) = ends \union own \union led
  BY DEF Coordinates
<1> HIDE DEF ends, own, led
<1>7. IsFiniteSet(ends \union own)
  BY <1>1, <1>3, FS_Union
<1>8. IsFiniteSet(Coordinates(doc))
  BY <1>5, <1>6, <1>7, FS_Union
<1>9. Coordinates(doc) \subseteq Int /\ Coordinates(doc) # {}
  BY <1>1, <1>2, <1>4, <1>6
<1>10. Min(Coordinates(doc)) \in Int /\ Max(Coordinates(doc)) \in Int
  BY <1>8, <1>9, Extremes
<1> QED BY <1>10 DEF Horizon

----------------------------------------------------------------------------
(* Calendars.                                                                *)

(* What was left out of a calendar lies outside the horizon, and nothing was *)
(* when nothing is counted.                                                  *)
CalendarOK(doc, c) ==
    /\ c.ignored \in Nat
    /\ \A source \in ToSet(doc.calendars) : source.uid \in c.lineage =>
          /\ \A range \in Dated(source) : ~RangeRefused(range, Horizon(doc))
          /\ c.ignored = 0 => Dated(source) = {}

SourceOf(doc, ref) == CHOOSE c \in ToSet(doc.calendars) : c.uid = ref
BaseOf(doc, before, ref) ==
    IF SourceOf(doc, ref).base = None THEN Bare
    ELSE IF SourceOf(doc, ref).base \in Uids(doc.calendars) THEN before[SourceOf(doc, ref).base]
    ELSE None
NoneResolved(doc) == [ref \in Uids(doc.calendars) |-> None]
FromBases(doc, before, n) ==
    [ref \in Uids(doc.calendars) |->
        Extended(SourceOf(doc, ref), BaseOf(doc, before, ref), Horizon(doc))]
ResolvedOK(doc, n, entries) ==
    /\ DOMAIN entries = Uids(doc.calendars)
    /\ \A ref \in DOMAIN entries : entries[ref] # None => CalendarOK(doc, entries[ref])
Resolving == INSTANCE Recursion WITH
    First <- NoneResolved, Following <- FromBases, Claim <- ResolvedOK

(* A calendar is what its base is, and what it leaves out itself.            *)
LEMMA ExtendedIsOK ==
    ASSUME NEW doc, DocumentOK(doc), NEW source \in ToSet(doc.calendars), NEW base,
           base # None => CalendarOK(doc, base),
           Extended(source, base, Horizon(doc)) # None
    PROVE  CalendarOK(doc, Extended(source, base, Horizon(doc)))
<1> DEFINE made == Extended(source, base, Horizon(doc))
<1>1. /\ base # None /\ \A range \in Dated(source) : ~RangeRefused(range, Horizon(doc))
      /\ made.ignored = base.ignored + Len(source.specials) + Len(source.exceptions)
      /\ made.lineage = base.lineage \union {source.uid}
  BY DEF Extended
<1> HIDE DEF made
<1>2. CalendarOK(doc, base) /\ base.ignored \in Nat
  BY <1>1 DEF CalendarOK
<1>3. Rows(source.specials) /\ Rows(source.exceptions)
  BY DEF DocumentOK, DatesKnown
<1>4. Len(source.specials) \in Nat /\ Len(source.exceptions) \in Nat
  BY <1>3 DEF Rows
<1>5. made.ignored \in Nat /\ (made.ignored = 0 => base.ignored = 0 /\ Dated(source) = {})
  <2>1. made.ignored \in Nat
    BY <1>1, <1>2, <1>4
  <2>2. ASSUME made.ignored = 0 PROVE base.ignored = 0 /\ Dated(source) = {}
    <3>1. base.ignored = 0 /\ Len(source.specials) = 0 /\ Len(source.exceptions) = 0
      BY <1>1, <1>2, <1>4, <2>2
    <3>2. DOMAIN source.specials = {} /\ DOMAIN source.exceptions = {}
      BY <1>3, <3>1 DEF Rows
    <3> QED BY <3>1, <3>2 DEF Dated, ToSet
  <2> QED BY <2>1, <2>2
<1>6. ASSUME NEW other \in ToSet(doc.calendars), other.uid \in made.lineage
      PROVE  /\ \A range \in Dated(other) : ~RangeRefused(range, Horizon(doc))
             /\ made.ignored = 0 => Dated(other) = {}
  <2>1. CASE other.uid \in base.lineage
    BY <1>2, <1>5, <2>1 DEF CalendarOK
  <2>2. CASE other.uid = source.uid
    <3>1. other = source
      BY <2>2 DEF DocumentOK
    <3> QED BY <1>1, <1>5, <3>1
  <2> QED BY <1>1, <1>6, <2>1, <2>2
<1>7. CalendarOK(doc, made)
  BY <1>5, <1>6 DEF CalendarOK
<1> QED BY <1>7 DEF made

(* So is every calendar that resolves.                                       *)
LEMMA ResolvedCalendars ==
    ASSUME NEW doc, DocumentOK(doc)
    PROVE  ResolvedOK(doc, Cardinality(Uids(doc.calendars)), Resolved(doc))
<1> DEFINE n == Cardinality(Uids(doc.calendars))
           f == CHOOSE g : g = [k \in 0..n |-> IF k = 0 THEN [ref \in Uids(doc.calendars) |-> None]
                                               ELSE FromBases(doc, g[k - 1], k)]
<1>1. n \in Nat
  <2> DEFINE rows == doc.calendars
             D == DOMAIN rows
             uid == [i \in D |-> rows[i].uid]
  <2>1. Uids(rows) = {uid[i] : i \in D}
    BY DEF Uids
  <2>2. PICK m \in Nat : D = 1..m
    BY DEF DocumentOK, Rows
  <2> HIDE DEF uid, D, rows
  <2>3. IsFiniteSet(1..m)
    BY FS_Interval
  <2>4. IsFiniteSet({uid[i] : i \in D})
    BY <2>2, <2>3, FiniteImage
  <2>5. IsFiniteSet(Uids(rows))
    BY <2>1, <2>4
  <2>6. IsFiniteSet(Uids(doc.calendars))
    BY <2>5 DEF rows
  <2> QED BY <2>6, FS_CardinalityType
<1>2. f = CHOOSE g : Resolving!Recursive(doc, n, g)
  BY DEF Resolving!Recursive, NoneResolved
<1>3. Resolved(doc) = f[n]
  BY DEF Resolved, FromBases, SourceOf, BaseOf
<1> HIDE DEF f, n
<1>4. f[0] = NoneResolved(doc) /\ \A k \in 1..n : f[k] = FromBases(doc, f[k - 1], k)
  BY <1>1, <1>2, Resolving!RecursiveDefinition
<1>5. ResolvedOK(doc, 0, NoneResolved(doc))
  BY DEF ResolvedOK, NoneResolved
<1>6. ASSUME NEW k \in 1..n, ResolvedOK(doc, k - 1, f[k - 1])
      PROVE  ResolvedOK(doc, k, FromBases(doc, f[k - 1], k))
  <2> DEFINE before == f[k - 1]
             made == FromBases(doc, before, k)
  <2>1. DOMAIN made = Uids(doc.calendars)
    BY DEF FromBases
  <2>2. ASSUME NEW ref \in DOMAIN made, made[ref] # None
        PROVE  CalendarOK(doc, made[ref])
    <3> DEFINE source == SourceOf(doc, ref)
               base == BaseOf(doc, before, ref)
    <3>1. made[ref] = Extended(source, base, Horizon(doc))
      BY <2>1 DEF FromBases
    <3>2. source \in ToSet(doc.calendars)
      <4>1. \E c \in ToSet(doc.calendars) : c.uid = ref
        BY <2>1 DEF Uids, ToSet
      <4> QED BY <4>1 DEF SourceOf
    <3>3. base # None => CalendarOK(doc, base)
      <4>1. CalendarOK(doc, Bare)
        BY DEF CalendarOK, Bare
      <4>2. base = Bare \/ base = None \/ \E other \in DOMAIN before : base = before[other]
        BY <1>6 DEF BaseOf, ResolvedOK
      <4> HIDE DEF base, before
      <4> QED BY <1>6, <4>1, <4>2 DEF ResolvedOK, before
    <3> HIDE DEF source, base, made
    <3> QED BY <2>2, <3>1, <3>2, <3>3, ExtendedIsOK
  <2> QED BY <2>1, <2>2 DEF ResolvedOK
<1>7. \A k \in 0..n : ResolvedOK(doc, k, f[k])
  BY <1>1, <1>4, <1>5, <1>6, Resolving!RecursiveInduction
<1> QED BY <1>1, <1>3, <1>7 DEF n

(* And the calendar an activity works by, whichever it is.                   *)
LEMMA EffectiveIsOK ==
    ASSUME NEW doc, DocumentOK(doc), NEW row, NEW effective,
           effective = EffectiveCalendar(row, TaskCalendar(doc, Resolved(doc), row),
                                         CalendarsOf(doc, Resolved(doc), row.uid)),
           TaskCalendar(doc, Resolved(doc), row) # None,
           ~(/\ Cardinality(Patterns(CalendarsOf(doc, Resolved(doc), row.uid))) > 1
             /\ ~(row.calendar # None /\ row.ignore = TRUE))
    PROVE  CalendarOK(doc, effective)
<1> DEFINE calendars == Resolved(doc)
           task == TaskCalendar(doc, calendars, row)
           resources == CalendarsOf(doc, calendars, row.uid)
<1>1. ASSUME NEW ref, Resolve(calendars, ref) # None
      PROVE  CalendarOK(doc, Resolve(calendars, ref))
  <2>1. ref \in DOMAIN calendars /\ calendars[ref] # None /\ Resolve(calendars, ref) = calendars[ref]
    BY <1>1 DEF Resolve
  <2> QED BY <2>1, ResolvedCalendars DEF ResolvedOK
<1> HIDE DEF calendars
<1>2. effective = EffectiveCalendar(row, task, resources)
  BY DEF calendars
<1>3. task # None /\ ~(Cardinality(Patterns(resources)) > 1
                       /\ ~(row.calendar # None /\ row.ignore = TRUE))
  BY DEF calendars
<1>4. CalendarOK(doc, task)
  <2> DEFINE ref == IF row.calendar # None THEN row.calendar ELSE doc.project.calendar
  <2>1. task = Resolve(calendars, ref)
    BY DEF TaskCalendar
  <2> HIDE DEF ref, task
  <2> QED BY <1>1, <1>3, <2>1
<1>5. ASSUME DOMAIN resources # {} PROVE CalendarOK(doc, FirstOf(resources))
  <2>1. PICK n \in Nat : DOMAIN doc.assignments = 1..n
    BY DEF DocumentOK
  <2>2. DOMAIN resources \subseteq 1..n
    BY <2>1 DEF CalendarsOf
  <2>3. ASSUME NEW i \in DOMAIN resources PROVE CalendarOK(doc, resources[i])
    <3> DEFINE ref == Resource(doc, doc.assignments[i].resource).calendar
    <3>1. resources[i] = Resolve(calendars, ref) /\ Resolve(calendars, ref) # None
      BY <2>3 DEF CalendarsOf
    <3> HIDE DEF ref, resources
    <3> QED BY <1>1, <3>1
  <2> DEFINE D == DOMAIN resources
  <2>4. IsFiniteSet(D) /\ D \subseteq Int /\ D # {}
    <3>1. IsFiniteSet(1..n)
      BY FS_Interval
    <3>2. D \in SUBSET (1..n)
      BY <2>2
    <3> HIDE DEF D
    <3> QED BY <1>5, <3>1, <3>2, FS_Subset DEF D
  <2> HIDE DEF resources
  <2>5. Min(D) \in D
    <3> HIDE DEF D
    <3> QED BY <2>4, Extremes
  <2> QED BY <2>3, <2>5 DEF FirstOf
<1>6. CASE effective = task
  BY <1>4, <1>6
<1>7. CASE DOMAIN resources # {} /\ effective = FirstOf(resources)
  BY <1>5, <1>7
<1>8. CASE /\ DOMAIN resources # {}
           /\ effective = [pattern |-> IntersectPatterns(task.pattern, FirstOf(resources).pattern),
                           ignored |-> task.ignored + FirstOf(resources).ignored,
                           lineage |-> task.lineage \union FirstOf(resources).lineage]
  <2> DEFINE first == FirstOf(resources)
  <2>1. CalendarOK(doc, first) /\ CalendarOK(doc, task)
    BY <1>4, <1>5, <1>8
  <2>2. effective.ignored = task.ignored + first.ignored
        /\ effective.lineage = task.lineage \union first.lineage
    BY <1>8
  <2> HIDE DEF first, task, resources
  <2>3. /\ effective.ignored \in Nat
        /\ effective.ignored = 0 => task.ignored = 0 /\ first.ignored = 0
    BY <2>1, <2>2 DEF CalendarOK
  <2> QED BY <2>1, <2>2, <2>3 DEF CalendarOK
<1>9. \/ effective = task
      \/ DOMAIN resources # {} /\ effective = FirstOf(resources)
      \/ /\ DOMAIN resources # {}
         /\ effective = [pattern |-> IntersectPatterns(task.pattern, FirstOf(resources).pattern),
                         ignored |-> task.ignored + FirstOf(resources).ignored,
                         lineage |-> task.lineage \union FirstOf(resources).lineage]
  <2> HIDE DEF task, resources
  <2> QED BY <1>2, <1>3 DEF EffectiveCalendar
<1> QED BY <1>6, <1>7, <1>8, <1>9

----------------------------------------------------------------------------
(* Following edges until nothing is added.                                   *)

Onward(edges, S) == S \union {e[2] : e \in {d \in edges : d[1] \in S}}
Closed(edges, S) == \A e \in edges : e[1] \in S => e[2] \in S

(* As many rounds as there are places to reach are enough.                   *)
LEMMA OnwardSettles ==
    ASSUME NEW U, IsFiniteSet(U), NEW n \in Nat, Cardinality(U) <= n,
           NEW edges, \A e \in edges : e[2] \in U,
           NEW f, f[0] \subseteq U, \A k \in 1..n : f[k] = Onward(edges, f[k - 1])
    PROVE  f[n] \subseteq U /\ f[0] \subseteq f[n] /\ Closed(edges, f[n])
<1> DEFINE Holds(k) == /\ f[k] \subseteq U /\ f[0] \subseteq f[k]
                       /\ Closed(edges, f[k]) \/ k <= Cardinality(f[k])
           S == {k \in Nat : k <= n => Holds(k)}
<1>0. \A T : T \subseteq U => IsFiniteSet(T) /\ Cardinality(T) \in Nat /\ Cardinality(T) <= Cardinality(U)
  BY FS_Subset, FS_CardinalityType
<1>1. 0 \in S
  <2>1. Cardinality(f[0]) \in Nat
    BY <1>0
  <2> QED BY <2>1
<1>2. ASSUME NEW k \in Nat, k \in S PROVE k + 1 \in S
  <2> SUFFICES ASSUME k + 1 <= n PROVE Holds(k + 1)
    OBVIOUS
  <2> DEFINE A == f[k]
             B == f[k + 1]
  <2>1. k + 1 \in 1..n /\ (k + 1) - 1 = k /\ Holds(k)
    BY <1>2
  <2>2. B = Onward(edges, A)
    BY <2>1
  <2>3. A \subseteq U /\ f[0] \subseteq A /\ (Closed(edges, A) \/ k <= Cardinality(A))
    BY <2>1
  <2> HIDE DEF A, B
  <2>4. A \subseteq B /\ B \subseteq U
    BY <2>2, <2>3 DEF Onward
  <2>5. CASE Closed(edges, A)
    <3>1. B = A
      BY <2>2, <2>5 DEF Onward, Closed
    <3>2. B \subseteq U /\ f[0] \subseteq B /\ Closed(edges, B)
      BY <2>3, <2>5, <3>1
    <3> QED BY <3>2 DEF B
  <2>6. CASE ~Closed(edges, A)
    <3>1. PICK e \in edges : e[1] \in A /\ e[2] \notin A
      BY <2>6 DEF Closed
    <3>2. e[2] \in B
      BY <2>2, <3>1 DEF Onward
    <3>3. IsFiniteSet(B) /\ A \in SUBSET B /\ A # B
      BY <1>0, <2>4, <3>1, <3>2
    <3>4. Cardinality(A) <= Cardinality(B) /\ Cardinality(A) # Cardinality(B)
      BY <3>3, FS_Subset
    <3>5. Cardinality(A) \in Nat /\ Cardinality(B) \in Nat
      BY <1>0, <2>4, <2>3
    <3>6. k + 1 <= Cardinality(B)
      BY <2>3, <2>6, <3>4, <3>5
    <3>7. B \subseteq U /\ f[0] \subseteq B
      BY <2>3, <2>4
    <3> QED BY <3>6, <3>7 DEF B
  <2> QED BY <2>5, <2>6
<1> HIDE DEF S
<1>3. n \in S
  BY <1>1, <1>2, Reading!EveryNatural
<1>4. Holds(n)
  BY <1>3 DEF S
<1>5. CASE Closed(edges, f[n])
  BY <1>4, <1>5
<1>6. CASE n <= Cardinality(f[n])
  <2>1. f[n] \in SUBSET U
    BY <1>4
  <2>2. Cardinality(f[n]) = Cardinality(U)
    BY <1>0, <1>6, <2>1, FS_CardinalityType
  <2>3. f[n] = U
    BY <2>1, <2>2, FS_Subset
  <2> QED BY <1>4, <2>3 DEF Closed
<1> QED BY <1>4, <1>5, <1>6

(* The images of a finite set are no more than its elements.                 *)
LEMMA ImageSize ==
    ASSUME NEW D, IsFiniteSet(D), NEW f
    PROVE  /\ IsFiniteSet({f[x] : x \in D})
           /\ Cardinality({f[x] : x \in D}) <= Cardinality(D)
           /\ Cardinality(D) \in Nat
<1> DEFINE S == {f[x] : x \in D}
           g == [x \in D |-> f[x]]
<1>1. g \in Surjection(D, S)
  BY DEF Surjection
<1> HIDE DEF S, g
<1>2. IsFiniteSet(S) /\ Cardinality(S) <= Cardinality(D)
  BY <1>1, FS_Surjection
<1>3. Cardinality(D) \in Nat
  BY FS_CardinalityType
<1> QED BY <1>2, <1>3 DEF S

----------------------------------------------------------------------------
(* The profile.                                                              *)

Start(c) == c.excluded
Spread(c, before, n) ==
    before \union {r.succ : r \in {s \in c.doc.relationships :
                                      BetweenActivities(c.doc, s) /\ s.pred \in before}}
NothingClaimed(c, n, S) == TRUE
Spreading == INSTANCE Recursion WITH
    First <- Start, Following <- Spread, Claim <- NothingClaimed

(* What is left out takes all that follows it along.                         *)
LEMMA ExcludedOf ==
    ASSUME NEW c, DocumentOK(c.doc), c.excluded \subseteq Ids(c.doc.activities)
    PROVE  LET out == ExcludedWithSuccessors(c.doc, c.excluded)
           IN /\ c.excluded \subseteq out
              /\ \A r \in c.doc.relationships :
                    BetweenActivities(c.doc, r) /\ r.pred \in out => r.succ \in out
<1> DEFINE doc == c.doc
           excluded == c.excluded
           U == Ids(doc.activities)
           n == Cardinality(doc.activities)
           edges == {<<r.pred, r.succ>> : r \in {s \in doc.relationships : BetweenActivities(doc, s)}}
           f == CHOOSE g : g = [k \in 0..n |->
                    IF k = 0 THEN excluded
                    ELSE g[k - 1] \union {r.succ : r \in {s \in doc.relationships :
                                             BetweenActivities(doc, s) /\ s.pred \in g[k - 1]}}]
<1>1. IsFiniteSet(U) /\ Cardinality(U) <= n /\ n \in Nat
  <2> DEFINE of == [item \in doc.activities |-> item.id]
             D == doc.activities
  <2>1. U = {of[item] : item \in D}
    BY DEF Ids
  <2>2. IsFiniteSet(D)
    BY DEF DocumentOK
  <2> HIDE DEF of, D, U
  <2>3. IsFiniteSet(U) /\ Cardinality(U) <= Cardinality(D) /\ Cardinality(D) \in Nat
    BY <2>1, <2>2, ImageSize
  <2> QED BY <2>3 DEF D
<1>2. f = CHOOSE g : Spreading!Recursive(c, n, g)
  BY DEF Spreading!Recursive, Start, Spread
<1>3. ExcludedWithSuccessors(doc, excluded) = f[n]
  BY DEF ExcludedWithSuccessors
<1> HIDE DEF f, n
<1>4. f[0] = Start(c) /\ \A k \in 1..n : f[k] = Spread(c, f[k - 1], k)
  BY <1>1, <1>2, Spreading!RecursiveDefinition
<1>5. \A S, k : Spread(c, S, k) = Onward(edges, S)
  <2> SUFFICES ASSUME NEW S, NEW k PROVE Spread(c, S, k) = Onward(edges, S)
    OBVIOUS
  <2> DEFINE A == {r.succ : r \in {s \in doc.relationships : BetweenActivities(doc, s) /\ s.pred \in S}}
             B == {e[2] : e \in {d \in edges : d[1] \in S}}
  <2>2. A \subseteq B
    <3> SUFFICES ASSUME NEW r \in doc.relationships, BetweenActivities(doc, r), r.pred \in S
                 PROVE  r.succ \in B
      OBVIOUS
    <3> DEFINE e == <<r.pred, r.succ>>
    <3>1. e \in edges /\ e[1] = r.pred /\ e[2] = r.succ
      OBVIOUS
    <3> HIDE DEF e, edges
    <3> QED BY <3>1
  <2>3. B \subseteq A
    OBVIOUS
  <2>4. Spread(c, S, k) = S \union A
    BY DEF Spread
  <2>5. Onward(edges, S) = S \union B
    BY DEF Onward
  <2> QED BY <2>2, <2>3, <2>4, <2>5
<1>6. \A e \in edges : e[2] \in U
  BY DEF BetweenActivities
<1>7. f[0] = excluded
  BY <1>4 DEF Start
<1>8. \A k \in 1..n : f[k] = Onward(edges, f[k - 1])
  BY <1>4, <1>5
<1>9. \A r \in doc.relationships : BetweenActivities(doc, r) => <<r.pred, r.succ>> \in edges
  OBVIOUS
<1> HIDE DEF edges, U
<1>10. f[0] \subseteq f[n] /\ Closed(edges, f[n])
  <2>1. f[0] \subseteq U
    BY <1>7 DEF U
  <2> QED BY <1>1, <1>6, <1>8, <2>1, OnwardSettles
<1>11. \A r \in doc.relationships :
          BetweenActivities(doc, r) /\ r.pred \in f[n] => r.succ \in f[n]
  BY <1>9, <1>10 DEF Closed
<1> QED BY <1>3, <1>7, <1>10, <1>11

(* The same of a document and what is left out of it.                        *)
LEMMA ExcludedIsClosed ==
    ASSUME NEW doc, DocumentOK(doc), NEW excluded, excluded \subseteq Ids(doc.activities)
    PROVE  LET out == ExcludedWithSuccessors(doc, excluded)
           IN /\ excluded \subseteq out
              /\ \A r \in doc.relationships :
                    BetweenActivities(doc, r) /\ r.pred \in out => r.succ \in out
<1> DEFINE c == [doc |-> doc, excluded |-> excluded]
<1>1. c.doc = doc /\ c.excluded = excluded
  OBVIOUS
<1> HIDE DEF c
<1> QED BY <1>1, ExcludedOf

(* What is used of a profile.                                                *)
ProfileOK(doc, profile) ==
    /\ profile.eligible \subseteq Ids(doc.activities)
    /\ profile.relationships \subseteq doc.relationships
    /\ \A r \in profile.relationships : {r.pred, r.succ} \subseteq profile.eligible /\ r.lag \in Int
    /\ DOMAIN profile.effective = profile.eligible
    /\ \A id \in profile.eligible :
          CalendarOK(doc, profile.effective[id]) /\ Activity(doc, id).duration \in Int
    /\ \A r \in doc.relationships :
          r.succ \in profile.eligible => r.type = "FS" /\ r \in profile.relationships

LEMMA ProfileIsOK ==
    ASSUME NEW doc, DocumentOK(doc), CalculationProfile(doc) # None
    PROVE  ProfileOK(doc, CalculationProfile(doc)) /\ ~NoHorizon(doc)
<1> DEFINE calendars == Resolved(doc)
           local == [id \in Ids(doc.activities) |-> Local(doc, calendars, Activity(doc, id))]
           out == ExcludedWithSuccessors(doc, LocallyExcluded(doc, local))
           eligible == Ids(doc.activities) \ out
           profile == CalculationProfile(doc)
<1>1. /\ profile = [eligible |-> eligible,
                    relationships |-> {r \in doc.relationships :
                                          /\ {r.pred, r.succ} \subseteq eligible
                                          /\ RelationshipReasons(doc, r) = {}},
                    effective |-> [id \in eligible |-> local[id].effective]]
      /\ ~NoHorizon(doc)
  <2> HIDE DEF local, out
  <2> QED BY DEF CalculationProfile, local, out
<1>2. /\ LocallyExcluded(doc, local) \subseteq out
      /\ \A r \in doc.relationships :
            BetweenActivities(doc, r) /\ r.pred \in out => r.succ \in out
  <2>1. LocallyExcluded(doc, local) \subseteq Ids(doc.activities)
    BY DEF LocallyExcluded
  <2> HIDE DEF local
  <2> QED BY <2>1, ExcludedIsClosed
<1> HIDE DEF out, profile
<1>3. \A id \in eligible : id \in Ids(doc.activities) /\ id \notin LocallyExcluded(doc, local)
  BY <1>2
<1>4. ASSUME NEW id \in eligible
      PROVE  /\ local[id].reasons = {}
             /\ \A r \in doc.relationships : r.succ = id => RelationshipReasons(doc, r) = {}
  <2> HIDE DEF local
  <2> QED BY <1>3 DEF LocallyExcluded
<1>5. ASSUME NEW r \in doc.relationships, RelationshipReasons(doc, r) = {}
      PROVE  BetweenActivities(doc, r) /\ r.type = "FS" /\ r.lag \in Int
  <2>1. BetweenActivities(doc, r) /\ r.type = "FS" /\ LagSupported(doc, r)
    BY <1>5 DEF RelationshipReasons
  <2> QED BY <2>1 DEF LagSupported, DocumentOK, Known
<1>6. ASSUME NEW r \in doc.relationships, r.succ \in eligible
      PROVE  r.type = "FS" /\ r \in profile.relationships
  <2>1. RelationshipReasons(doc, r) = {}
    BY <1>4, <1>6
  <2>2. BetweenActivities(doc, r) /\ r.type = "FS"
    BY <1>5, <2>1
  <2>3. r.pred \in eligible
    BY <1>2, <1>6, <2>2 DEF BetweenActivities
  <2> HIDE DEF eligible
  <2> QED BY <1>1, <1>6, <2>1, <2>2, <2>3
<1>7. ASSUME NEW id \in eligible
      PROVE  CalendarOK(doc, local[id].effective) /\ Activity(doc, id).duration \in Int
  <2> DEFINE row == Activity(doc, id)
             task == TaskCalendar(doc, calendars, row)
             resources == CalendarsOf(doc, calendars, row.uid)
             effective == EffectiveCalendar(row, task, resources)
  <2>1. local[id] = Local(doc, calendars, row)
    BY <1>3
  <2> HIDE DEF local, calendars, row
  <2>2. local[id].effective = effective /\ CalendarReasons(row, task, resources) = {}
        /\ FieldReasons(row) = {}
    BY <1>4, <2>1 DEF Local
  <2>3. task # None
    BY <2>2 DEF CalendarReasons
  <2>4. ~(Cardinality(Patterns(resources)) > 1 /\ ~(row.calendar # None /\ row.ignore = TRUE))
    BY <2>2 DEF CalendarReasons
  <2> HIDE DEF task, resources
  <2>5. CalendarOK(doc, effective)
    <3> USE DEF task, resources, calendars
    <3> QED BY <2>3, <2>4, EffectiveIsOK
  <2>6. row.duration # None
    BY <2>2 DEF FieldReasons
  <2>7. row.duration \in Int
    <3>1. \E item \in doc.activities : item.id = id
      BY <1>3 DEF Ids
    <3>2. ItemOf(doc.activities, id) \in doc.activities
      BY <3>1 DEF ItemOf
    <3> QED BY <2>6, <3>2 DEF DocumentOK, Known, Activity, row
  <2> QED BY <2>2, <2>5, <2>7 DEF row
<1>8. /\ profile.eligible \subseteq Ids(doc.activities)
      /\ profile.relationships \subseteq doc.relationships
      /\ \A r \in profile.relationships : {r.pred, r.succ} \subseteq profile.eligible /\ r.lag \in Int
  BY <1>1, <1>5
<1>9. /\ DOMAIN profile.effective = profile.eligible
      /\ \A id \in profile.eligible :
            CalendarOK(doc, profile.effective[id]) /\ Activity(doc, id).duration \in Int
  <2>1. \A id \in eligible : profile.effective[id] = local[id].effective
    BY <1>1
  <2>2. profile.eligible = eligible /\ DOMAIN profile.effective = eligible
    BY <1>1
  <2> HIDE DEF eligible, local
  <2> QED BY <1>7, <2>1, <2>2
<1>10. ProfileOK(doc, profile)
  <2>1. profile.eligible = eligible
    BY <1>1
  <2> HIDE DEF eligible
  <2> QED BY <1>6, <1>8, <1>9, <2>1 DEF ProfileOK
<1> QED BY <1>1, <1>10 DEF profile

----------------------------------------------------------------------------
(* Working time.                                                             *)

(* The next working time is no earlier than it is asked from.                *)
LEMMA NextWorkingTimeFacts ==
    ASSUME NEW t \in Int, NEW pattern, NextWorkingTime(t, pattern) # None
    PROVE  NextWorkingTime(t, pattern) \in Int /\ t <= NextWorkingTime(t, pattern)
<1> DEFINE to == t + Day * (Week + 1)
           found == {u \in t..to : IsWorking(pattern, u)}
<1>1. to \in Int
  BY CalculationAssumption
<1> HIDE DEF to
<1>2. IsFiniteSet(t..to)
  BY <1>1, FS_Interval
<1>3. found \in SUBSET (t..to)
  OBVIOUS
<1>4. found # {} /\ NextWorkingTime(t, pattern) = Min(found)
  BY DEF NextWorkingTime, to
<1> HIDE DEF found
<1>5. IsFiniteSet(found)
  BY ONLY <1>2, <1>3, FS_Subset
<1>6. \A u \in found : u \in Int /\ t <= u
  BY <1>1, <1>3
<1>7. Min(found) \in found
  BY <1>4, <1>5, <1>6, Extremes
<1> QED BY <1>4, <1>6, <1>7

(* The end of working units is a time.                                      *)
LEMMA AddWorkingFacts ==
    ASSUME NEW t \in Int, NEW units, NEW pattern, AddWorking(t, units, pattern) # None
    PROVE  AddWorking(t, units, pattern) \in Int
<1> DEFINE to == t + SearchDays * Week * Day - 1
           working == {u \in t..to : IsWorking(pattern, u)}
           Upto(u) == {w \in working : w <= u}
           last == {u \in working : Cardinality(Upto(u)) = units}
<1>1. to \in Int
  <2>1. SearchDays * Week \in Int
    BY CalculationAssumption
  <2>2. SearchDays * Week * Day \in Int
    BY <2>1, CalculationAssumption
  <2> QED BY <2>2
<1>2. units # 0 => last # {} /\ AddWorking(t, units, pattern) = Min(last) + 1
  BY DEF AddWorking
<1> HIDE DEF to
<1>3. IsFiniteSet(t..to)
  BY <1>1, FS_Interval
<1>4. last \in SUBSET (t..to)
  OBVIOUS
<1> HIDE DEF last
<1>5. IsFiniteSet(last)
  BY ONLY <1>3, <1>4, FS_Subset
<1>6. CASE units = 0
  BY <1>6 DEF AddWorking
<1>7. CASE units # 0
  <2>1. last \subseteq Int /\ last # {}
    BY <1>1, <1>2, <1>4, <1>7
  <2>2. Min(last) \in Int
    BY <1>5, <2>1, Extremes
  <2> QED BY <1>2, <1>7, <2>2
<1> QED BY <1>6, <1>7

----------------------------------------------------------------------------
(* The forward calculation.                                                  *)

ProjectionOK(p) ==
    /\ p.start \in Int /\ IsFiniteSet(DOMAIN p.activities)
    /\ IsFiniteSet(p.relationships) /\ \A r \in p.relationships : r.lag \in Int

(* The dates of an activity are times, from which its links are kept.        *)
LEMMA DatesFacts ==
    ASSUME NEW p, ProjectionOK(p), NEW dated, NEW id, Dates(p, dated, id) # None,
           \A r \in p.relationships :
              r.succ = id /\ dated[r.pred] # None => dated[r.pred].finish \in Int
    PROVE  /\ Dates(p, dated, id).start \in Int /\ Dates(p, dated, id).finish \in Int
           /\ \A r \in p.relationships : r.succ = id =>
                 /\ dated[r.pred] # None
                 /\ Dates(p, dated, id).start >= dated[r.pred].finish + r.lag
<1> DEFINE a == p.activities[id]
           into == {s \in p.relationships : s.succ = id}
           released == {Released(dated[r.pred], r.lag) : r \in into}
           all == released \union IF released = {} THEN {p.start} ELSE {}
           candidate == Max(all)
           start == IF a.milestone THEN candidate ELSE NextWorkingTime(candidate, a.pattern)
<1>1. None \notin released /\ Dates(p, dated, id) = Span(a, start)
  BY DEF Dates
<1>2. ASSUME NEW r \in into
      PROVE  /\ dated[r.pred] # None /\ Released(dated[r.pred], r.lag) = dated[r.pred].finish + r.lag
             /\ Released(dated[r.pred], r.lag) \in released
             /\ dated[r.pred].finish + r.lag \in Int
  <2>1. Released(dated[r.pred], r.lag) \in released
    OBVIOUS
  <2> HIDE DEF released
  <2>2. dated[r.pred] # None
    BY <1>1, <2>1 DEF Released
  <2>3. dated[r.pred].finish \in Int /\ r.lag \in Int
    BY <2>2 DEF ProjectionOK
  <2> QED BY <2>1, <2>2, <2>3 DEF Released
<1>3. IsFiniteSet(released)
  <2> DEFINE g == [r \in into |-> Released(dated[r.pred], r.lag)]
  <2>1. released = {g[r] : r \in into}
    OBVIOUS
  <2>2. IsFiniteSet(into)
    BY FS_Subset DEF ProjectionOK
  <2> HIDE DEF g, into, released
  <2> QED BY <2>1, <2>2, FiniteImage
<1>4. released \subseteq Int
  BY <1>2
<1> HIDE DEF released
<1>5. IsFiniteSet(all) /\ all # {} /\ all \subseteq Int /\ released \subseteq all
  <2>1. IsFiniteSet({p.start})
    BY FS_Singleton
  <2>2. CASE released = {}
    <3>1. all = {p.start}
      BY <2>2
    <3> QED BY <2>1, <2>2, <3>1 DEF ProjectionOK
  <2>3. CASE released # {}
    <3>1. all = released
      BY <2>3
    <3> QED BY <1>3, <1>4, <2>3, <3>1
  <2> QED BY <2>2, <2>3
<1> HIDE DEF all
<1>6. candidate \in Int /\ \A x \in all : x <= candidate
  BY <1>5, Extremes
<1> HIDE DEF candidate
<1>7. start # None /\ AddWorking(start, a.duration, a.pattern) # None
      /\ Dates(p, dated, id) = [start |-> start, finish |-> AddWorking(start, a.duration, a.pattern)]
  <2> HIDE DEF start, a
  <2> QED BY <1>1 DEF Span
<1>8. start \in Int /\ candidate <= start
  <2> DEFINE pattern == a.pattern
  <2>1. CASE a.milestone
    BY <1>6, <2>1
  <2>2. CASE ~a.milestone
    <3>1. start = NextWorkingTime(candidate, pattern) /\ start # None
      BY <1>7, <2>2
    <3> HIDE DEF start, pattern, a
    <3> QED BY <1>6, <3>1, NextWorkingTimeFacts
  <2> QED BY <2>1, <2>2
<1>9. Dates(p, dated, id).start = start /\ Dates(p, dated, id).finish \in Int
  <2> HIDE DEF start, a
  <2>1. AddWorking(start, a.duration, a.pattern) \in Int
    BY <1>7, <1>8, AddWorkingFacts
  <2> QED BY <1>7, <2>1
<1>10. ASSUME NEW r \in p.relationships, r.succ = id
       PROVE  dated[r.pred] # None /\ Dates(p, dated, id).start >= dated[r.pred].finish + r.lag
  <2>1. r \in into
    BY <1>10
  <2>2. dated[r.pred] # None /\ dated[r.pred].finish + r.lag \in all
        /\ dated[r.pred].finish + r.lag \in Int
    BY <1>2, <1>5, <2>1
  <2> HIDE DEF start
  <2> QED BY <1>6, <1>8, <1>9, <2>2
<1> QED BY <1>8, <1>9, <1>10

(* The dates of an activity depend on it and on those of what it follows.    *)
LEMMA DatesAlike ==
    ASSUME NEW p, NEW q, NEW before, NEW after, NEW id,
           p.start = q.start, p.relationships = q.relationships,
           p.activities[id] = q.activities[id],
           \A r \in p.relationships : r.succ = id => before[r.pred] = after[r.pred]
    PROVE  Dates(p, before, id) = Dates(q, after, id)
<1> DEFINE into == {s \in p.relationships : s.succ = id}
           A == {Released(before[r.pred], r.lag) : r \in into}
           B == {Released(after[r.pred], r.lag) : r \in into}
<1>1. A = B
  <2>1. \A r \in into : Released(before[r.pred], r.lag) = Released(after[r.pred], r.lag)
    OBVIOUS
  <2> QED BY <2>1
<1>2. q.relationships = p.relationships
  OBVIOUS
<1>3. B = {Released(after[r.pred], r.lag) : r \in {s \in q.relationships : s.succ = id}}
  BY <1>2
<1> DEFINE D(pr, released) ==
        LET a == pr.activities[id]
            candidate == Max(released \union IF released = {} THEN {pr.start} ELSE {})
        IN IF None \in released THEN None
           ELSE Span(a, IF a.milestone THEN candidate ELSE NextWorkingTime(candidate, a.pattern))
<1>4. Dates(p, before, id) = D(p, A)
  BY DEF Dates
<1>5. Dates(q, after, id) = D(q, B)
  BY <1>3 DEF Dates
<1> HIDE DEF A, B
<1>6. D(p, A) = D(q, B)
  BY <1>1
<1> QED BY <1>4, <1>5, <1>6

(* The rounds of the calculation: an activity has dates once what it follows *)
(* has, and keeps them.                                                      *)
NoDates(p) == [id \in {} |-> None]
NextDates(p, dated, n) ==
    [id \in Ready(p, dated) |-> IF id \in DOMAIN dated THEN dated[id] ELSE Dates(p, dated, id)]
DatedSoFar(p, n, dated) ==
    /\ DOMAIN dated \subseteq Ready(p, dated)
    /\ \A id \in DOMAIN dated :
          /\ dated[id] = Dates(p, dated, id)
          /\ ProjectionOK(p) /\ dated[id] # None => dated[id].finish \in Int
Forwarding == INSTANCE Recursion WITH
    First <- NoDates, Following <- NextDates, Claim <- DatedSoFar

Rounds(p, n, f) ==
    f[0] = NoDates(p) /\ \A k \in 1..n : f[k] = NextDates(p, f[k - 1], k)

LEMMA OneRoundMore ==
    ASSUME NEW p, NEW n, NEW dated, DatedSoFar(p, n, dated), NEW m
    PROVE  DatedSoFar(p, m, NextDates(p, dated, m))
<1> DEFINE next == NextDates(p, dated, m)
<1>1. DOMAIN next = Ready(p, dated) /\ DOMAIN dated \subseteq DOMAIN next
  BY DEF NextDates, DatedSoFar
<1>2. \A id \in DOMAIN dated : next[id] = dated[id]
  BY <1>1 DEF NextDates
<1>3. ASSUME NEW id \in DOMAIN next
      PROVE  /\ id \in Ready(p, next)
             /\ \A r \in p.relationships : r.succ = id =>
                   r.pred \in DOMAIN dated /\ next[r.pred] = dated[r.pred]
  <2>1. id \in DOMAIN p.activities /\ \A r \in p.relationships : r.succ = id => r.pred \in DOMAIN dated
    BY <1>1, <1>3 DEF Ready
  <2> HIDE DEF next
  <2> QED BY <1>1, <1>2, <2>1 DEF Ready
<1>4. ASSUME NEW id \in DOMAIN next PROVE next[id] = Dates(p, dated, id)
  <2>1. CASE id \in DOMAIN dated
    BY <1>2, <2>1 DEF DatedSoFar
  <2>2. CASE id \notin DOMAIN dated
    BY <1>1, <1>4, <2>2 DEF NextDates
  <2> QED BY <2>1, <2>2
<1> HIDE DEF next
<1>5. ASSUME NEW id \in DOMAIN next PROVE Dates(p, dated, id) = Dates(p, next, id)
  <2>1. \A r \in p.relationships : r.succ = id => dated[r.pred] = next[r.pred]
    BY <1>3
  <2> QED BY <2>1, DatesAlike
<1>6. ASSUME NEW id \in DOMAIN next, ProjectionOK(p), next[id] # None
      PROVE  next[id].finish \in Int
  <2>1. \A r \in p.relationships :
           r.succ = id /\ dated[r.pred] # None => dated[r.pred].finish \in Int
    BY <1>3, <1>6 DEF DatedSoFar
  <2>2. Dates(p, dated, id) # None
    BY <1>4, <1>6
  <2>3. Dates(p, dated, id).finish \in Int
    BY <1>6, <2>1, <2>2, DatesFacts
  <2> QED BY <1>4, <2>3
<1>7. DatedSoFar(p, m, next)
  BY <1>3, <1>4, <1>5, <1>6 DEF DatedSoFar
<1> QED BY <1>7 DEF next

(* A schedule is what the last round gives.                                  *)
LEMMA ForwardRounds ==
    ASSUME NEW p, IsFiniteSet(DOMAIN p.activities)
    PROVE  LET n == Cardinality(DOMAIN p.activities)
           IN /\ n \in Nat
              /\ \E f : /\ Rounds(p, n, f)
                        /\ ForwardSchedule(p) # None =>
                              /\ ValidProjection(p) /\ ForwardSchedule(p) = f[n]
                              /\ DOMAIN f[n] = DOMAIN p.activities
                              /\ \A id \in DOMAIN p.activities : f[n][id] # None
<1> DEFINE n == Cardinality(DOMAIN p.activities)
           f == CHOOSE g : g = [k \in 0..n |-> IF k = 0 THEN [id \in {} |-> None]
                    ELSE [id \in Ready(p, g[k - 1]) |->
                             IF id \in DOMAIN g[k - 1] THEN g[k - 1][id] ELSE Dates(p, g[k - 1], id)]]
<1>1. n \in Nat
  BY FS_CardinalityType
<1>2. f = CHOOSE g : Forwarding!Recursive(p, n, g)
  BY DEF Forwarding!Recursive, NoDates, NextDates
<1>3. ForwardSchedule(p) =
         IF ~ValidProjection(p) \/ DOMAIN f[n] # DOMAIN p.activities
            \/ \E id \in DOMAIN f[n] : f[n][id] = None
         THEN None ELSE f[n]
  BY DEF ForwardSchedule
<1> HIDE DEF f, n
<1>4. Rounds(p, n, f)
  BY <1>1, <1>2, Forwarding!RecursiveDefinition DEF Rounds
<1>5. ForwardSchedule(p) # None =>
         /\ ValidProjection(p) /\ ForwardSchedule(p) = f[n]
         /\ DOMAIN f[n] = DOMAIN p.activities
         /\ \A id \in DOMAIN p.activities : f[n][id] # None
  BY <1>3
<1> QED BY <1>1, <1>4, <1>5 DEF n

(* Every activity of a schedule has the dates that what it follows gives it. *)
LEMMA ScheduleFacts ==
    ASSUME NEW p, ProjectionOK(p), ForwardSchedule(p) # None
    PROVE  LET s == ForwardSchedule(p)
           IN /\ DOMAIN s = DOMAIN p.activities /\ ValidProjection(p)
              /\ \A id \in DOMAIN s : s[id].start \in Int /\ s[id].finish \in Int
              /\ \A r \in p.relationships :
                    r.succ \in DOMAIN s =>
                       r.pred \in DOMAIN s /\ s[r.succ].start >= s[r.pred].finish + r.lag
<1> DEFINE n == Cardinality(DOMAIN p.activities)
           s == ForwardSchedule(p)
<1>1. n \in Nat /\ \E f : /\ Rounds(p, n, f)
                          /\ ValidProjection(p) /\ ForwardSchedule(p) = f[n]
                          /\ DOMAIN f[n] = DOMAIN p.activities
                          /\ \A id \in DOMAIN p.activities : f[n][id] # None
  BY ForwardRounds DEF ProjectionOK
<1>2. PICK f : /\ Rounds(p, n, f)
               /\ ValidProjection(p) /\ ForwardSchedule(p) = f[n]
               /\ DOMAIN f[n] = DOMAIN p.activities
               /\ \A id \in DOMAIN p.activities : f[n][id] # None
  BY <1>1
<1> HIDE DEF n, s
<1>3. DatedSoFar(p, 0, NoDates(p))
  BY DEF DatedSoFar, NoDates
<1>4. ASSUME NEW k \in 1..n, DatedSoFar(p, k - 1, f[k - 1])
      PROVE  DatedSoFar(p, k, NextDates(p, f[k - 1], k))
  BY <1>4, OneRoundMore
<1>5. \A k \in 0..n : DatedSoFar(p, k, f[k])
  <2>1. f[0] = NoDates(p) /\ \A k \in 1..n : f[k] = NextDates(p, f[k - 1], k)
    BY <1>2 DEF Rounds
  <2> QED BY <1>1, <1>3, <1>4, <2>1, Forwarding!RecursiveInduction
<1>6. s = f[n] /\ DatedSoFar(p, n, s) /\ DOMAIN s = DOMAIN p.activities
      /\ \A id \in DOMAIN s : s[id] # None
  BY <1>1, <1>2, <1>5 DEF s
<1>7. ASSUME NEW id \in DOMAIN s
      PROVE  /\ s[id].start \in Int /\ s[id].finish \in Int
             /\ \A r \in p.relationships : r.succ = id => s[id].start >= s[r.pred].finish + r.lag
  <2>1. s[id] = Dates(p, s, id) /\ s[id] # None
    BY <1>6 DEF DatedSoFar
  <2>2. \A r \in p.relationships : r.succ = id => r.pred \in DOMAIN s
    BY <1>6 DEF DatedSoFar, Ready
  <2>3. \A r \in p.relationships :
           r.succ = id /\ s[r.pred] # None => s[r.pred].finish \in Int
    BY <1>6, <2>2 DEF DatedSoFar
  <2> QED BY <2>1, <2>3, DatesFacts
<1>8. ASSUME NEW r \in p.relationships, r.succ \in DOMAIN s
      PROVE  r.pred \in DOMAIN s /\ s[r.succ].start >= s[r.pred].finish + r.lag
  <2>1. r.pred \in DOMAIN s
    BY <1>6, <1>8 DEF DatedSoFar, Ready
  <2> QED BY <1>7, <1>8, <2>1
<1> QED BY <1>2, <1>6, <1>7, <1>8 DEF s

(* Two projections that differ on some activities give dates that differ on  *)
(* these and on what follows them.                                           *)
LEMMA DatesElsewhere ==
    ASSUME NEW p, NEW q, IsFiniteSet(DOMAIN p.activities), NEW moved,
           p.start = q.start, p.relationships = q.relationships,
           DOMAIN p.activities = DOMAIN q.activities,
           \A id \in DOMAIN p.activities \ moved : p.activities[id] = q.activities[id],
           \A r \in p.relationships : r.pred \in moved => r.succ \in moved,
           ForwardSchedule(p) # None, ForwardSchedule(q) # None
    PROVE  \A id \in DOMAIN p.activities \ moved : ForwardSchedule(p)[id] = ForwardSchedule(q)[id]
<1> DEFINE n == Cardinality(DOMAIN p.activities)
<1>1. n \in Nat
      /\ (\E f : Rounds(p, n, f) /\ ForwardSchedule(p) = f[n] /\ DOMAIN f[n] = DOMAIN p.activities)
  BY ForwardRounds
<1>2. n = Cardinality(DOMAIN q.activities) /\ IsFiniteSet(DOMAIN q.activities)
  OBVIOUS
<1>3. \E g : Rounds(q, n, g) /\ ForwardSchedule(q) = g[n]
  BY <1>2, ForwardRounds
<1>4. PICK f : Rounds(p, n, f) /\ ForwardSchedule(p) = f[n] /\ DOMAIN f[n] = DOMAIN p.activities
  BY <1>1
<1>5. PICK g : Rounds(q, n, g) /\ ForwardSchedule(q) = g[n]
  BY <1>3
<1> HIDE DEF n
<1> DEFINE Alike(k) == /\ DOMAIN f[k] = DOMAIN g[k]
                       /\ \A id \in DOMAIN f[k] \ moved : f[k][id] = g[k][id]
           S == {k \in Nat : k <= n => Alike(k)}
<1>6. 0 \in S
  <2>1. f[0] = g[0]
    BY <1>4, <1>5 DEF Rounds, NoDates
  <2> QED BY <2>1
<1>7. ASSUME NEW k \in Nat, k \in S PROVE k + 1 \in S
  <2> SUFFICES ASSUME k + 1 <= n PROVE Alike(k + 1)
    OBVIOUS
  <2> DEFINE a == f[k]
             b == g[k]
  <2>1a. k + 1 \in 1..n /\ (k + 1) - 1 = k /\ k <= n
    BY <1>1
  <2>1b. k <= n => Alike(k)
    BY <1>7
  <2>1. k + 1 \in 1..n /\ (k + 1) - 1 = k /\ Alike(k)
    BY <2>1a, <2>1b
  <2>2. f[k + 1] = NextDates(p, a, k + 1) /\ g[k + 1] = NextDates(q, b, k + 1)
    BY <1>4, <1>5, <2>1 DEF Rounds
  <2>3. DOMAIN a = DOMAIN b /\ \A id \in DOMAIN a \ moved : a[id] = b[id]
    BY <2>1
  <2> HIDE DEF a, b
  <2>4. Ready(p, a) = Ready(q, b)
    BY <2>3 DEF Ready
  <2>5. DOMAIN f[k + 1] = Ready(p, a) /\ DOMAIN g[k + 1] = Ready(p, a)
    BY <2>2, <2>4 DEF NextDates
  <2>6. ASSUME NEW id \in Ready(p, a) \ moved PROVE f[k + 1][id] = g[k + 1][id]
    <3>1. f[k + 1][id] = IF id \in DOMAIN a THEN a[id] ELSE Dates(p, a, id)
      BY <2>2 DEF NextDates
    <3>2. g[k + 1][id] = IF id \in DOMAIN b THEN b[id] ELSE Dates(q, b, id)
      BY <2>2, <2>4 DEF NextDates
    <3>3. \A r \in p.relationships : r.succ = id => a[r.pred] = b[r.pred]
      <4>1. \A r \in p.relationships : r.succ = id => r.pred \in DOMAIN a /\ r.pred \notin moved
        BY <2>6 DEF Ready
      <4> QED BY <2>3, <4>1
    <3>4. p.activities[id] = q.activities[id]
      BY <2>6 DEF Ready
    <3>5. Dates(p, a, id) = Dates(q, b, id)
      BY <3>3, <3>4, DatesAlike
    <3> QED BY <2>3, <2>6, <3>1, <3>2, <3>5
  <2> QED BY <2>5, <2>6
<1> HIDE DEF S
<1>8. n \in S
  BY <1>1, <1>6, <1>7, Reading!EveryNatural
<1>9. Alike(n)
  BY <1>8 DEF S
<1> QED BY <1>4, <1>5, <1>9

----------------------------------------------------------------------------
(* What follows an activity.                                                 *)

Linked(links, S) == S \union {r.succ : r \in {s \in links : s.pred \in S}}
Edges(links) == {<<r.pred, r.succ>> : r \in links}

(* A link is an edge.                                                        *)
LEMMA LinksAreEdges ==
    ASSUME NEW links, NEW S
    PROVE  Linked(links, S) = Onward(Edges(links), S)
<1> DEFINE A == {r.succ : r \in {s \in links : s.pred \in S}}
           edges == Edges(links)
           B == {e[2] : e \in {d \in edges : d[1] \in S}}
<1>1. A \subseteq B
  <2> SUFFICES ASSUME NEW r \in links, r.pred \in S PROVE r.succ \in B
    OBVIOUS
  <2> DEFINE e == <<r.pred, r.succ>>
  <2>1. e \in edges /\ e[1] = r.pred /\ e[2] = r.succ
    BY DEF Edges
  <2> HIDE DEF e, edges
  <2> QED BY <2>1
<1>2. B \subseteq A
  BY DEF Edges
<1> QED BY <1>1, <1>2 DEF Linked, Onward

From(c) == c.from
AlongLinks(c, before, n) ==
    before \union {r.succ : r \in {s \in c.links : s.pred \in before}}
Reaching == INSTANCE Recursion WITH
    First <- From, Following <- AlongLinks, Claim <- NothingClaimed

(* What a projection leads to from an activity follows it in the document.   *)
LEMMA ReachedFollows ==
    ASSUME NEW doc, IsFiniteSet(doc.activities),
           NEW p, DOMAIN p.activities \subseteq Ids(doc.activities),
           NEW id \in DOMAIN p.activities,
           \A r \in p.relationships :
              /\ r.succ \in DOMAIN p.activities
              /\ \E s \in doc.relationships : s.pred = r.pred /\ s.succ = r.succ
    PROVE  \E G : /\ id \in G
                  /\ \A r \in p.relationships : r.pred \in G => r.succ \in G
                  /\ \A x \in G : Follows(doc, id, x)
<1> DEFINE n == Cardinality(doc.activities)
           c == [from |-> {id}, links |-> doc.relationships]
           d == [from |-> {id}, links |-> p.relationships]
           f == CHOOSE g : g = [k \in 0..n |->
                    IF k = 0 THEN {id}
                    ELSE g[k - 1] \union {r.succ : r \in {s \in doc.relationships : s.pred \in g[k - 1]}}]
           h == CHOOSE g : Reaching!Recursive(d, n, g)
           U == DOMAIN p.activities
<1>1. IsFiniteSet(U) /\ Cardinality(U) <= n /\ n \in Nat
  <2> DEFINE of == [item \in doc.activities |-> item.id]
             D == doc.activities
             V == Ids(doc.activities)
  <2>1. V = {of[item] : item \in D}
    BY DEF Ids
  <2>2. U \in SUBSET V
    OBVIOUS
  <2> HIDE DEF of, D, U, V
  <2>3. IsFiniteSet(V) /\ Cardinality(V) <= Cardinality(D) /\ Cardinality(D) \in Nat
    BY <2>1, ImageSize DEF D
  <2>4. IsFiniteSet(U) /\ Cardinality(U) <= Cardinality(V)
    BY <2>2, <2>3, FS_Subset
  <2>5. Cardinality(U) \in Nat /\ Cardinality(V) \in Nat
    BY <2>3, <2>4, FS_CardinalityType
  <2> QED BY <2>3, <2>4, <2>5 DEF D
<1>2. f = CHOOSE g : Reaching!Recursive(c, n, g)
  BY DEF Reaching!Recursive, From, AlongLinks
<1>3. \A x : Follows(doc, id, x) <=> x \in f[n]
  BY DEF Follows
<1> HIDE DEF f, h, n
<1>4. f[0] = From(c) /\ \A k \in 1..n : f[k] = AlongLinks(c, f[k - 1], k)
  <2> HIDE DEF c
  <2> QED BY <1>1, <1>2, Reaching!RecursiveDefinition
<1>5. h[0] = From(d) /\ \A k \in 1..n : h[k] = AlongLinks(d, h[k - 1], k)
  <2> HIDE DEF d
  <2> QED BY <1>1, Reaching!RecursiveDefinition DEF h
<1>6. f[0] = {id} /\ \A k \in 1..n : f[k] = Linked(doc.relationships, f[k - 1])
  BY <1>4 DEF From, AlongLinks, Linked
<1>7. h[0] = {id} /\ \A k \in 1..n : h[k] = Linked(p.relationships, h[k - 1])
  BY <1>5 DEF From, AlongLinks, Linked
<1> DEFINE S == {k \in Nat : k <= n => h[k] \subseteq f[k]}
<1>8. 0 \in S
  BY <1>6, <1>7
<1>9. ASSUME NEW k \in Nat, k \in S PROVE k + 1 \in S
  <2> SUFFICES ASSUME k + 1 <= n PROVE h[k + 1] \subseteq f[k + 1]
    OBVIOUS
  <2>1. k + 1 \in 1..n /\ (k + 1) - 1 = k /\ k <= n
    BY <1>1
  <2>2. h[k] \subseteq f[k]
    BY <1>9, <2>1
  <2>3. h[k + 1] = Linked(p.relationships, h[k]) /\ f[k + 1] = Linked(doc.relationships, f[k])
    BY <1>6, <1>7, <2>1
  <2> QED BY <2>2, <2>3 DEF Linked
<1> HIDE DEF S
<1>10. h[n] \subseteq f[n]
  <2>1. n \in S
    BY <1>1, <1>8, <1>9, Reading!EveryNatural
  <2> QED BY <1>1, <2>1 DEF S
<1>11. h[0] \subseteq h[n] /\ Closed(Edges(p.relationships), h[n])
  <2> DEFINE edges == Edges(p.relationships)
  <2>1. \A e \in edges : e[2] \in U
    BY DEF Edges
  <2>2. \A k \in 1..n : h[k] = Onward(edges, h[k - 1])
    BY <1>7, LinksAreEdges
  <2>3. h[0] \subseteq U
    BY <1>7
  <2> HIDE DEF edges, U
  <2>4. h[n] \subseteq U /\ h[0] \subseteq h[n] /\ Closed(edges, h[n])
    BY <1>1, <2>1, <2>2, <2>3, OnwardSettles
  <2> QED BY <2>4 DEF edges
<1>12. ASSUME NEW r \in p.relationships, r.pred \in h[n] PROVE r.succ \in h[n]
  <2> DEFINE e == <<r.pred, r.succ>>
  <2>1. e \in Edges(p.relationships) /\ e[1] = r.pred /\ e[2] = r.succ
    BY DEF Edges
  <2> HIDE DEF e
  <2> QED BY <1>11, <1>12, <2>1 DEF Closed
<1> QED BY <1>3, <1>7, <1>10, <1>11, <1>12

After(c) == Following(c.p, c.id)
AndAfter(c, before, n) == before \union UNION {Following(c.p, x) : x \in before}
Flowing == INSTANCE Recursion WITH
    First <- After, Following <- AndAfter, Claim <- NothingClaimed

(* What is downstream of an activity is all that links lead to from it.      *)
LEMMA DownstreamOf ==
    ASSUME NEW c, IsFiniteSet(DOMAIN c.p.activities),
           \A r \in c.p.relationships : r.succ \in DOMAIN c.p.activities
    PROVE  /\ IsFiniteSet(Downstream(c.p, c.id))
           /\ \A r \in c.p.relationships :
                 r.pred \in {c.id} \union Downstream(c.p, c.id) => r.succ \in Downstream(c.p, c.id)
<1> DEFINE p == c.p
           id == c.id
           n == Cardinality(DOMAIN p.activities)
           U == DOMAIN p.activities
           edges == Edges(p.relationships)
           f == CHOOSE g : g = [k \in 0..n |->
                    IF k = 0 THEN Following(p, id)
                    ELSE g[k - 1] \union UNION {Following(p, x) : x \in g[k - 1]}]
<1>1. n \in Nat
  BY FS_CardinalityType
<1>2. f = CHOOSE g : Flowing!Recursive(c, n, g)
  BY DEF Flowing!Recursive, After, AndAfter
<1>3. Downstream(p, id) = f[n]
  BY DEF Downstream
<1> HIDE DEF f
<1>4. f[0] = After(c) /\ \A k \in 1..n : f[k] = AndAfter(c, f[k - 1], k)
  <2> HIDE DEF n
  <2> QED BY <1>1, <1>2, Flowing!RecursiveDefinition
<1>5. \A S, k : AndAfter(c, S, k) = Onward(edges, S)
  <2> SUFFICES ASSUME NEW S, NEW k PROVE AndAfter(c, S, k) = Onward(edges, S)
    OBVIOUS
  <2>1. AndAfter(c, S, k) = Linked(p.relationships, S)
    BY DEF AndAfter, Linked, Following
  <2> QED BY <2>1, LinksAreEdges
<1>6. \A k \in 1..n : f[k] = Onward(edges, f[k - 1])
  BY <1>4, <1>5
<1>7. f[0] \subseteq U /\ \A e \in edges : e[2] \in U
  BY <1>4 DEF After, Following, Edges
<1>8. \A r \in p.relationships : r.pred = id => r.succ \in f[0]
  BY <1>4 DEF After, Following
<1> HIDE DEF edges, U
<1>9. f[n] \subseteq U /\ f[0] \subseteq f[n] /\ Closed(edges, f[n])
  <2>1. IsFiniteSet(U) /\ Cardinality(U) <= n
    BY <1>1 DEF U
  <2> HIDE DEF n
  <2> QED BY <1>1, <1>6, <1>7, <2>1, OnwardSettles
<1>10. ASSUME NEW r \in p.relationships, r.pred \in f[n] PROVE r.succ \in f[n]
  <2> DEFINE e == <<r.pred, r.succ>>
  <2>1. e \in edges /\ e[1] = r.pred /\ e[2] = r.succ
    BY DEF edges, Edges
  <2> HIDE DEF e
  <2> QED BY <1>9, <1>10, <2>1 DEF Closed
<1>11. IsFiniteSet(f[n])
  <2> DEFINE A == f[n]
  <2>1. IsFiniteSet(U) /\ A \in SUBSET U
    BY <1>9 DEF U
  <2> HIDE DEF A
  <2>2. IsFiniteSet(A)
    BY ONLY <2>1, FS_Subset
  <2> QED BY <2>2 DEF A
<1> QED BY <1>3, <1>8, <1>9, <1>10, <1>11

(* The same of a projection and one of its activities.                       *)
LEMMA DownstreamIsClosed ==
    ASSUME NEW p, IsFiniteSet(DOMAIN p.activities), NEW id,
           \A r \in p.relationships : r.succ \in DOMAIN p.activities
    PROVE  /\ IsFiniteSet(Downstream(p, id))
           /\ \A r \in p.relationships :
                 r.pred \in {id} \union Downstream(p, id) => r.succ \in Downstream(p, id)
<1> DEFINE c == [p |-> p, id |-> id]
<1>1. c.p = p /\ c.id = id
  OBVIOUS
<1> HIDE DEF c
<1> QED BY <1>1, DownstreamOf

----------------------------------------------------------------------------
(* The projection of a profile.                                              *)

(* What is used of the projection of an imported document.                   *)
ProjectedOK(doc, profile, p) ==
    /\ ProjectionOK(p) /\ DOMAIN p.activities = profile.eligible
    /\ \A r \in p.relationships :
          /\ {r.pred, r.succ} \subseteq profile.eligible
          /\ \E s \in doc.relationships : s.pred = r.pred /\ s.succ = r.succ
    /\ \A r \in doc.relationships :
          r.succ \in profile.eligible =>
             r.type = "FS" /\ [pred |-> r.pred, succ |-> r.succ, lag |-> r.lag] \in p.relationships

(* The projection of a profile of an imported document is such.              *)
LEMMA ProjectionIsOK ==
    ASSUME NEW doc, DocumentOK(doc), ~NoHorizon(doc), NEW profile, ProfileOK(doc, profile)
    PROVE  ProjectedOK(doc, profile, EngineProjection(doc, profile))
<1> DEFINE p == EngineProjection(doc, profile)
           of == [r \in profile.relationships |-> [pred |-> r.pred, succ |-> r.succ, lag |-> r.lag]]
<1>1. /\ p.start = doc.project.start
      /\ DOMAIN p.activities = profile.eligible
      /\ p.relationships = {[pred |-> r.pred, succ |-> r.succ, lag |-> r.lag] :
                               r \in profile.relationships}
  BY DEF EngineProjection
<1> HIDE DEF p
<1>2. p.start \in Int
  BY <1>1 DEF NoHorizon, DocumentOK, Known
<1>3. IsFiniteSet(DOMAIN p.activities)
  <2> DEFINE id == [item \in doc.activities |-> item.id]
             D == doc.activities
             V == Ids(doc.activities)
             E == profile.eligible
  <2>1. V = {id[item] : item \in D}
    BY DEF Ids
  <2>2. E \in SUBSET V /\ IsFiniteSet(D)
    BY DEF ProfileOK, DocumentOK
  <2> HIDE DEF id, D, V, E
  <2>3. IsFiniteSet(V)
    BY <2>1, <2>2, FiniteImage
  <2>4. IsFiniteSet(E)
    BY ONLY <2>2, <2>3, FS_Subset
  <2> QED BY <1>1, <2>4 DEF E
<1>4. IsFiniteSet(p.relationships)
  <2> DEFINE R == profile.relationships
             D == doc.relationships
  <2>1. R \in SUBSET D /\ IsFiniteSet(D)
    BY DEF ProfileOK, DocumentOK
  <2>2. p.relationships = {of[r] : r \in R}
    BY <1>1
  <2> HIDE DEF R, D, of
  <2>3. IsFiniteSet(R)
    BY ONLY <2>1, FS_Subset
  <2> QED BY <2>2, <2>3, FiniteImage
<1>5. ASSUME NEW r \in p.relationships
      PROVE  /\ {r.pred, r.succ} \subseteq profile.eligible /\ r.lag \in Int
             /\ \E s \in doc.relationships : s.pred = r.pred /\ s.succ = r.succ
  <2>1. PICK s \in profile.relationships : r = [pred |-> s.pred, succ |-> s.succ, lag |-> s.lag]
    BY <1>1
  <2>2. r.pred = s.pred /\ r.succ = s.succ /\ r.lag = s.lag
    BY <2>1
  <2> QED BY <2>2 DEF ProfileOK
<1>6. ASSUME NEW r \in doc.relationships, r.succ \in profile.eligible
      PROVE  r.type = "FS" /\ [pred |-> r.pred, succ |-> r.succ, lag |-> r.lag] \in p.relationships
  <2>1. r.type = "FS" /\ r \in profile.relationships
    BY <1>6 DEF ProfileOK
  <2> QED BY <1>1, <2>1
<1>7. ProjectionOK(p)
  BY <1>2, <1>3, <1>4, <1>5 DEF ProjectionOK
<1>8. ProjectedOK(doc, profile, p)
  BY <1>1, <1>5, <1>6, <1>7 DEF ProjectedOK
<1> QED BY <1>8 DEF p

(* A candidate differs from the projection in one duration.                  *)
DiffersAt(p, q, id, duration) ==
    /\ q.start = p.start /\ q.relationships = p.relationships
    /\ DOMAIN q.activities = DOMAIN p.activities
    /\ \A x \in DOMAIN p.activities : x # id => q.activities[x] = p.activities[x]
    /\ q.activities[id].duration = duration

(* It is what set_duration calculates.                                       *)
LEMMA CandidateDiffers ==
    ASSUME NEW s, NEW doc, NEW profile, s.projection = EngineProjection(doc, profile),
           NEW id \in profile.eligible, NEW duration
    PROVE  DiffersAt(s.projection, CandidateProjection(s, id, duration), id, duration)
<1> DEFINE p == s.projection
           q == CandidateProjection(s, id, duration)
           a == p.activities
<1>1. DOMAIN p = {"start", "activities", "relationships"} /\ DOMAIN a = profile.eligible
  BY DEF EngineProjection
<1>2. DOMAIN a[id] = {"order", "duration", "milestone", "pattern"}
  BY DEF EngineProjection
<1>3. q = [p EXCEPT !.activities[id].duration = duration]
  BY DEF CandidateProjection
<1> HIDE DEF p, q
<1>4. /\ q.start = p.start /\ q.relationships = p.relationships
      /\ q.activities = [a EXCEPT ![id] = [a[id] EXCEPT !.duration = duration]]
  BY <1>1, <1>3
<1> HIDE DEF a
<1>5. /\ DOMAIN q.activities = DOMAIN a
      /\ \A x \in DOMAIN a : x # id => q.activities[x] = a[x]
      /\ q.activities[id] = [a[id] EXCEPT !.duration = duration]
  BY <1>1, <1>4
<1>6. q.activities[id].duration = duration
  BY <1>2, <1>5
<1>7. DiffersAt(p, q, id, duration)
  BY <1>4, <1>5, <1>6 DEF DiffersAt, a
<1> QED BY <1>7 DEF p, q

----------------------------------------------------------------------------
(* A session.                                                                *)

SessionShape(s) ==
    s = [number |-> s.number, workspace |-> s.workspace, doc |-> s.doc, profile |-> s.profile,
         projection |-> s.projection, base |-> s.base,
         currentProjection |-> s.currentProjection, current |-> s.current,
         override |-> s.override, revision |-> s.revision]

ScenarioOK(s) ==
    IF s.override = None THEN s.currentProjection = s.projection
    ELSE /\ s.override.activity \in s.profile.eligible
         /\ s.currentProjection =
               CandidateProjection(s, s.override.activity, s.override.duration)
         /\ SafeHorizonViolations(s, s.current) = {}

SessionOK(s) ==
    /\ SessionShape(s) /\ s.number \in Nat /\ s.revision \in Nat
    /\ DocumentOK(s.doc) /\ ~NoHorizon(s.doc) /\ ProfileOK(s.doc, s.profile)
    /\ s.projection = EngineProjection(s.doc, s.profile)
    /\ s.base = ForwardSchedule(s.projection) /\ s.base # None
    /\ s.current = ForwardSchedule(s.currentProjection) /\ s.current # None
    /\ ScenarioOK(s)

(* What an import builds is such a session, with nothing overridden.         *)
LEMMA BuiltIsOK ==
    ASSUME NEW file \in Files, NEW number \in Nat,
           "code" \notin DOMAIN FromMspdi(file, number)
    PROVE  /\ SessionOK(FromMspdi(file, number))
           /\ FromMspdi(file, number).number = number
<1> DEFINE doc == ImportMspdi(file)
           profile == CalculationProfile(doc)
           base == ForwardSchedule(EngineProjection(doc, profile))
           s == FromMspdi(file, number)
<1>1. doc # None /\ profile # None /\ base # None
  BY DEF FromMspdi, Unsuccessful
<1>2. s = Opened(doc, profile, base, number)
  BY <1>1 DEF FromMspdi
<1>3. DocumentOK(doc)
  BY <1>1, ImportedDocument
<1> HIDE DEF s, doc
<1>4. ProfileOK(doc, profile) /\ ~NoHorizon(doc)
  BY <1>1, <1>3, ProfileIsOK
<1> HIDE DEF profile
<1>5. /\ SessionShape(s) /\ s.number = number /\ s.revision = 0 /\ s.doc = doc
      /\ s.profile = profile /\ s.projection = EngineProjection(doc, profile)
      /\ s.base = base /\ s.current = base /\ s.currentProjection = s.projection
      /\ s.override = None
  <2> HIDE DEF base
  <2> QED BY <1>2 DEF Opened, SessionShape
<1>6. SessionOK(s)
  BY <1>1, <1>3, <1>4, <1>5 DEF SessionOK, ScenarioOK
<1> QED BY <1>5, <1>6 DEF s

(* An accepted override makes such a session of one.                         *)
LEMMA OverriddenIsOK ==
    ASSUME NEW s, SessionOK(s), NEW id, NEW duration \in Int,
           None \notin [activity : {id}, duration : Int, original : Int],
           EditCode(s, id, duration) = "OK"
    PROVE  LET t == Overridden(s, id, duration)
           IN SessionOK(t) /\ t.number = s.number /\ t.revision = s.revision + 1
<1> DEFINE t == Overridden(s, id, duration)
           candidate == CandidateProjection(s, id, duration)
           dates == ForwardSchedule(candidate)
           override == [activity |-> id, duration |-> duration,
                        original |-> s.projection.activities[id].duration]
<1>1. id \in s.profile.eligible /\ dates # None /\ SafeHorizonViolations(s, dates) = {}
  <2> DEFINE last == IF dates = None THEN "SCENARIO_CALCULATION_FAILED"
                     ELSE IF SafeHorizonViolations(s, dates) # {}
                          THEN "SCENARIO_OUTSIDE_SAFE_HORIZON" ELSE "OK"
  <2>3. id \in s.profile.eligible /\ last = "OK"
    <3>1. EditCode(s, id, duration) =
             IF duration <= 0 THEN "DURATION_INVALID"
             ELSE IF id \in Ids(s.doc.wbs) THEN "SUMMARY_TASK_UNSUPPORTED"
             ELSE IF id \notin Ids(s.doc.activities) THEN "ACTIVITY_NOT_FOUND"
             ELSE IF id \notin s.profile.eligible THEN "ACTIVITY_INELIGIBLE"
             ELSE IF s.projection.activities[id].milestone THEN "MILESTONE_UNSUPPORTED"
             ELSE last
      BY DEF EditCode
    <3> HIDE DEF last
    <3> QED BY <3>1
  <2> HIDE DEF dates
  <2> QED BY <2>3
<1>2. override # None
  <2>1. s.projection.activities[id].duration = Activity(s.doc, id).duration
    BY <1>1 DEF SessionOK, EngineProjection
  <2>2. s.projection.activities[id].duration \in Int
    BY <1>1, <2>1 DEF SessionOK, ProfileOK
  <2>3. override \in [activity : {id}, duration : Int, original : Int]
    BY <2>2
  <2> HIDE DEF override
  <2> QED BY <2>3
<1>3. t = [s EXCEPT !.currentProjection = candidate, !.current = dates,
                    !.override = override, !.revision = @ + 1]
  BY DEF Overridden
<1> HIDE DEF t, candidate, dates, override
<1>4. /\ SessionShape(t) /\ t.number = s.number /\ t.revision = s.revision + 1 /\ t.doc = s.doc
      /\ t.profile = s.profile /\ t.projection = s.projection /\ t.base = s.base
      /\ t.currentProjection = candidate /\ t.current = dates /\ t.override = override
  BY <1>3 DEF SessionOK, SessionShape
<1>5. override.activity = id /\ override.duration = duration
  BY DEF override
<1>6. candidate = CandidateProjection(t, id, duration)
  BY <1>4 DEF CandidateProjection, candidate
<1>7. SafeHorizonViolations(t, dates) = {}
  BY <1>1, <1>4 DEF SafeHorizonViolations, Moved
<1>8. ScenarioOK(t)
  BY <1>1, <1>2, <1>4, <1>5, <1>6, <1>7 DEF ScenarioOK
<1>9. SessionOK(t)
  BY <1>1, <1>4, <1>8 DEF SessionOK, dates
<1> QED BY <1>4, <1>9 DEF t

(* So does a reset.                                                          *)
LEMMA ResetIsOK ==
    ASSUME NEW s, SessionOK(s)
    PROVE  LET t == ResetScenario(s)
           IN /\ SessionOK(t) /\ t.number = s.number
              /\ t = s \/ t.revision = s.revision + 1
<1> DEFINE t == ResetScenario(s)
<1>1. CASE s.override = None
  BY <1>1 DEF ResetScenario
<1>2. CASE s.override # None
  <2>1. t = [s EXCEPT !.currentProjection = s.projection, !.current = s.base,
                      !.override = None, !.revision = @ + 1]
    BY <1>2 DEF ResetScenario
  <2> HIDE DEF t
  <2>2. /\ SessionShape(t) /\ t.number = s.number /\ t.revision = s.revision + 1 /\ t.doc = s.doc
        /\ t.profile = s.profile /\ t.projection = s.projection /\ t.base = s.base
        /\ t.currentProjection = s.projection /\ t.current = s.base /\ t.override = None
    BY <2>1 DEF SessionOK, SessionShape
  <2>3. SessionOK(t)
    BY <2>2 DEF SessionOK, ScenarioOK
  <2> QED BY <2>2, <2>3 DEF t
<1> QED BY <1>1, <1>2

----------------------------------------------------------------------------
(* What holds of every session.                                              *)

(* The current projection is the import's, but for the overridden duration.  *)
CurrentlyOK(s) ==
    /\ ProjectedOK(s.doc, s.profile, s.currentProjection)
    /\ s.override # None =>
          /\ s.override.activity \in s.profile.eligible
          /\ DiffersAt(s.projection, s.currentProjection, s.override.activity, s.override.duration)

(* So it is of every session.                                                *)
LEMMA CurrentIsOK ==
    ASSUME NEW s, SessionOK(s)
    PROVE  CurrentlyOK(s) /\ ProjectedOK(s.doc, s.profile, s.projection)
<1>1. ProjectedOK(s.doc, s.profile, s.projection)
  BY ProjectionIsOK DEF SessionOK
<1>2. CASE s.override = None
  BY <1>1, <1>2 DEF SessionOK, ScenarioOK, CurrentlyOK
<1>3. CASE s.override # None
  <2> DEFINE id == s.override.activity
             duration == s.override.duration
  <2>1. id \in s.profile.eligible /\ s.currentProjection = CandidateProjection(s, id, duration)
        /\ s.projection = EngineProjection(s.doc, s.profile)
    BY <1>3 DEF SessionOK, ScenarioOK
  <2>2. DiffersAt(s.projection, s.currentProjection, id, duration)
    <3> HIDE DEF id, duration
    <3> QED BY <2>1, CandidateDiffers
  <2>3. ProjectedOK(s.doc, s.profile, s.currentProjection)
    BY <1>1, <2>2 DEF DiffersAt, ProjectedOK, ProjectionOK
  <2> QED BY <1>1, <2>1, <2>2, <2>3 DEF CurrentlyOK
<1> QED BY <1>1, <1>2, <1>3

(* The schedules of a session date its eligible activities.                  *)
LEMMA CurrentDates ==
    ASSUME NEW s, SessionOK(s)
    PROVE  /\ DOMAIN s.current = s.profile.eligible
           /\ \A id \in s.profile.eligible : s.current[id].start \in Int /\ s.current[id].finish \in Int
           /\ \A r \in s.currentProjection.relationships :
                 s.current[r.succ].start >= s.current[r.pred].finish + r.lag
<1> DEFINE p == s.currentProjection
<1>1. ProjectionOK(p) /\ DOMAIN p.activities = s.profile.eligible
      /\ \A r \in p.relationships : r.succ \in s.profile.eligible
  BY CurrentIsOK DEF CurrentlyOK, ProjectedOK
<1>2. s.current = ForwardSchedule(p) /\ ForwardSchedule(p) # None
  BY DEF SessionOK
<1> HIDE DEF p
<1>3. /\ DOMAIN s.current = DOMAIN p.activities
      /\ \A id \in DOMAIN s.current : s.current[id].start \in Int /\ s.current[id].finish \in Int
      /\ \A r \in p.relationships :
            r.succ \in DOMAIN s.current =>
               r.pred \in DOMAIN s.current /\ s.current[r.succ].start >= s.current[r.pred].finish + r.lag
  BY <1>1, <1>2, ScheduleFacts
<1> QED BY <1>1, <1>3 DEF p

(* What moves is in every set that the links out of it stay in.              *)
LEMMA MovedIsReached ==
    ASSUME NEW s, SessionOK(s), s.override # None, NEW reached, s.override.activity \in reached,
           \A r \in s.projection.relationships : r.pred \in reached => r.succ \in reached
    PROVE  Moved(s, s.current) \subseteq reached
<1> DEFINE p == s.projection
           q == s.currentProjection
<1>1. DiffersAt(p, q, s.override.activity, s.override.duration)
  BY CurrentIsOK DEF CurrentlyOK
<1>2. IsFiniteSet(DOMAIN p.activities) /\ DOMAIN p.activities = s.profile.eligible
  BY CurrentIsOK DEF ProjectedOK, ProjectionOK
<1>3. /\ s.base = ForwardSchedule(p) /\ ForwardSchedule(p) # None
      /\ s.current = ForwardSchedule(q) /\ ForwardSchedule(q) # None
  BY DEF SessionOK
<1>4. /\ p.start = q.start /\ p.relationships = q.relationships
      /\ DOMAIN p.activities = DOMAIN q.activities
      /\ \A id \in DOMAIN p.activities \ reached : p.activities[id] = q.activities[id]
  BY <1>1 DEF DiffersAt
<1>5. \A r \in p.relationships : r.pred \in reached => r.succ \in reached
  OBVIOUS
<1> HIDE DEF p, q
<1>6. \A id \in DOMAIN p.activities \ reached : ForwardSchedule(p)[id] = ForwardSchedule(q)[id]
  BY <1>2, <1>3, <1>4, <1>5, DatesElsewhere
<1>7. DOMAIN s.current = DOMAIN p.activities
  BY <1>2, CurrentDates
<1> QED BY <1>3, <1>6, <1>7 DEF Moved

(* Nothing moves without an override, for then the schedule is the base.     *)
LEMMA NothingMoves ==
    ASSUME NEW s, SessionOK(s), s.override = None
    PROVE  Moved(s, s.current) = {}
BY DEF SessionOK, ScenarioOK, Moved

(* A session holds one override of the import.                               *)
LEMMA OneOverride ==
    ASSUME NEW s, SessionOK(s)
    PROVE  /\ s.current = ForwardSchedule(s.currentProjection)
           /\ \A id \in s.profile.eligible :
                 s.currentProjection.activities[id].duration =
                    IF s.override # None /\ s.override.activity = id
                    THEN s.override.duration ELSE Activity(s.doc, id).duration
<1>1. \A id \in s.profile.eligible :
         s.projection.activities[id].duration = Activity(s.doc, id).duration
  BY DEF SessionOK, EngineProjection
<1>2. CASE s.override = None
  BY <1>1, <1>2 DEF SessionOK, ScenarioOK
<1>3. CASE s.override # None
  <2>1. DiffersAt(s.projection, s.currentProjection, s.override.activity, s.override.duration)
        /\ DOMAIN s.projection.activities = s.profile.eligible
    BY <1>3, CurrentIsOK DEF CurrentlyOK, ProjectedOK
  <2> QED BY <1>1, <1>3, <2>1 DEF DiffersAt, SessionOK
<1> QED BY <1>2, <1>3 DEF SessionOK

(* What a scenario moves follows the overridden activity in the document and *)
(* is no more than the page counts.                                          *)
LEMMA MovesFollow ==
    ASSUME NEW s, SessionOK(s), s.override # None
    PROVE  LET moved == Moved(s, s.current)
           IN /\ \A id \in moved : Follows(s.doc, s.override.activity, id)
              /\ Cardinality(moved \ {s.override.activity})
                    <= DownstreamCount(s, s.override.activity)
<1> DEFINE moved == Moved(s, s.current)
           a == s.override.activity
           p == s.projection
           down == Downstream(p, a)
<1>1. ProjectedOK(s.doc, s.profile, p) /\ a \in s.profile.eligible
  BY CurrentIsOK DEF CurrentlyOK
<1>2. IsFiniteSet(s.doc.activities) /\ s.profile.eligible \subseteq Ids(s.doc.activities)
  BY DEF SessionOK, DocumentOK, ProfileOK
<1>3. /\ DOMAIN p.activities = s.profile.eligible /\ IsFiniteSet(DOMAIN p.activities)
      /\ \A r \in p.relationships :
            /\ r.succ \in DOMAIN p.activities
            /\ \E x \in s.doc.relationships : x.pred = r.pred /\ x.succ = r.succ
  BY <1>1 DEF ProjectedOK, ProjectionOK
<1> HIDE DEF p, a
<1>4. \A id \in moved : Follows(s.doc, a, id)
  <2>1. \E G : /\ a \in G
               /\ \A r \in p.relationships : r.pred \in G => r.succ \in G
               /\ \A x \in G : Follows(s.doc, a, x)
    <3> DEFINE doc == s.doc
    <3>1. /\ IsFiniteSet(doc.activities) /\ DOMAIN p.activities \subseteq Ids(doc.activities)
          /\ a \in DOMAIN p.activities
          /\ \A r \in p.relationships :
                /\ r.succ \in DOMAIN p.activities
                /\ \E x \in doc.relationships : x.pred = r.pred /\ x.succ = r.succ
      BY <1>1, <1>2, <1>3
    <3> HIDE DEF doc
    <3>2. \E G : /\ a \in G
                 /\ \A r \in p.relationships : r.pred \in G => r.succ \in G
                 /\ \A x \in G : Follows(doc, a, x)
      BY <3>1, ReachedFollows
    <3> QED BY <3>2 DEF doc
  <2>2. PICK G : /\ a \in G
                 /\ \A r \in p.relationships : r.pred \in G => r.succ \in G
                 /\ \A x \in G : Follows(s.doc, a, x)
    BY <2>1
  <2>3. moved \subseteq G
    BY <2>2, MovedIsReached DEF a, p
  <2> QED BY <2>2, <2>3
<1>5. IsFiniteSet(down)
      /\ \A r \in p.relationships : r.pred \in {a} \union down => r.succ \in down
  BY <1>3, DownstreamIsClosed
<1> HIDE DEF down
<1>6. moved \subseteq {a} \union down
  <2> DEFINE reached == {a} \union down
  <2>1. a \in reached /\ \A r \in p.relationships : r.pred \in reached => r.succ \in reached
    BY <1>5
  <2> HIDE DEF reached
  <2>2. moved \subseteq reached
    BY <2>1, MovedIsReached DEF a, p
  <2> QED BY <2>2 DEF reached
<1>7. Cardinality(moved \ {a}) <= Cardinality(down)
  <2> DEFINE rest == moved \ {a}
  <2>1. rest \in SUBSET down
    BY <1>6
  <2> HIDE DEF rest
  <2>2. Cardinality(rest) <= Cardinality(down)
    BY ONLY <1>5, <2>1, FS_Subset
  <2> QED BY <2>2 DEF rest
<1> QED BY <1>4, <1>7 DEF a, p, down, DownstreamCount

(* The dates keep every link of the document into a calculated activity.     *)
LEMMA LinksKept ==
    ASSUME NEW s, SessionOK(s), NEW r \in s.doc.relationships, r.succ \in DOMAIN s.current
    PROVE  /\ r.type = "FS" /\ r.pred \in DOMAIN s.current
           /\ s.current[r.succ].start >= s.current[r.pred].finish + r.lag
<1> DEFINE q == [pred |-> r.pred, succ |-> r.succ, lag |-> r.lag]
<1>1. r.succ \in s.profile.eligible /\ DOMAIN s.current = s.profile.eligible
  BY CurrentDates
<1>2. /\ r.type = "FS" /\ q \in s.currentProjection.relationships
      /\ \A x \in s.currentProjection.relationships : {x.pred, x.succ} \subseteq s.profile.eligible
  BY <1>1, CurrentIsOK DEF CurrentlyOK, ProjectedOK
<1>3. q.pred = r.pred /\ q.succ = r.succ /\ q.lag = r.lag
  OBVIOUS
<1> HIDE DEF q
<1>4. s.current[q.succ].start >= s.current[q.pred].finish + q.lag
  BY <1>2, CurrentDates
<1> QED BY <1>1, <1>2, <1>3, <1>4

(* What moves keeps clear of the exceptions its calendar leaves out.         *)
LEMMA MovesClear ==
    ASSUME NEW s, SessionOK(s), NEW id \in Moved(s, s.current)
    PROVE  Clear(s.doc, s.current[id], s.profile.effective[id].lineage)
<1> DEFINE c == s.profile.effective[id]
           dates == s.current[id]
           horizon == Horizon(s.doc)
<1>1. s.override # None
  BY NothingMoves
<1>2. SafeHorizonViolations(s, s.current) = {}
  BY <1>1 DEF SessionOK, ScenarioOK
<1>3. id \in s.profile.eligible
  BY CurrentDates DEF Moved
<1>4. CalendarOK(s.doc, c)
  BY <1>3 DEF SessionOK, ProfileOK
<1>5. dates.start \in Int /\ dates.finish \in Int
  BY <1>3, CurrentDates
<1>6. horizon.start \in Int /\ horizon.finish \in Int
  BY HorizonIsDated DEF SessionOK
<1>7. c.ignored > 0 => ~(dates.start < horizon.start) /\ ~(dates.finish > horizon.finish)
  BY <1>2 DEF SafeHorizonViolations
<1> HIDE DEF c, dates, horizon
<1>8. ASSUME NEW source \in ToSet(s.doc.calendars), source.uid \in c.lineage,
             NEW range \in Dated(source)
      PROVE  dates.finish < range.from \/ dates.start > range.to
  <2>1. ~RangeRefused(range, horizon) /\ c.ignored > 0
    <3>1. c.ignored \in Nat /\ c.ignored # 0
      BY <1>4, <1>8 DEF CalendarOK
    <3>2. ~RangeRefused(range, horizon)
      BY <1>4, <1>8 DEF CalendarOK, horizon
    <3> QED BY <3>1, <3>2
  <2>2. Known({range.from, range.to})
    BY <1>8 DEF SessionOK, DocumentOK, DatesKnown
  <2>3. range.from \in Int /\ range.to \in Int /\ range.from <= range.to
        /\ (range.to < horizon.start \/ range.from > horizon.finish)
    BY <1>6, <2>1, <2>2 DEF RangeRefused, Known
  <2> QED BY <1>5, <1>6, <1>7, <2>1, <2>3
<1> QED BY <1>8 DEF Clear, c, dates

----------------------------------------------------------------------------
(* The sessions of every reachable state.                                    *)

SessionsOK ==
    /\ imports \in Nat /\ DOMAIN building = Clients
    /\ \A s \in Sessions : SessionOK(s)

(* No request leaves anything but such sessions.                             *)
LEMMA SessionsStayOK ==
    ASSUME SessionsOK, [Next]_vars
    PROVE  SessionsOK'
<1>1. imports \in Nat /\ DOMAIN building = Clients
      /\ (session # None => SessionOK(session))
      /\ (\A c \in Clients : building[c] # None => SessionOK(building[c]))
  BY DEF SessionsOK, Sessions
<1>2. SUFFICES /\ imports' \in Nat /\ DOMAIN building' = Clients
               /\ session' # None => SessionOK(session')
               /\ \A c \in Clients : building'[c] # None => SessionOK(building'[c])
  BY DEF SessionsOK, Sessions
<1>3. ASSUME NEW c \in Clients, NEW file \in Files, Import(c, file)
      PROVE  /\ imports' \in Nat /\ DOMAIN building' = Clients
             /\ session' # None => SessionOK(session')
             /\ \A d \in Clients : building'[d] # None => SessionOK(building'[d])
  <2> DEFINE opened == FromMspdi(file, imports + 1)
  <2>1. session' = session
    BY <1>3 DEF Import
  <2>2. CASE "code" \in DOMAIN opened
    <3>1. building' = building /\ imports' = imports
      BY <1>3, <2>2 DEF Import
    <3> QED BY <1>1, <2>1, <3>1
  <2>3. CASE "code" \notin DOMAIN opened
    <3>1. SessionOK(opened)
      BY <1>1, <2>3, BuiltIsOK
    <3> HIDE DEF opened
    <3>2. building' = [building EXCEPT ![c] = opened] /\ imports' = imports + 1
      BY <1>3, <2>3 DEF Import, opened
    <3> QED BY <1>1, <2>1, <3>1, <3>2
  <2> QED BY <2>2, <2>3
<1>4. ASSUME NEW c \in Clients, Install(c)
      PROVE  /\ imports' \in Nat /\ DOMAIN building' = Clients
             /\ session' # None => SessionOK(session')
             /\ \A d \in Clients : building'[d] # None => SessionOK(building'[d])
  BY <1>1, <1>4 DEF Install
<1>5. ASSUME NEW c \in Clients, NEW workspace, NotFound(c, workspace) \/ Show(c, workspace)
      PROVE  UNCHANGED <<session, building, imports>>
  BY <1>5 DEF NotFound, Show, Answer
<1>6. ASSUME NEW c \in Clients, NEW workspace, NEW edit \in Edits,
             SetDuration(c, workspace, edit[1], edit[2])
      PROVE  building' = building /\ imports' = imports
             /\ (session' # None => SessionOK(session'))
  <2> DEFINE id == edit[1]
             duration == edit[2]
  <2>1. duration \in Int /\ None \notin [activity : {id}, duration : Int, original : Int]
    BY EditsAssumption
  <2>2. SetDuration(c, workspace, id, duration) /\ session # None
    BY <1>6 DEF SetDuration, Serves
  <2> HIDE DEF id, duration
  <2>3. building' = building /\ imports' = imports
    BY <2>2 DEF SetDuration, Answer
  <2>4. CASE EditCode(session, id, duration) = "OK"
    <3>1. session' = Overridden(session, id, duration)
      BY <2>2, <2>4 DEF SetDuration
    <3>2. SessionOK(Overridden(session, id, duration))
      BY <1>1, <2>1, <2>2, <2>4, OverriddenIsOK
    <3> QED BY <2>3, <3>1, <3>2
  <2>5. CASE EditCode(session, id, duration) # "OK"
    BY <1>1, <2>2, <2>3, <2>5 DEF SetDuration
  <2> QED BY <2>4, <2>5
<1>7. ASSUME NEW c \in Clients, NEW workspace, Reset(c, workspace)
      PROVE  building' = building /\ imports' = imports
             /\ (session' # None => SessionOK(session'))
  <2>1. session # None /\ session' = ResetScenario(session)
        /\ building' = building /\ imports' = imports
    BY <1>7 DEF Reset, Serves, Answer
  <2>2. SessionOK(ResetScenario(session))
    BY <1>1, <2>1, ResetIsOK
  <2> QED BY <2>1, <2>2
<1>8. CASE UNCHANGED vars
  BY <1>1, <1>8 DEF vars
<1>9. CASE Next
  BY <1>1, <1>3, <1>4, <1>5, <1>6, <1>7, <1>9 DEF Next
<1> QED BY <1>8, <1>9

(* Every session ever held is one override of a calculated import.           *)
THEOREM SessionsAreOK == Spec => []SessionsOK
<1>1. Init => SessionsOK
  BY DEF Init, SessionsOK, Sessions
<1>2. SessionsOK /\ [Next]_vars => SessionsOK'
  BY SessionsStayOK
<1> QED BY <1>1, <1>2, PTL DEF Spec

(* MovedAvoidsExceptions: an activity that a scenario moves works through    *)
(* none of the special days and exceptions left out of its calendar.         *)
THEOREM MovedKeepsClear == Spec => []MovedAvoidsExceptions
<1>1. SessionsOK => MovedAvoidsExceptions
  BY MovesClear DEF SessionsOK, MovedAvoidsExceptions
<1> QED BY <1>1, SessionsAreOK, PTL

(* DocumentIsKept: the outline of an imported document is that of its rows,  *)
(* and every link into a calculated activity is kept by the dates shown.     *)
THEOREM WorkspaceKeepsDocument == Spec => []DocumentIsKept
<1>1. SessionsOK => OutlineIsKept
  <2> SUFFICES ASSUME SessionsOK, NEW s \in Sessions
               PROVE  LET items == s.doc.wbs \union s.doc.activities
                      IN \A item \in items :
                            /\ item.parent = None => Enclosing(items, item) = {}
                            /\ item.parent # None => Ids(Enclosing(items, item)) = {item.parent}
    BY DEF OutlineIsKept
  <2>1. DocumentOK(s.doc)
    BY DEF SessionsOK, SessionOK
  <2> QED BY <2>1 DEF DocumentOK, OutlineOf
<1>2. SessionsOK => LinksAreRespected
  BY LinksKept DEF SessionsOK, LinksAreRespected
<1> QED BY <1>1, <1>2, SessionsAreOK, PTL DEF DocumentIsKept

----------------------------------------------------------------------------
(* The revisions that answers show.                                          *)

Shown(a) == a # None /\ a.code = "OK"
Tells(a, s) == a.override = s.override /\ a.moved = Moved(s, s.current)
Counted(x, n) == x.number \in Nat /\ x.revision \in Nat /\ x.number <= n

(* An import being built has a number that nothing else has; an answer with  *)
(* the number of the session shows no later revision than it has, and with   *)
(* the same revision the same scenario; so do two answers.                   *)
BuiltAreNew(s, b, a, n) ==
    \A c \in Clients : b[c] # None =>
        /\ Counted(b[c], n)
        /\ s # None => s.number # b[c].number
        /\ \A d \in Clients \ {c} : b[d] # None => b[d].number # b[c].number
        /\ \A d \in Clients : Shown(a[d]) => a[d].number # b[c].number
AnswersTell(s, a, n) ==
    \A c \in Clients : Shown(a[c]) =>
        /\ Counted(a[c], n)
        /\ s # None /\ a[c].number = s.number =>
              /\ a[c].revision <= s.revision
              /\ a[c].revision = s.revision => Tells(a[c], s)
AnswersAgree(a) ==
    \A c, d \in Clients :
        Shown(a[c]) /\ Shown(a[d]) /\ a[c].number = a[d].number /\ a[c].revision = a[d].revision
            => a[c].override = a[d].override /\ a[c].moved = a[d].moved
NumbersOf(s, b, a, n) ==
    /\ n \in Nat /\ DOMAIN b = Clients /\ DOMAIN a = Clients
    /\ s # None => Counted(s, n)
    /\ BuiltAreNew(s, b, a, n) /\ AnswersTell(s, a, n) /\ AnswersAgree(a)

NumbersOK == NumbersOf(session, building, answer, imports)

(* A page of a session shows its number, its revision and its scenario.      *)
LEMMA ViewTells ==
    ASSUME NEW s
    PROVE  /\ View(s).code = "OK" /\ View(s).number = s.number /\ View(s).revision = s.revision
           /\ Tells(View(s), s)
BY DEF View, Tells

(* An answer that shows no page changes nothing of this.                     *)
LEMMA UnsuccessfulTells ==
    ASSUME NEW s, NEW b, NEW a, NEW n, NumbersOf(s, b, a, n), NEW c \in Clients,
           NEW code, code # "OK"
    PROVE  NumbersOf(s, b, [a EXCEPT ![c] = Unsuccessful(code)], n)
<1> DEFINE A == [a EXCEPT ![c] = Unsuccessful(code)]
<1>1. DOMAIN A = Clients /\ ~Shown(A[c]) /\ \A d \in Clients : d # c => A[d] = a[d]
  BY DEF NumbersOf, Shown, Unsuccessful
<1> HIDE DEF A
<1>2. \A d \in Clients : Shown(A[d]) => A[d] = a[d]
  BY <1>1
<1>3. BuiltAreNew(s, b, A, n)
  BY <1>2 DEF NumbersOf, BuiltAreNew
<1>4. AnswersTell(s, A, n)
  BY <1>2 DEF NumbersOf, AnswersTell
<1>5. AnswersAgree(A)
  BY <1>2 DEF NumbersOf, AnswersAgree
<1> QED BY <1>1, <1>3, <1>4, <1>5 DEF NumbersOf, A

(* An import that has been built has a number of its own.                    *)
LEMMA BuiltTells ==
    ASSUME NEW s, NEW b, NEW a, NEW n, NumbersOf(s, b, a, n), NEW c \in Clients,
           NEW t, t.number = n + 1, t.revision \in Nat
    PROVE  NumbersOf(s, [b EXCEPT ![c] = t], a, n + 1)
<1> DEFINE B == [b EXCEPT ![c] = t]
<1>1. DOMAIN B = Clients /\ B[c] = t /\ \A d \in Clients : d # c => B[d] = b[d]
  BY DEF NumbersOf
<1> HIDE DEF B
<1>2. n \in Nat /\ n + 1 \in Nat
  BY DEF NumbersOf
<1>3. \A x : Counted(x, n) => Counted(x, n + 1) /\ x.number # n + 1
  BY <1>2 DEF Counted
<1>4. ASSUME NEW d \in Clients, B[d] # None
      PROVE  /\ Counted(B[d], n + 1)
             /\ s # None => s.number # B[d].number
             /\ \A e \in Clients \ {d} : B[e] # None => B[e].number # B[d].number
             /\ \A e \in Clients : Shown(a[e]) => a[e].number # B[d].number
  <2>1. CASE d = c
    <3>1. Counted(B[d], n + 1)
      BY <1>1, <1>2, <2>1 DEF Counted
    <3>2. s # None => s.number # B[d].number
      BY <1>1, <1>3, <2>1 DEF NumbersOf
    <3>3. \A e \in Clients \ {d} : B[e] # None => B[e].number # B[d].number
      BY <1>1, <1>3, <2>1 DEF NumbersOf, BuiltAreNew
    <3>4. \A e \in Clients : Shown(a[e]) => a[e].number # B[d].number
      BY <1>1, <1>3, <2>1 DEF NumbersOf, AnswersTell
    <3> QED BY <3>1, <3>2, <3>3, <3>4
  <2>2. CASE d # c
    <3>1. B[d] = b[d] /\ Counted(b[d], n)
      BY <1>1, <1>4, <2>2 DEF NumbersOf, BuiltAreNew
    <3>2. \A e \in Clients \ {d} : B[e] # None => B[e].number # B[d].number
      BY <1>1, <1>3, <1>4, <2>2, <3>1 DEF NumbersOf, BuiltAreNew
    <3> QED BY <1>3, <1>4, <3>1, <3>2 DEF NumbersOf, BuiltAreNew
  <2> QED BY <2>1, <2>2
<1>5. BuiltAreNew(s, B, a, n + 1)
  BY <1>4 DEF BuiltAreNew
<1>6. AnswersTell(s, a, n + 1)
  BY <1>3 DEF NumbersOf, AnswersTell
<1> QED BY <1>1, <1>2, <1>3, <1>5, <1>6 DEF NumbersOf, B

(* When it is installed, no page of it has been shown.                       *)
LEMMA InstalledTells ==
    ASSUME NEW s, NEW b, NEW a, NEW n, NumbersOf(s, b, a, n), NEW c \in Clients, b[c] # None
    PROVE  NumbersOf(b[c], [b EXCEPT ![c] = None], [a EXCEPT ![c] = View(b[c])], n)
<1> DEFINE t == b[c]
           B == [b EXCEPT ![c] = None]
           A == [a EXCEPT ![c] = View(t)]
<1>1. /\ DOMAIN B = Clients /\ B[c] = None /\ (\A d \in Clients : d # c => B[d] = b[d])
      /\ DOMAIN A = Clients /\ A[c] = View(t) /\ (\A d \in Clients : d # c => A[d] = a[d])
  BY DEF NumbersOf
<1>2. /\ Counted(t, n)
      /\ \A d \in Clients \ {c} : b[d] # None => b[d].number # t.number
      /\ \A d \in Clients : Shown(a[d]) => a[d].number # t.number
  BY DEF NumbersOf, BuiltAreNew
<1>3. /\ A[c].number = t.number /\ A[c].revision = t.revision /\ Tells(A[c], t)
  BY <1>1, ViewTells
<1> HIDE DEF t, A, B
<1>4. \A d \in Clients : d # c /\ Shown(A[d]) => A[d].number # t.number /\ Counted(A[d], n)
  BY <1>1, <1>2 DEF NumbersOf, AnswersTell
<1>5. BuiltAreNew(t, B, A, n)
  BY <1>1, <1>2, <1>3 DEF NumbersOf, BuiltAreNew
<1>6. AnswersTell(t, A, n)
  <2> SUFFICES ASSUME NEW d \in Clients, Shown(A[d])
               PROVE  /\ Counted(A[d], n)
                      /\ A[d].number = t.number =>
                            /\ A[d].revision <= t.revision
                            /\ A[d].revision = t.revision => Tells(A[d], t)
    BY DEF AnswersTell
  <2>1. CASE d = c
    BY <1>2, <1>3, <2>1 DEF Counted
  <2>2. CASE d # c
    BY <1>4, <2>2
  <2> QED BY <2>1, <2>2
<1>7. AnswersAgree(A)
  <2> SUFFICES ASSUME NEW d \in Clients, NEW e \in Clients, Shown(A[d]), Shown(A[e]),
                      A[d].number = A[e].number, A[d].revision = A[e].revision
               PROVE  A[d].override = A[e].override /\ A[d].moved = A[e].moved
    BY DEF AnswersAgree
  <2>1. CASE d = c \/ e = c
    BY <1>3, <1>4, <2>1
  <2>2. CASE d # c /\ e # c
    BY <1>1, <2>2 DEF NumbersOf, AnswersAgree
  <2> QED BY <2>1, <2>2
<1> QED BY <1>1, <1>2, <1>5, <1>6, <1>7 DEF NumbersOf, t, A, B

(* A page shown after a change of the session shows a later revision.        *)
LEMMA ChangedTells ==
    ASSUME NEW s, NEW b, NEW a, NEW n, NumbersOf(s, b, a, n), NEW c \in Clients, s # None,
           NEW t, t.number = s.number, t = s \/ t.revision = s.revision + 1
    PROVE  NumbersOf(t, b, [a EXCEPT ![c] = View(t)], n)
<1> DEFINE A == [a EXCEPT ![c] = View(t)]
<1>1. DOMAIN A = Clients /\ A[c] = View(t) /\ \A d \in Clients : d # c => A[d] = a[d]
  BY DEF NumbersOf
<1>2. A[c].number = t.number /\ A[c].revision = t.revision /\ Tells(A[c], t)
  BY <1>1, ViewTells
<1>3. Counted(s, n) /\ Counted(t, n)
  BY DEF NumbersOf, Counted
<1> HIDE DEF A
<1>4. ASSUME NEW d \in Clients, d # c, Shown(A[d])
      PROVE  /\ Counted(A[d], n)
             /\ A[d].number = t.number =>
                   /\ A[d].revision <= t.revision
                   /\ A[d].revision = t.revision => Tells(A[d], t)
  <2>1. /\ Counted(A[d], n)
        /\ A[d].number = s.number =>
              /\ A[d].revision <= s.revision
              /\ A[d].revision = s.revision => Tells(A[d], s)
    BY <1>1, <1>4 DEF NumbersOf, AnswersTell
  <2>2. CASE t = s
    BY <2>1, <2>2
  <2>3. CASE t.revision = s.revision + 1
    BY <1>3, <2>1, <2>3 DEF Counted
  <2> QED BY <2>1, <2>2, <2>3
<1>5. BuiltAreNew(t, b, A, n)
  <2> SUFFICES ASSUME NEW d \in Clients, b[d] # None
               PROVE  /\ Counted(b[d], n)
                      /\ t # None => t.number # b[d].number
                      /\ \A e \in Clients \ {d} : b[e] # None => b[e].number # b[d].number
                      /\ \A e \in Clients : Shown(A[e]) => A[e].number # b[d].number
    BY DEF BuiltAreNew
  <2>1. /\ Counted(b[d], n) /\ t.number # b[d].number
        /\ \A e \in Clients \ {d} : b[e] # None => b[e].number # b[d].number
        /\ \A e \in Clients : Shown(a[e]) => a[e].number # b[d].number
    BY DEF NumbersOf, BuiltAreNew
  <2> QED BY <1>1, <1>2, <2>1
<1>6. AnswersTell(t, A, n)
  <2> SUFFICES ASSUME NEW d \in Clients, Shown(A[d])
               PROVE  /\ Counted(A[d], n)
                      /\ A[d].number = t.number =>
                            /\ A[d].revision <= t.revision
                            /\ A[d].revision = t.revision => Tells(A[d], t)
    BY DEF AnswersTell
  <2>1. CASE d = c
    BY <1>2, <1>3, <2>1 DEF Counted
  <2>2. CASE d # c
    BY <1>4, <2>2
  <2> QED BY <2>1, <2>2
<1>7. AnswersAgree(A)
  <2> SUFFICES ASSUME NEW d \in Clients, NEW e \in Clients, Shown(A[d]), Shown(A[e]),
                      A[d].number = A[e].number, A[d].revision = A[e].revision
               PROVE  A[d].override = A[e].override /\ A[d].moved = A[e].moved
    BY DEF AnswersAgree
  <2>1. CASE d = c /\ e = c
    BY <2>1
  <2>2. CASE d = c /\ e # c
    BY <1>2, <1>4, <2>2 DEF Tells
  <2>3. CASE d # c /\ e = c
    BY <1>2, <1>4, <2>3 DEF Tells
  <2>4. CASE d # c /\ e # c
    BY <1>1, <2>4 DEF NumbersOf, AnswersAgree
  <2> QED BY <2>1, <2>2, <2>3, <2>4
<1> QED BY <1>1, <1>3, <1>5, <1>6, <1>7 DEF NumbersOf, A

(* A refused import answers with a code other than OK.                       *)
LEMMA RefusedImport ==
    ASSUME NEW file, NEW number, "code" \in DOMAIN FromMspdi(file, number)
    PROVE  \E code : code # "OK" /\ FromMspdi(file, number) = Unsuccessful(code)
<1> DEFINE doc == ImportMspdi(file)
           profile == CalculationProfile(doc)
           base == ForwardSchedule(EngineProjection(doc, profile))
<1>1. "code" \notin DOMAIN Opened(doc, profile, base, number)
  <2> HIDE DEF doc, profile, base
  <2> QED BY DEF Opened
<1>2. \/ FromMspdi(file, number) = Unsuccessful("IMPORT_FAILED")
      \/ FromMspdi(file, number) = Unsuccessful("WORKSPACE_ERROR")
      \/ FromMspdi(file, number) = Opened(doc, profile, base, number)
  BY DEF FromMspdi
<1>3. "IMPORT_FAILED" # "OK" /\ "WORKSPACE_ERROR" # "OK"
  OBVIOUS
<1> HIDE DEF doc, profile, base
<1> QED BY <1>1, <1>2, <1>3

(* No request breaks the numbering.                                          *)
LEMMA NumbersStayOK ==
    ASSUME SessionsOK, NumbersOK, [Next]_vars
    PROVE  NumbersOK'
<1> DEFINE s == session
           b == building
           a == answer
           n == imports
<1>1. NumbersOf(s, b, a, n)
  BY DEF NumbersOK
<1>2. SUFFICES NumbersOf(session', building', answer', imports')
  BY DEF NumbersOK
<1>3. ASSUME NEW c \in Clients, NEW file \in Files, Import(c, file)
      PROVE  NumbersOf(session', building', answer', imports')
  <2> DEFINE opened == FromMspdi(file, n + 1)
  <2>1. CASE "code" \in DOMAIN opened
    <3>1. PICK code : code # "OK" /\ opened = Unsuccessful(code)
      BY <2>1, RefusedImport
    <3>2. /\ answer' = [a EXCEPT ![c] = Unsuccessful(code)]
          /\ session' = s /\ building' = b /\ imports' = n
      BY <1>3, <2>1, <3>1 DEF Import
    <3> HIDE DEF s, b, a, n
    <3> QED BY <1>1, <3>1, <3>2, UnsuccessfulTells
  <2>2. CASE "code" \notin DOMAIN opened
    <3>1. SessionOK(opened) /\ opened.number = n + 1
      BY <2>2, BuiltIsOK DEF SessionsOK
    <3>2. opened.revision \in Nat
      BY <3>1 DEF SessionOK
    <3>3. /\ building' = [b EXCEPT ![c] = opened] /\ imports' = n + 1
          /\ session' = s /\ answer' = a
      BY <1>3, <2>2 DEF Import
    <3> HIDE DEF s, b, a, n, opened
    <3> QED BY <1>1, <3>1, <3>2, <3>3, BuiltTells
  <2> QED BY <2>1, <2>2
<1>4. ASSUME NEW c \in Clients, Install(c)
      PROVE  NumbersOf(session', building', answer', imports')
  <2>1. /\ b[c] # None /\ session' = b[c] /\ building' = [b EXCEPT ![c] = None]
        /\ answer' = [a EXCEPT ![c] = View(b[c])] /\ imports' = n
    BY <1>4 DEF Install
  <2> HIDE DEF s, b, a, n
  <2> QED BY <1>1, <2>1, InstalledTells
<1>5. ASSUME NEW c \in Clients, NEW code, code # "OK",
             Answer(c, Unsuccessful(code)), UNCHANGED session
      PROVE  NumbersOf(session', building', answer', imports')
  <2>1. /\ answer' = [a EXCEPT ![c] = Unsuccessful(code)]
        /\ session' = s /\ building' = b /\ imports' = n
    BY <1>5 DEF Answer
  <2> HIDE DEF s, b, a, n
  <2> QED BY <1>1, <1>5, <2>1, UnsuccessfulTells
<1>6. ASSUME NEW c \in Clients, session # None, Answer(c, View(session')),
             session'.number = session.number,
             session' = session \/ session'.revision = session.revision + 1
      PROVE  NumbersOf(session', building', answer', imports')
  <2> DEFINE t == session'
  <2>1. answer' = [a EXCEPT ![c] = View(t)] /\ building' = b /\ imports' = n
    BY <1>6 DEF Answer
  <2>2. s # None /\ t.number = s.number /\ (t = s \/ t.revision = s.revision + 1)
    BY <1>6
  <2> HIDE DEF s, b, a, n, t
  <2>3. NumbersOf(t, b, [a EXCEPT ![c] = View(t)], n)
    BY <1>1, <2>2, ChangedTells
  <2> QED BY <2>1, <2>3 DEF t
<1>7. ASSUME NEW c \in Clients, NEW workspace, NotFound(c, workspace)
      PROVE  NumbersOf(session', building', answer', imports')
  BY <1>5, <1>7 DEF NotFound
<1>8. ASSUME NEW c \in Clients, NEW workspace, Show(c, workspace)
      PROVE  NumbersOf(session', building', answer', imports')
  <2>1. session # None /\ session' = session /\ Answer(c, View(session))
    BY <1>8 DEF Show, Serves
  <2> QED BY <1>6, <2>1
<1>9. ASSUME NEW c \in Clients, NEW workspace, NEW edit \in Edits,
             SetDuration(c, workspace, edit[1], edit[2])
      PROVE  NumbersOf(session', building', answer', imports')
  <2> DEFINE id == edit[1]
             duration == edit[2]
             code == EditCode(session, id, duration)
  <2>1. duration \in Int /\ None \notin [activity : {id}, duration : Int, original : Int]
    BY EditsAssumption
  <2>2. SetDuration(c, workspace, id, duration) /\ session # None
    BY <1>9 DEF SetDuration, Serves
  <2>3. CASE code # "OK"
    <3>1. Answer(c, Unsuccessful(code)) /\ UNCHANGED session
      BY <2>2, <2>3 DEF SetDuration
    <3> HIDE DEF code
    <3> QED BY <1>5, <2>3, <3>1
  <2>4. CASE code = "OK"
    <3>1. session' = Overridden(session, id, duration) /\ Answer(c, View(session'))
      BY <2>2, <2>4 DEF SetDuration
    <3>2. SessionOK(session)
      BY <2>2 DEF SessionsOK, Sessions
    <3> HIDE DEF id, duration
    <3>3. session'.number = session.number /\ session'.revision = session.revision + 1
      BY <2>1, <2>4, <3>1, <3>2, OverriddenIsOK
    <3> QED BY <1>6, <2>2, <3>1, <3>3
  <2> QED BY <2>3, <2>4
<1>10. ASSUME NEW c \in Clients, NEW workspace, Reset(c, workspace)
       PROVE  NumbersOf(session', building', answer', imports')
  <2>1. session # None /\ session' = ResetScenario(session) /\ Answer(c, View(session'))
    BY <1>10 DEF Reset, Serves
  <2>2. SessionOK(session)
    BY <2>1 DEF SessionsOK, Sessions
  <2>3. session'.number = session.number
        /\ (session' = session \/ session'.revision = session.revision + 1)
    BY <2>1, <2>2, ResetIsOK
  <2> QED BY <1>6, <2>1, <2>3
<1>11. CASE UNCHANGED vars
  BY <1>1, <1>11 DEF vars
<1>12. CASE Next
  BY <1>3, <1>4, <1>7, <1>8, <1>9, <1>10, <1>12 DEF Next
<1> QED BY <1>11, <1>12

(* ScenarioIsOneOverride: what is shown is the import with one duration      *)
(* replaced, nothing moves but what follows that activity, and a revision    *)
(* that two answers show stands for one scenario.                            *)
THEOREM WorkspaceIsOneOverride == Spec => []ScenarioIsOneOverride
<1>1. Init => SessionsOK /\ NumbersOK
  <2>1. Init => SessionsOK
    BY DEF Init, SessionsOK, Sessions
  <2>2. Init => NumbersOK
    BY DEF Init, NumbersOK, NumbersOf, BuiltAreNew, AnswersTell, AnswersAgree, Shown
  <2> QED BY <2>1, <2>2
<1>2. SessionsOK /\ NumbersOK /\ [Next]_vars => (SessionsOK /\ NumbersOK)'
  BY SessionsStayOK, NumbersStayOK
<1>3. SessionsOK => CurrentIsOneOverride
  BY OneOverride DEF SessionsOK, CurrentIsOneOverride
<1>4. SessionsOK => MovedIsDownstream
  BY NothingMoves, MovesFollow DEF SessionsOK, MovedIsDownstream
<1>5. NumbersOK => RevisionTellsTheScenario
  BY DEF NumbersOK, NumbersOf, AnswersAgree, Shown, RevisionTellsTheScenario
<1> QED BY <1>1, <1>2, <1>3, <1>4, <1>5, PTL DEF Spec, ScenarioIsOneOverride
=============================================================================
