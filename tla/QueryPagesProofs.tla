-------------------------- MODULE QueryPagesProofs --------------------------
(***************************************************************************)
(* For any rows, page size and number of replacements: a client that       *)
(* browses by markers gets no row twice and, in the end, every row that    *)
(* was there all the time; its browsing fails only at a row that was taken *)
(* away or whose time cannot be parsed, with all before that row           *)
(* delivered.  Rows are told apart by the sorting columns and by their     *)
(* digests, and the texts of their times are ordered as the times.         *)
(***************************************************************************)
EXTENDS QueryPages, TLAPS, FiniteSetTheorems, SequenceTheorems

DistinctRows ==
    \A r, q \in Rows : r # q => Rank[r] # Rank[q] /\ Digest[r] # Digest[q]

OrderedRows == DistinctRows /\ SameOrder

-----------------------------------------------------------------------------
(* Sorted rows.                                                             *)

LEMMA RowFacts ==
    /\ \A r \in Rows : Text[r] \in Nat /\ Time[r] \in Nat /\ Rank[r] \in Nat
    /\ \A S \in SUBSET Rows : IsFiniteSet(S) /\ Cardinality(S) \in Nat
<1>1. \A r \in Rows : Text[r] \in Nat /\ Time[r] \in Nat /\ Rank[r] \in Nat
  BY RowsAssumption
<1>2. \A S \in SUBSET Rows : IsFiniteSet(S) /\ Cardinality(S) \in Nat
  BY RowsAssumption, FS_Subset, FS_CardinalityType
<1> QED  BY <1>1, <1>2

(* Spark returns every row once.                                            *)
LEMMA SortedFacts ==
    ASSUME NEW S \in SUBSET Rows, NEW s \in Sorted(S)
    PROVE  /\ s \in Seq(S) /\ Len(s) \in Nat /\ s \in [1 .. Len(s) -> S]
           /\ \A x \in S : \E i \in 1 .. Len(s) : s[i] = x
           /\ \A i, j \in 1 .. Len(s) : i # j => s[i] # s[j]
           /\ \A i, j \in 1 .. Len(s) : i < j => Rank[s[i]] <= Rank[s[j]]
<1> DEFINE n == Cardinality(S)
<1>1. n \in Nat /\ IsFiniteSet(S)
  BY RowFacts
<1>2. /\ s \in [1 .. n -> S]
      /\ \A i, j \in 1 .. n : i # j => s[i] # s[j]
      /\ \A i, j \in DOMAIN s : i < j => Rank[s[i]] <= Rank[s[j]]
  BY DEF Sorted, SetToSeqs
<1> HIDE DEF n
<1>3. s \in Seq(S) /\ Len(s) = n
  BY <1>1, <1>2
<1>4. IsFiniteSet(1 .. n) /\ Cardinality(1 .. n) = n
  BY <1>1, FS_Interval
<1>5. s \in Injection(1 .. n, S)
  BY <1>2 DEF Injection, IsInjective
<1>6. s \in Surjection(1 .. n, S)
  BY <1>1, <1>4, <1>5, FS_Injection DEF n
<1>7. \A x \in S : \E i \in 1 .. n : s[i] = x
  BY <1>6 DEF Surjection
<1> QED  BY <1>1, <1>2, <1>3, <1>7

LEMMA StrictlySorted ==
    ASSUME DistinctRows, NEW S \in SUBSET Rows, NEW s \in Sorted(S),
           NEW i \in 1 .. Len(s), NEW j \in 1 .. Len(s)
    PROVE  /\ i < j <=> Rank[s[i]] < Rank[s[j]]
           /\ i = j <=> Rank[s[i]] = Rank[s[j]]
<1>1. s[i] \in Rows /\ s[j] \in Rows /\ Len(s) \in Nat
  BY SortedFacts
<1>2. Rank[s[i]] \in Nat /\ Rank[s[j]] \in Nat
  BY <1>1, RowFacts
<1>3. /\ i # j => s[i] # s[j]
      /\ i < j => Rank[s[i]] <= Rank[s[j]]
      /\ j < i => Rank[s[j]] <= Rank[s[i]]
  BY SortedFacts
<1>4. i # j => Rank[s[i]] # Rank[s[j]]
  BY <1>1, <1>3 DEF DistinctRows
<1> QED  BY <1>1, <1>2, <1>3, <1>4

(* The place of a row is the number of rows that do not come after it.      *)
LEMMA PlaceIsCount ==
    ASSUME DistinctRows, NEW S \in SUBSET Rows, NEW s \in Sorted(S),
           NEW i \in 1 .. Len(s)
    PROVE  i = Cardinality({x \in S : Rank[x] <= Rank[s[i]]})
<1> DEFINE T == {x \in S : Rank[x] <= Rank[s[i]]}
           f == [k \in 1 .. i |-> s[k]]
<1>1. /\ Len(s) \in Nat /\ i \in Nat /\ s \in [1 .. Len(s) -> S]
      /\ \A k \in 1 .. i : k \in 1 .. Len(s)
  BY SortedFacts
<1>2. \A k \in 1 .. Len(s) : s[k] \in Rows /\ Rank[s[k]] \in Nat
  BY <1>1, RowFacts
<1>3. \A k \in 1 .. Len(s) : k <= i <=> s[k] \in T
  BY <1>1, <1>2, StrictlySorted
<1>4. f \in [1 .. i -> T]
  BY <1>1, <1>3
<1>5. \A j, k \in 1 .. i : j # k => f[j] # f[k]
  BY <1>1, SortedFacts
<1>6. \A x \in T : \E k \in 1 .. i : f[k] = x
  <2> TAKE x \in T
  <2>1. PICK k \in 1 .. Len(s) : s[k] = x
    BY SortedFacts
  <2>2. k \in 1 .. i
    BY <1>1, <1>3, <2>1
  <2> QED  BY <2>1, <2>2
<1> HIDE DEF f, T
<1>7. f \in Bijection(1 .. i, T)
  BY <1>4, <1>5, <1>6 DEF Bijection, Injection, Surjection, IsInjective
<1> QED  BY <1>1, <1>7, FS_CountingElements DEF ExistsBijection, T

LEMMA OrderFacts ==
    ASSUME SameOrder, NEW r \in Rows, NEW q \in Rows
    PROVE  /\ Rank[r] <= Rank[q] => Time[r] <= Time[q]
           /\ Text[r] = Text[q] <=> Time[r] = Time[q]
<1>1. /\ Rank[r] <= Rank[q] => Text[r] <= Text[q]
      /\ Text[r] = Text[q] => Time[r] = Time[q]
      /\ Text[r] <= Text[q] <=> Time[r] <= Time[q]
      /\ Text[q] <= Text[r] <=> Time[q] <= Time[r]
  BY RowsAssumption DEF SameOrder
<1>2. {Text[r], Text[q], Time[r], Time[q]} \subseteq Nat
  BY RowFacts
<1> QED  BY <1>1, <1>2

(* What the rows with the marker's text and the rows not before its time    *)
(* have in common is their beginning: the marker has the same place in both.*)
LEMMA SamePlace ==
    ASSUME OrderedRows, stored \subseteq Rows, NEW m \in stored,
           NEW head \in Sorted(RowsWith(m)),
           NEW rows \in Sorted(NotBefore(m))
    PROVE  /\ IndexOf(head, Digest[m]) \in 1 .. Len(rows)
           /\ rows[IndexOf(head, Digest[m])] = m
<1> DEFINE H == RowsWith(m)
           R == NotBefore(m)
           k == IndexOf(head, Digest[m])
<1>1. H \in SUBSET Rows /\ R \in SUBSET Rows /\ m \in H /\ m \in R /\ m \in Rows
  BY RowFacts DEF RowsWith, NotBefore
<1>2. PICK i \in 1 .. Len(head) : head[i] = m
  BY <1>1, SortedFacts
<1>3. PICK j \in 1 .. Len(rows) : rows[j] = m
  BY <1>1, SortedFacts
<1>4. /\ DOMAIN head = 1 .. Len(head)
      /\ \A h \in 1 .. Len(head) : head[h] \in Rows
      /\ \A h \in 1 .. Len(head) : h # i => head[h] # m
  <2>1. /\ head \in [1 .. Len(head) -> H]
        /\ \A g, h \in 1 .. Len(head) : g # h => head[g] # head[h]
    BY <1>1, SortedFacts
  <2> HIDE DEF H
  <2> QED  BY <1>1, <1>2, <2>1
<1>5. \A h \in DOMAIN head : Digest[head[h]] = Digest[m] <=> h = i
  BY <1>1, <1>2, <1>4 DEF OrderedRows, DistinctRows
<1>6. i \in Nat /\ i <= i
  BY <1>1, <1>2, SortedFacts
<1>7. k = i
  BY <1>2, <1>4, <1>5, <1>6 DEF IndexOf
<1>8. {x \in H : Rank[x] <= Rank[m]} = {x \in R : Rank[x] <= Rank[m]}
  <2>1. \A x \in stored : /\ Rank[x] <= Rank[m] => Time[x] <= Time[m]
                          /\ Text[x] = Text[m] <=> Time[x] = Time[m]
    BY <1>1, OrderFacts DEF OrderedRows
  <2>2. \A x \in stored : Time[x] \in Nat /\ Time[m] \in Nat
    BY <1>1, RowFacts
  <2> QED  BY <2>1, <2>2 DEF RowsWith, NotBefore
<1>9. i = j
  BY <1>1, <1>2, <1>3, <1>8, PlaceIsCount DEF OrderedRows
<1> QED  BY <1>3, <1>7, <1>9

-----------------------------------------------------------------------------
(* Pages.                                                                   *)

CutEnd(s, to) == IF to < Len(s) THEN to ELSE Len(s)

LEMMA CutFacts ==
    ASSUME NEW S, NEW s \in Seq(S), NEW from \in Nat, NEW to \in Nat
    PROVE  /\ Cut(s, from, to) \in Seq(S)
           /\ Len(Cut(s, from, to)) =
                 IF from < CutEnd(s, to) THEN CutEnd(s, to) - from ELSE 0
           /\ \A i \in 1 .. Len(Cut(s, from, to)) :
                 Cut(s, from, to)[i] = s[from + i]
<1> DEFINE last == CutEnd(s, to)
<1>1. last \in Nat /\ last <= Len(s) /\ Len(s) \in Nat /\ s \in [1 .. Len(s) -> S]
  BY LenProperties DEF CutEnd
<1>2. Cut(s, from, to) = SubSeq(s, from + 1, last)
  BY DEF Cut, CutEnd
<1> HIDE DEF last
<1>3. \A i \in from + 1 .. last : s[i] \in S
  BY <1>1
<1>4. /\ SubSeq(s, from + 1, last) \in Seq(S)
      /\ Len(SubSeq(s, from + 1, last)) =
            IF from + 1 <= last THEN last - (from + 1) + 1 ELSE 0
      /\ \A i \in 1 .. last - (from + 1) + 1 :
            SubSeq(s, from + 1, last)[i] = s[from + 1 + i - 1]
  BY <1>1, <1>3, SubSeqProperties
<1>5. Len(SubSeq(s, from + 1, last)) = IF from < last THEN last - from ELSE 0
  BY <1>1, <1>4
<1>6. ASSUME NEW i \in 1 .. Len(SubSeq(s, from + 1, last))
      PROVE  SubSeq(s, from + 1, last)[i] = s[from + i]
  <2>1. i \in 1 .. last - (from + 1) + 1 /\ from + 1 + i - 1 = from + i
    BY <1>1, <1>5
  <2> QED  BY <1>4, <2>1
<1> QED  BY <1>2, <1>4, <1>5, <1>6 DEF last

LEMMA PageType ==
    ASSUME NEW S \in SUBSET Rows, NEW s \in Sorted(S), NEW from \in Nat,
           NEW size \in Nat \ {0}
    PROVE  /\ Cut(s, from, from + size) \in Seq(Rows)
           /\ Len(Cut(s, from, from + size)) <= size
<1>1. s \in Seq(Rows) /\ Len(s) \in Nat /\ from + size \in Nat
  BY SortedFacts
<1>2. /\ Cut(s, from, from + size) \in Seq(Rows)
      /\ Len(Cut(s, from, from + size)) =
            IF from < CutEnd(s, from + size)
            THEN CutEnd(s, from + size) - from ELSE 0
  BY <1>1, CutFacts
<1>3. CutEnd(s, from + size) \in Nat /\ CutEnd(s, from + size) <= from + size
  BY <1>1 DEF CutEnd
<1> QED  BY <1>2, <1>3

(* A page of sorted rows: nothing between the rows before it and its last   *)
(* row is left out.                                                         *)
PageOf(s, S, from, c) ==
    /\ Range(c) \subseteq S
    /\ c # <<>> => Last(c) \in Range(c)
    /\ c # <<>> => \A x \in Range(c) : Rank[x] <= Rank[Last(c)]
    /\ \A x \in Range(c) : \E k \in 1 .. Len(s) : k > from /\ s[k] = x
    /\ \A k \in 1 .. Len(s) : k > from =>
          c # <<>> /\ (s[k] \in Range(c) \/ Rank[s[k]] > Rank[Last(c)])

LEMMA PageFacts ==
    ASSUME DistinctRows, NEW S \in SUBSET Rows, NEW s \in Sorted(S),
           NEW from \in Nat, NEW size \in Nat \ {0}
    PROVE  PageOf(s, S, from, Cut(s, from, from + size))
<1> SUFFICES ASSUME NEW c, c = Cut(s, from, from + size)
             PROVE  PageOf(s, S, from, c)
  OBVIOUS
<1> DEFINE last == CutEnd(s, from + size)
<1>1. /\ s \in Seq(S) /\ Len(s) \in Nat /\ s \in [1 .. Len(s) -> S]
      /\ \A k \in 1 .. Len(s) : Rank[s[k]] \in Nat
  BY SortedFacts, RowFacts
<1>2. /\ c \in Seq(S)
      /\ Len(c) = IF from < last THEN last - from ELSE 0
      /\ \A i \in 1 .. Len(c) : c[i] = s[from + i]
  <2>1. from + size \in Nat /\ s \in Seq(S)
    BY <1>1
  <2> DEFINE to == from + size
  <2> HIDE DEF last, to
  <2>2. /\ Cut(s, from, to) \in Seq(S)
        /\ Len(Cut(s, from, to)) =
              IF from < CutEnd(s, to) THEN CutEnd(s, to) - from ELSE 0
        /\ \A i \in 1 .. Len(Cut(s, from, to)) :
              Cut(s, from, to)[i] = s[from + i]
    <3>1. to \in Nat /\ s \in Seq(S)
      BY <2>1 DEF to
    <3> HIDE DEF Cut, CutEnd
    <3> QED  BY <3>1, CutFacts, ZenonT(30)
  <2> QED  BY <2>2 DEF last, to
<1>3. last \in Nat /\ last <= Len(s) /\ last <= from + size
  BY <1>1 DEF CutEnd
<1>4. \A k \in 1 .. Len(s) : k > from => from < last
  BY <1>1 DEF CutEnd
<1> HIDE DEF last
<1>5. DOMAIN c = 1 .. Len(c) /\ Len(c) \in Nat /\ (c # <<>> <=> Len(c) > 0)
  BY <1>2, LenProperties, EmptySeq
<1>6. ASSUME NEW x \in Range(c)
      PROVE  \E k \in 1 .. Len(s) : k > from /\ k <= last /\ s[k] = x
  <2>1. PICK i \in 1 .. Len(c) : x = c[i]
    BY <1>5 DEF Range
  <2>2. from + i \in 1 .. Len(s) /\ from + i > from /\ from + i <= last
    BY <1>1, <1>2, <1>3, <1>5
  <2> QED  BY <1>2, <2>1, <2>2
<1>7. ASSUME NEW k \in 1 .. Len(s), k > from, k <= last
      PROVE  s[k] \in Range(c)
  <2>1. k - from \in 1 .. Len(c) /\ from + (k - from) = k
    BY <1>1, <1>2, <1>3, <1>7
  <2> QED  BY <1>2, <1>5, <2>1 DEF Range
<1>8. c # <<>> => /\ last \in 1 .. Len(s) /\ last > from /\ Last(c) = s[last]
                  /\ Last(c) \in Range(c)
  <2> SUFFICES ASSUME c # <<>>
               PROVE  /\ last \in 1 .. Len(s) /\ last > from
                      /\ Last(c) = s[last] /\ Last(c) \in Range(c)
    OBVIOUS
  <2>1. from < last /\ Len(c) = last - from /\ Len(c) \in 1 .. Len(c)
    BY <1>2, <1>3, <1>5
  <2>2. last \in 1 .. Len(s) /\ from + Len(c) = last
    BY <1>1, <1>3, <2>1
  <2> QED  BY <1>2, <1>5, <2>1, <2>2 DEF Last, Range
<1>9. ASSUME c # <<>>, NEW x \in Range(c)
       PROVE  Rank[x] <= Rank[Last(c)]
  <2>1. PICK k \in 1 .. Len(s) : k <= last /\ s[k] = x
    BY <1>6
  <2>2. last \in 1 .. Len(s) /\ Last(c) = s[last]
    BY <1>8, <1>9
  <2>3. k < last => Rank[s[k]] <= Rank[s[last]]
    BY <2>2, SortedFacts
  <2> QED  BY <1>1, <1>3, <2>1, <2>2, <2>3
<1>10. ASSUME NEW k \in 1 .. Len(s), k > from
       PROVE  c # <<>> /\ (s[k] \in Range(c) \/ Rank[s[k]] > Rank[Last(c)])
  <2>1. from < last
    BY <1>4, <1>10
  <2>2. c # <<>>
    BY <1>2, <1>3, <1>5, <2>1
  <2>3. CASE k <= last
    BY <1>7, <1>10, <2>2, <2>3
  <2>4. CASE k > last
    <3>1. Rank[s[last]] < Rank[s[k]]
      BY <1>8, <2>2, <2>4, StrictlySorted
    <3>2. Rank[s[last]] \in Nat /\ Rank[s[k]] \in Nat
      BY <1>1, <1>8, <2>2
    <3> QED  BY <1>8, <2>2, <3>1, <3>2
  <2> QED  BY <1>3, <2>3, <2>4
<1>11. Range(c) \subseteq S
  BY <1>1, <1>6
<1> QED  BY <1>6, <1>8, <1>9, <1>10, <1>11 DEF PageOf

-----------------------------------------------------------------------------
(* Types.                                                                   *)

LEMMA QueryFacts ==
    ASSUME TypeOK
    PROVE  Size \in Nat \ {0} /\ Endpoint \in {"marker", "offset"}
  BY QueriesAssumption DEF TypeOK, Size, Endpoint

LEMMA MarkerFacts ==
    ASSUME TypeOK, page # <<>>
    PROVE  Marker \in Rows /\ Marker \in Range(page)
<1>1. Len(page) \in Nat /\ page \in [1 .. Len(page) -> Rows] /\ Len(page) # 0
  BY EmptySeq, LenProperties DEF TypeOK
<1> QED  BY <1>1 DEF Marker, Last, Range

(* The page behind a marker that is found.                                  *)
LEMMA MarkerPage ==
    ASSUME OrderedRows, TypeOK, FollowMarker
    PROVE  /\ Marker \in stored
           /\ \E rows \in Sorted(NotBefore(Marker)) :
                 \E i \in 1 .. Len(rows) :
                    rows[i] = Marker /\ Receive(Cut(rows, i, i + Size))
<1>1. Marker \in Rows /\ stored \subseteq Rows
  BY MarkerFacts DEF FollowMarker, TypeOK
<1>2. Marker \in stored
  BY <1>1 DEF FollowMarker, MarkerGone, RowsWith, OrderedRows, DistinctRows
<1>3. PICK head \in Sorted(RowsWith(Marker)),
           rows \in Sorted(NotBefore(Marker)) :
           Receive(PageAfter(rows, IndexOf(head, Digest[Marker]), Size))
  BY DEF FollowMarker
<1>4. /\ IndexOf(head, Digest[Marker]) \in 1 .. Len(rows)
      /\ rows[IndexOf(head, Digest[Marker])] = Marker
  BY <1>1, <1>2, SamePlace
<1> QED  BY <1>2, <1>3, <1>4 DEF PageAfter

LEMMA ReceiveType ==
    ASSUME TypeOK, NEW c \in Seq(Rows), Len(c) <= Size, Receive(c)
    PROVE  /\ page' \in Seq(Rows) /\ Len(page') <= Size'
           /\ delivered' \subseteq Rows /\ twice' \subseteq delivered'
           /\ UNCHANGED <<stored, removed, query>>
<1>1. Range(c) \subseteq Rows
  BY LenProperties DEF Range
<1> QED  BY <1>1 DEF TypeOK, Receive, Size

LEMMA TypeInit == Init => TypeOK
<1> SUFFICES ASSUME Init PROVE TypeOK
  OBVIOUS
<1>1. page \in Seq(Rows) /\ Len(page) = 0
  BY EmptySeq DEF Init
<1>2. Size \in Nat \ {0}
  BY QueriesAssumption DEF Init, Size
<1> QED  BY <1>1, <1>2 DEF Init, TypeOK

LEMMA TypeStep ==
    ASSUME OrderedRows, TypeOK, [Next]_vars
    PROVE  TypeOK'
<1>1. Size \in Nat \ {0} /\ stored \in SUBSET Rows /\ Cardinality(stored) \in Nat
  BY QueryFacts, RowFacts DEF TypeOK
<1>2. \A total : \A start \in Nat : NextIndex(start, total) \in Nat
  BY DEF NextIndex
<1>3. ASSUME NEW start \in Nat, ReceiveAt(start), lasting' \subseteq stored,
             status' \in {"new", "browsing", "done", "failed"}
      PROVE  TypeOK'
  <2>1. PICK s \in Sorted(stored) : Receive(Cut(s, start, start + Size))
    BY <1>3 DEF ReceiveAt, PageAt
  <2>2. /\ Cut(s, start, start + Size) \in Seq(Rows)
        /\ Len(Cut(s, start, start + Size)) <= Size
    BY <1>1, PageType
  <2>3. /\ page' \in Seq(Rows) /\ Len(page') <= Size'
        /\ delivered' \subseteq Rows /\ twice' \subseteq delivered'
        /\ UNCHANGED <<stored, removed, query>>
    BY <2>1, <2>2, ReceiveType
  <2>4. startIndex' \in Nat /\ next' \in Nat
    BY <1>2, <1>3 DEF ReceiveAt
  <2> QED  BY <1>3, <2>3, <2>4 DEF TypeOK
<1>4. CASE FirstPage
  BY <1>3, <1>4 DEF FirstPage
<1>5. CASE FollowIndex
  BY <1>3, <1>5 DEF FollowIndex, TypeOK
<1>6. CASE FollowMarker
  <2>1. PICK rows \in Sorted(NotBefore(Marker)) :
            \E i \in 1 .. Len(rows) : Receive(Cut(rows, i, i + Size))
    BY <1>6, MarkerPage
  <2> PICK i \in 1 .. Len(rows) : Receive(Cut(rows, i, i + Size))
    BY <2>1
  <2>2. NotBefore(Marker) \in SUBSET Rows
    BY DEF NotBefore, TypeOK
  <2>3. i \in Nat
    BY <2>2, SortedFacts
  <2>4. /\ Cut(rows, i, i + Size) \in Seq(Rows)
        /\ Len(Cut(rows, i, i + Size)) <= Size
    BY <1>1, <2>2, <2>3, PageType
  <2> QED  BY <1>6, <2>1, <2>4, ReceiveType DEF FollowMarker, TypeOK
<1>7. CASE NothingFound
  <2>1. <<>> \in Seq(Rows) /\ Len(<<>>) <= Size
    BY <1>1, EmptySeq
  <2>2. /\ page' \in Seq(Rows) /\ Len(page') <= Size'
        /\ delivered' \subseteq Rows /\ twice' \subseteq delivered'
        /\ UNCHANGED <<stored, removed, query>>
    BY <1>7, <2>1, ReceiveType DEF NothingFound
  <2>3. startIndex' \in Nat /\ next' \in Nat
    BY <1>2, <1>7 DEF NothingFound, TypeOK
  <2> QED  BY <1>7, <2>2, <2>3 DEF NothingFound, TypeOK
<1>8. CASE Fail \/ Finish
  BY <1>8 DEF Fail, Finish, TypeOK, directory, Size
<1>9. ASSUME NEW r \in Rows, Ingest(r) \/ Replace(r)
      PROVE  TypeOK'
  BY <1>9 DEF Ingest, Replace, client, TypeOK, Size
<1>10. CASE UNCHANGED vars
  BY <1>10 DEF vars, directory, client, TypeOK, Size
<1> QED
  BY <1>4, <1>5, <1>6, <1>7, <1>8, <1>9, <1>10 DEF Next, Browse

(* Pages are never longer than asked for, wherever the marker is found.     *)
THEOREM TypeCorrect ==
    ASSUME OrderedRows
    PROVE  Spec => []TypeOK
  BY TypeInit, TypeStep, PTL DEF Spec

-----------------------------------------------------------------------------
(* Browsing by markers.  The last row of the page divides the rows: what    *)
(* the client has does not come after it, and what was there all the time   *)
(* and does not come after it, the client has.                              *)
Divides ==
    /\ Marker \in delivered
    /\ \A x \in delivered : Rank[x] <= Rank[Marker]
    /\ \A x \in lasting : Rank[x] <= Rank[Marker] => x \in delivered

MarkerInv ==
    /\ twice = {}
    /\ delivered \subseteq stored \cup removed
    /\ status = "new" => delivered = {} /\ page = <<>>
    /\ page # <<>> => Divides
    /\ page = <<>> /\ status # "new" => lasting \subseteq delivered
    /\ status = "done" => page = <<>>
    /\ status = "failed" => page # <<>> /\ Marker \in removed \cup OffFormat

LEMMA MarkerFirst ==
    ASSUME DistinctRows, TypeOK, MarkerInv, FirstPage
    PROVE  MarkerInv'
<1>1. PICK s \in Sorted(stored) : Receive(Cut(s, 0, 0 + Size))
  BY DEF FirstPage, ReceiveAt, PageAt
<1> DEFINE c == Cut(s, 0, 0 + Size)
<1>2. stored \in SUBSET Rows /\ Size \in Nat \ {0} /\ 0 \in Nat
  BY QueryFacts DEF TypeOK
<1>3. /\ page' = c /\ delivered' = Range(c) /\ twice' = {}
      /\ UNCHANGED <<stored, removed, query>>
  BY <1>1 DEF Receive, FirstPage, MarkerInv
<1>4. lasting' = stored /\ status' = "browsing"
  BY DEF FirstPage
<1>5. PageOf(s, stored, 0, c)
  BY <1>2, PageFacts
<1> HIDE DEF c
<1>6. ASSUME NEW x \in stored
      PROVE  c # <<>> /\ (x \in Range(c) \/ Rank[x] > Rank[Last(c)])
  <2>1. PICK k \in 1 .. Len(s) : s[k] = x
    BY <1>2, SortedFacts
  <2> QED  BY <1>5, <2>1 DEF PageOf
<1>7. ASSUME c # <<>>, NEW x \in stored, Rank[x] <= Rank[Last(c)]
      PROVE  x \in Range(c)
  <2>1. Last(c) \in Rows /\ x \in Rows
    BY <1>2, <1>5, <1>7 DEF PageOf
  <2>2. Rank[Last(c)] \in Nat /\ Rank[x] \in Nat
    BY <2>1, RowFacts
  <2> QED  BY <1>6, <1>7, <2>2
<1>8. Marker' = Last(c)
  BY <1>3 DEF Marker
<1>9. c # <<>> => Divides'
  BY <1>3, <1>4, <1>5, <1>7, <1>8 DEF Divides, PageOf
<1> QED  BY <1>3, <1>4, <1>5, <1>6, <1>9 DEF MarkerInv, PageOf

LEMMA MarkerFollow ==
    ASSUME OrderedRows, TypeOK, MarkerInv, FollowMarker
    PROVE  MarkerInv'
<1>1. PICK rows \in Sorted(NotBefore(Marker)) :
          \E i \in 1 .. Len(rows) :
             rows[i] = Marker /\ Receive(Cut(rows, i, i + Size))
  BY MarkerPage
<1>2. PICK i \in 1 .. Len(rows) :
          rows[i] = Marker /\ Receive(Cut(rows, i, i + Size))
  BY <1>1
<1> DEFINE c == Cut(rows, i, i + Size)
           S == NotBefore(Marker)
<1>3. /\ S \in SUBSET Rows /\ S \subseteq stored /\ Size \in Nat \ {0}
      /\ Marker \in Rows
  BY QueryFacts, MarkerFacts DEF TypeOK, NotBefore, FollowMarker
<1>4. i \in Nat /\ Divides
  <2>1. Len(rows) \in Nat
    BY <1>3, SortedFacts
  <2> QED  BY <2>1 DEF MarkerInv, FollowMarker
<1>5. /\ page' = c /\ delivered' = delivered \cup Range(c)
      /\ twice' = delivered \cap Range(c)
      /\ UNCHANGED <<stored, removed, query, status, lasting>>
      /\ status = "browsing"
  BY <1>2 DEF Receive, FollowMarker, MarkerInv
<1>6. PageOf(rows, S, i, c)
  BY <1>3, <1>4, PageFacts DEF OrderedRows
<1>7. \A k \in 1 .. Len(rows) : k > i <=> Rank[Marker] < Rank[rows[k]]
  <2>1. rows \in Sorted(S) /\ rows[i] = Marker
    BY <1>2
  <2> HIDE DEF S
  <2> QED  BY <1>3, <2>1, StrictlySorted DEF OrderedRows
<1> HIDE DEF c
<1>8. \A x \in Range(c) : x \in Rows /\ Rank[x] > Rank[Marker]
  BY <1>3, <1>6, <1>7 DEF PageOf
<1>9. \A x \in Rows : Rank[x] \in Nat /\ Time[x] \in Nat
  BY RowFacts
<1>10. twice' = {}
  <2>1. \A x \in delivered : x \in Rows /\ Rank[x] <= Rank[Marker]
    BY <1>4 DEF Divides, TypeOK
  <2> QED  BY <1>3, <1>5, <1>8, <1>9, <2>1
<1>11. ASSUME NEW x \in lasting, x \notin delivered
       PROVE  c # <<>> /\ (x \in Range(c) \/ Rank[x] > Rank[Last(c)])
  <2>1. x \in stored /\ x \in Rows
    BY <1>11 DEF TypeOK
  <2>2. Rank[x] > Rank[Marker]
    BY <1>3, <1>4, <1>9, <1>11, <2>1 DEF Divides
  <2>3. x \in S
    BY <1>3, <1>9, <2>1, <2>2, OrderFacts DEF NotBefore, OrderedRows
  <2>4. PICK k \in 1 .. Len(rows) : rows[k] = x
    <3> HIDE DEF S
    <3>1. rows \in Sorted(S)
      BY DEF S
    <3> QED  BY <1>3, <2>3, <3>1, SortedFacts
  <2>5. k > i
    BY <1>7, <2>2, <2>4
  <2> QED  BY <1>6, <2>4, <2>5 DEF PageOf
<1>12. Marker' = Last(c)
  BY <1>5 DEF Marker
<1>13. c # <<>> => Divides'
  <2> SUFFICES ASSUME c # <<>> PROVE Divides'
    OBVIOUS
  <2>1. Last(c) \in Rows /\ Rank[Last(c)] > Rank[Marker]
    BY <1>6, <1>8 DEF PageOf
  <2>2. \A x \in delivered : x \in Rows /\ Rank[x] <= Rank[Last(c)]
    BY <1>3, <1>4, <1>9, <2>1 DEF Divides, TypeOK
  <2>3. ASSUME NEW x \in lasting, Rank[x] <= Rank[Last(c)]
        PROVE  x \in delivered \cup Range(c)
    <3>1. x \in Rows
      BY DEF TypeOK
    <3> QED  BY <1>9, <1>11, <2>1, <2>3, <3>1
  <2> QED  BY <1>5, <1>6, <1>12, <2>2, <2>3 DEF Divides, PageOf
<1>14. delivered' \subseteq stored' \cup removed'
  BY <1>3, <1>5, <1>6 DEF MarkerInv, PageOf
<1> QED  BY <1>5, <1>10, <1>11, <1>13, <1>14 DEF MarkerInv

(* The steps that deliver nothing.                                          *)
LEMMA MarkerNothing ==
    ASSUME OrderedRows, TypeOK, MarkerInv, NothingFound \/ Fail \/ Finish, Endpoint = "marker"
    PROVE  MarkerInv'
<1>1. CASE NothingFound
  <2>1. Range(<<>>) = {}
    BY DEF Range
  <2>2. /\ page' = <<>> /\ delivered' = delivered /\ twice' = {}
        /\ UNCHANGED <<stored, removed, query, status, lasting>>
        /\ status = "browsing" /\ page # <<>>
        /\ NotBefore(Marker) = {}
    BY <1>1, <2>1 DEF NothingFound, Receive, MarkerInv
  <2>3. ASSUME NEW x \in lasting
        PROVE  x \in delivered
    <3>1. x \in Rows /\ Marker \in Rows /\ Time[x] < Time[Marker]
      BY <2>2, MarkerFacts, RowFacts DEF TypeOK, NotBefore
    <3>2. Rank[x] <= Rank[Marker]
      BY <3>1, OrderFacts, RowFacts DEF OrderedRows
    <3> QED  BY <2>2, <3>2 DEF MarkerInv, Divides
  <2> QED  BY <2>2, <2>3 DEF MarkerInv
<1>2. CASE Fail
  <2>1. page # <<>> /\ (Marker \in OffFormat \/ MarkerGone) /\ status = "browsing"
    BY <1>2 DEF Fail, MarkerParses
  <2>2. MarkerGone => Marker \notin stored
    BY DEF MarkerGone, RowsWith
  <2>3. Marker \in removed \cup OffFormat
    BY <2>1, <2>2 DEF MarkerInv, Divides
  <2>4. /\ status' = "failed"
        /\ UNCHANGED <<stored, lasting, removed, page, delivered, twice>>
    BY <1>2 DEF Fail, directory
  <2> QED  BY <2>1, <2>3, <2>4 DEF MarkerInv, Divides, Marker
<1>3. CASE Finish
  BY <1>3 DEF Finish, directory, MarkerInv, Divides, Marker
<1> QED  BY <1>1, <1>2, <1>3

Inv == TypeOK /\ (Endpoint = "marker" => MarkerInv)

LEMMA InvInit == Init => Inv
  BY TypeInit DEF Init, Inv, MarkerInv

LEMMA InvStep ==
    ASSUME OrderedRows, Inv, [Next]_vars
    PROVE  Inv'
<1>1. TypeOK /\ TypeOK'
  BY TypeStep DEF Inv
<1>2. query' = query
  BY DEF Next, Browse, Ingest, Replace, FirstPage, FollowIndex, FollowMarker,
         NothingFound, Fail, Finish, ReceiveAt, Receive, vars, client
<1> SUFFICES ASSUME Endpoint = "marker", MarkerInv
             PROVE  MarkerInv'
  BY <1>1, <1>2 DEF Inv, Endpoint
<1>3. ASSUME NEW r \in Rows, Ingest(r) \/ Replace(r)
      PROVE  MarkerInv'
  BY <1>3 DEF Ingest, Replace, client, MarkerInv, Divides, Marker
<1>4. CASE Browse
  BY <1>1, <1>4, MarkerFirst, MarkerFollow, MarkerNothing
     DEF Browse, FollowIndex, OrderedRows
<1>5. CASE UNCHANGED vars
  BY <1>5 DEF vars, directory, client, MarkerInv, Divides, Marker
<1> QED  BY <1>3, <1>4, <1>5 DEF Next

(* No row is delivered twice by markers, whatever is ingested before or     *)
(* behind the marker, and whatever is replaced.                             *)
THEOREM NothingTwiceCorrect ==
    ASSUME OrderedRows
    PROVE  Spec => []NothingTwice
<1>1. Inv => NothingTwice
  BY DEF Inv, MarkerInv, NothingTwice
<1> QED  BY <1>1, InvInit, InvStep, PTL DEF Spec

(* Who browses by markers until there is nothing left has every row that    *)
(* was there all the time.                                                  *)
THEOREM NothingSkippedCorrect ==
    ASSUME OrderedRows, \A q \in Queries : q[1] = "marker"
    PROVE  Spec => []NothingSkipped
<1>1. Inv => NothingSkipped
  <2> SUFFICES ASSUME Inv, status = "done"
               PROVE  lasting \subseteq delivered
    BY DEF NothingSkipped
  <2>1. Endpoint = "marker"
    BY DEF Inv, TypeOK, Endpoint
  <2> QED  BY <2>1 DEF Inv, MarkerInv
<1> QED  BY <1>1, InvInit, InvStep, PTL DEF Spec

(* Browsing by markers fails only at a row that was taken away or whose     *)
(* time cannot be parsed; all that lasts up to that row is delivered.       *)
THEOREM FailsAtMarkerCorrect ==
    ASSUME OrderedRows, \A q \in Queries : q[1] = "marker"
    PROVE  Spec => []FailsAtMarker
<1>1. Inv => FailsAtMarker
  <2> SUFFICES ASSUME Inv, status = "failed"
               PROVE  /\ Marker \in removed \cup OffFormat
                      /\ \A r \in lasting :
                            Rank[r] <= Rank[Marker] => r \in delivered
    <3>1. Inv => Endpoint # "offset"
      BY DEF Inv, TypeOK, Endpoint
    <3> QED  BY <3>1 DEF FailsAtMarker
  <2>1. MarkerInv
    BY DEF Inv, TypeOK, Endpoint
  <2> QED  BY <2>1 DEF MarkerInv, Divides
<1> QED  BY <1>1, InvInit, InvStep, PTL DEF Spec

=============================================================================
