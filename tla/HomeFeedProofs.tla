--------------------------- MODULE HomeFeedProofs ---------------------------
(***************************************************************************)
(* The section arithmetic of HomeViewController is right for every feed,   *)
(* not only the mock one of six posts with six comments each.              *)
(***************************************************************************)
EXTENDS HomeFeed, TLAPS

\* The two expressions of position agree: a section of the table belongs to one
\* post, within the models, and to one of the post's four parts.
LEMMA SectionSplits ==
    ASSUME NEW section \in 0..(numberOfSections - 1)
    PROVE  /\ position(section) \in Posts
           /\ section = 4 * position(section) + (section % 4)
           /\ section % 4 \in 0..3
<1>1. Len(Comments) \in Nat
    BY FeedAssumption
<1>2. section \in Nat /\ section < 4 * Len(Comments)
    BY <1>1 DEF numberOfSections
<1>3. section % 4 \in 0..3 /\ section = 4 * (section \div 4) + (section % 4)
    BY <1>2
<1>4. position(section) = section \div 4
    BY <1>2, <1>3 DEF position
<1> QED
    BY <1>1, <1>2, <1>3, <1>4 DEF Posts

\* Two ways to count the posts.
LEMMA PositionIsQuotient ==
    ASSUME NEW section \in 0..(numberOfSections - 1)
    PROVE  position(section) = section \div 4
<1>1. section = 4 * position(section) + (section % 4) /\ section % 4 \in 0..3
    BY SectionSplits
<1>2. position(section) \in Nat /\ section \in Nat
    BY SectionSplits, FeedAssumption DEF Posts, numberOfSections
<1> DEFINE n == position(section)
           k == section % 4
<1>3. n \in Nat /\ k \in 0..3 /\ section = 4 * n + k
    BY <1>1, <1>2
<1> HIDE DEF n, k
<1>4. section \div 4 = n
    BY <1>3
<1> QED
    BY <1>4 DEF n

\* The rows of a section, from the comments of its post.
LEMMA RowsOfSection ==
    ASSUME NEW section \in 0..(numberOfSections - 1)
    PROVE  /\ Comments[position(section) + 1] \in Nat
           /\ numberOfRowsInSection(section) \in 0..2
           /\ section % 4 # 3 => numberOfRowsInSection(section) = 1
<1>1. position(section) \in Posts /\ \A n \in Posts : Comments[n + 1] \in Nat
    BY SectionSplits, FeedAssumption DEF Posts
<1>2. Comments[position(section) + 1] \in Nat
    BY <1>1
<1> QED
    BY <1>2 DEF numberOfRowsInSection

\* The gap under a row: a section that starts a post has a row, so at most one
\* section without rows, the comments of a post, is passed over.
LEMMA GapIsFooter ==
    ASSUME NEW section \in 0..(numberOfSections - 1), NEW row
    PROVE  GapBelow(section, row) \in {0, 40}
<1>1. section \in Nat /\ numberOfSections \in Nat /\ section % 4 \in 0..3
    BY SectionSplits, FeedAssumption DEF numberOfSections
<1>2. heightForFooterInSection(section) = IF section % 4 = 3 THEN 40 ELSE 0
    BY DEF heightForFooterInSection
<1>3. ASSUME section + 1 < numberOfSections, numberOfRowsInSection(section + 1) = 0
      PROVE  section % 4 # 3 /\ heightForFooterInSection(section + 1) = 40
  <2>1. section + 1 \in 0..(numberOfSections - 1)
    BY <1>1, <1>3
  <2>2. (section + 1) % 4 = 3
    BY <1>3, <2>1, RowsOfSection
  <2> QED
    BY <1>1, <2>2 DEF heightForFooterInSection
<1> QED
    BY <1>2, <1>3 DEF GapBelow

\* Every row the table can ask for is drawn as a part of its own post.
OwnRow(r) ==
    /\ r.path \in IndexPaths
    /\ r = RowAt(r.path)

Rows == [path : IndexPaths, content : Contents,
         height : {"70", "width", "60", "50"}, gap : {0, 40}]

LEMMA RowAtIsOwn ==
    ASSUME NEW p \in IndexPaths
    PROVE  RowAt(p) \in Rows /\ OwnRow(RowAt(p))
<1>1. PICK section \in 0..(numberOfSections - 1) :
          p \in {section} \X (0..(numberOfRowsInSection(section) - 1))
    BY DEF IndexPaths
<1>2. p[1] = section
    BY <1>1
<1>3. position(p[1]) \in Posts /\ p[1] % 4 \in 0..3
    BY <1>2, SectionSplits
<1>4. cellForRowAt(p[1]) \in Contents
    BY <1>3 DEF cellForRowAt, Contents
<1>5. heightForRowAt(p[1]) \in {"70", "width", "60", "50"}
    BY <1>3 DEF heightForRowAt
<1>6. RowAt(p).gap \in {0, 40}
    BY SMT, GapIsFooter, <1>1, <1>2 DEF RowAt
<1> QED
    BY <1>3, <1>4, <1>5, <1>6 DEF RowAt, Rows, OwnRow

-----------------------------------------------------------------------------

\* An index path is a section of the table and one of its rows.
LEMMA PathParts ==
    ASSUME NEW p \in IndexPaths
    PROVE  /\ p = <<p[1], p[2]>>
           /\ p[1] \in 0..(numberOfSections - 1)
           /\ p[2] \in 0..(numberOfRowsInSection(p[1]) - 1)
<1>1. PICK section \in 0..(numberOfSections - 1) :
          p \in {section} \X (0..(numberOfRowsInSection(section) - 1))
    BY DEF IndexPaths
<1> QED
    BY <1>1

LEMMA PathOf ==
    ASSUME NEW section \in 0..(numberOfSections - 1),
           NEW row \in 0..(numberOfRowsInSection(section) - 1)
    PROVE  <<section, row>> \in IndexPaths
<1>1. <<section, row>> \in {section} \X (0..(numberOfRowsInSection(section) - 1))
    OBVIOUS
<1> QED
    BY <1>1 DEF IndexPaths

\* The row that scrolls in below: the next of its section, else the first of the
\* next section or, if nobody commented on the post, of the one after that.
LEMMA NextPath ==
    ASSUME NEW p \in IndexPaths, NEW q \in Below(p)
    PROVE  \/ /\ p[2] + 1 < numberOfRowsInSection(p[1])
              /\ q = <<p[1], p[2] + 1>>
           \/ /\ p[2] + 1 = numberOfRowsInSection(p[1])
              /\ p[1] + 1 < numberOfSections /\ numberOfRowsInSection(p[1] + 1) > 0
              /\ q = <<p[1] + 1, 0>>
           \/ /\ p[2] + 1 = numberOfRowsInSection(p[1])
              /\ p[1] + 2 < numberOfSections /\ numberOfRowsInSection(p[1] + 1) = 0
              /\ q = <<p[1] + 2, 0>>
<1> DEFINE N == numberOfSections
           rows(section) == numberOfRowsInSection(section)
<1>1. N \in Nat /\ N % 4 = 0
    BY FeedAssumption DEF numberOfSections
<1>2. /\ q \in IndexPaths /\ Precedes(p, q)
      /\ \A t \in IndexPaths : Precedes(p, t) => ~Precedes(t, q)
    BY DEF Below
<1>3. /\ p = <<p[1], p[2]>> /\ p[1] \in 0..(N - 1) /\ p[2] \in 0..(rows(p[1]) - 1)
      /\ q = <<q[1], q[2]>> /\ q[1] \in 0..(N - 1) /\ q[2] \in 0..(rows(q[1]) - 1)
    BY <1>2, PathParts
<1>4. \A section \in 0..(N - 1) :
          rows(section) \in 0..2 /\ (section % 4 # 3 => rows(section) = 1)
    BY RowsOfSection
<1>5. \A section \in 0..(N - 1) : \A row \in 0..(rows(section) - 1) :
          <<section, row>> \in IndexPaths
    BY PathOf
<1>6. \A section, row : <<section, row>> \in IndexPaths =>
          \/ ~(p[1] < section \/ (p[1] = section /\ p[2] < row))
          \/ ~(section < q[1] \/ (section = q[1] /\ row < q[2]))
    BY <1>2 DEF Precedes
<1>7. p[1] < q[1] \/ (p[1] = q[1] /\ p[2] < q[2])
    BY <1>2 DEF Precedes
<1> HIDE DEF N, rows
<1>8. CASE p[2] + 1 < rows(p[1])
  <2>1. p[2] + 1 \in 0..(rows(p[1]) - 1)
    BY <1>3, <1>4, <1>8
  <2>2. <<p[1], p[2] + 1>> \in IndexPaths
    BY <1>3, <1>5, <2>1
  <2>3. ~(p[1] < q[1] \/ (p[1] = q[1] /\ p[2] + 1 < q[2]))
    BY <1>3, <1>4, <1>6, <2>2
  <2>4. q[1] = p[1] /\ q[2] = p[2] + 1
    BY <1>1, <1>3, <1>4, <1>7, <2>3
  <2> QED
    BY <1>3, <1>8, <2>4 DEF rows
<1>9. CASE p[2] + 1 = rows(p[1])
  <2>1. p[1] < q[1]
    BY <1>1, <1>3, <1>4, <1>7, <1>9
  <2>2. p[1] + 1 \in 0..(N - 1)
    BY <1>1, <1>3, <2>1
  <2>3. CASE rows(p[1] + 1) > 0
    <3>1. 0 \in 0..(rows(p[1] + 1) - 1)
      BY <1>4, <2>2, <2>3
    <3>2. <<p[1] + 1, 0>> \in IndexPaths
      BY <1>5, <2>2, <3>1
    <3>3. ~(p[1] + 1 < q[1] \/ (p[1] + 1 = q[1] /\ 0 < q[2]))
      BY <1>3, <1>6, <2>2, <3>2
    <3>4. q[1] = p[1] + 1 /\ q[2] = 0
      BY <1>1, <1>3, <1>4, <2>1, <3>3
    <3> QED
      BY <1>1, <1>3, <1>9, <2>2, <2>3, <3>4 DEF rows, N
  <2>4. CASE rows(p[1] + 1) = 0
    <3>1. (p[1] + 1) % 4 = 3
      BY <1>4, <2>2, <2>4
    <3>2. q[1] # p[1] + 1
      BY <1>3, <2>4
    <3>3. p[1] + 2 \in 0..(N - 1) /\ (p[1] + 2) % 4 # 3
      BY <1>1, <1>3, <2>1, <3>1, <3>2
    <3>4. 0 \in 0..(rows(p[1] + 2) - 1)
      BY <1>4, <3>3
    <3>5. <<p[1] + 2, 0>> \in IndexPaths
      BY <1>5, <3>3, <3>4
    <3>6. ~(p[1] + 2 < q[1] \/ (p[1] + 2 = q[1] /\ 0 < q[2]))
      BY <1>3, <1>6, <3>3, <3>5
    <3>7. q[1] = p[1] + 2 /\ q[2] = 0
      BY <1>1, <1>3, <1>4, <2>1, <3>2, <3>6
    <3> QED
      BY <1>1, <1>3, <1>9, <2>4, <3>3, <3>7 DEF rows, N
  <2> QED
    BY <1>4, <2>2, <2>3, <2>4
<1> QED
  <2>1. p[2] + 1 < rows(p[1]) \/ p[2] + 1 = rows(p[1])
    BY <1>3, <1>4
  <2> QED
    BY <1>8, <1>9, <2>1

\* A row of the feed: its post, and its place in the post.
FeedRow(p) == <<position(p[1]), (p[1] % 4) + p[2] + 1>>

\* The places of a post are those its reader sees.
LEMMA PlacesOfPost ==
    ASSUME NEW comments \in Nat
    PROVE  DOMAIN PostRows(comments) = 1..(IF comments > 2 THEN 5 ELSE 3 + comments)
    BY DEF PostRows

\* A section after one of the same post, and the first of the next post.
LEMMA SectionAfter ==
    ASSUME NEW section \in 0..(numberOfSections - 1), NEW step \in {1, 2},
           section + step < numberOfSections
    PROVE  IF (section % 4) + step < 4
           THEN /\ position(section + step) = position(section)
                /\ (section + step) % 4 = (section % 4) + step
           ELSE /\ position(section + step) = position(section) + 1
                /\ (section + step) % 4 = (section % 4) + step - 4
<1>1. Len(Comments) \in Nat /\ numberOfSections = Len(Comments) * 4
    BY FeedAssumption DEF numberOfSections
<1>2. section + step \in 0..(numberOfSections - 1)
    BY <1>1
<1>3. /\ section = 4 * position(section) + (section % 4)
      /\ position(section) \in Nat /\ section % 4 \in 0..3
    BY <1>1, SectionSplits DEF Posts
<1>4. /\ section + step = 4 * position(section + step) + ((section + step) % 4)
      /\ position(section + step) \in Nat /\ (section + step) % 4 \in 0..3
    BY <1>1, <1>2, SectionSplits DEF Posts
<1> DEFINE n == position(section)
           m == position(section + step)
           k == section % 4
           j == (section + step) % 4
<1>5. n \in Nat /\ m \in Nat /\ k \in 0..3 /\ j \in 0..3 /\ 4 * n + k + step = 4 * m + j
    BY <1>3, <1>4
<1> HIDE DEF n, m, k, j
<1>6. IF k + step < 4 THEN m = n /\ j = k + step ELSE m = n + 1 /\ j = k + step - 4
    BY <1>5
<1> QED
    BY <1>6 DEF n, m, k, j

\* A row of the table is drawn as the row of the post at its place.
LEMMA RowIsPostRow ==
    ASSUME NEW p \in IndexPaths
    PROVE  LET r == RowAt(p)
               rows == PostRows(Comments[PostOf(r) + 1])
           IN  /\ Place(r) \in DOMAIN rows
               /\ [cell |-> r.content.cell, height |-> r.height, gap |-> r.gap] = rows[Place(r)]
<1> DEFINE section == p[1]
           row == p[2]
           comments == Comments[position(p[1]) + 1]
           part == p[1] % 4
           last == IF comments > 2 THEN 5 ELSE 3 + comments
<1>1. section \in 0..(numberOfSections - 1) /\ row \in 0..(numberOfRowsInSection(section) - 1)
    BY PathParts
<1>2. comments \in Nat /\ part \in 0..3
    BY <1>1, SectionSplits, RowsOfSection
<1>3. numberOfRowsInSection(section) = IF part # 3 THEN 1 ELSE IF comments > 2 THEN 2 ELSE comments
    BY DEF numberOfRowsInSection
<1>4. row \in Nat /\ part + row + 1 \in 1..last /\ (part # 3 => row = 0)
    BY <1>1, <1>2, <1>3
<1>5. cellForRowAt(section).cell = <<"header", "post", "actions", "comment", "comment">>[part + row + 1]
  <2>1. cellForRowAt(section).cell =
            CASE part = 0 -> "header" [] part = 1 -> "post" [] part = 2 -> "actions"
              [] part = 3 -> "comment"
    BY <1>2 DEF cellForRowAt
  <2>2. part = 3 => row \in {0, 1}
    BY <1>1, <1>2, <1>3
  <2> HIDE DEF section, row, comments, part
  <2> QED
    BY <1>2, <1>4, <2>1, <2>2
<1>6. heightForRowAt(section) = <<"70", "width", "60", "50", "50">>[part + row + 1]
  <2>1. heightForRowAt(section) =
            CASE part = 0 -> "70" [] part = 1 -> "width" [] part = 2 -> "60" [] part = 3 -> "50"
    BY DEF heightForRowAt
  <2>2. part = 3 => row \in {0, 1}
    BY <1>1, <1>2, <1>3
  <2> HIDE DEF section, row, comments, part
  <2> QED
    BY <1>2, <1>4, <2>1, <2>2
<1>7. GapBelow(section, row) = IF part + row + 1 = last THEN 40 ELSE 0
  <2>1. heightForFooterInSection(section) = IF part = 3 THEN 40 ELSE 0
    BY DEF heightForFooterInSection
  <2>2. numberOfSections \in Nat /\ numberOfSections % 4 = 0 /\ section \in Nat
    BY <1>1, FeedAssumption DEF numberOfSections
  <2>3. CASE part = 3
    <3>1. section + 1 < numberOfSections => numberOfRowsInSection(section + 1) = 1
      <4>1. SUFFICES ASSUME section + 1 < numberOfSections
                     PROVE  numberOfRowsInSection(section + 1) = 1
        OBVIOUS
      <4>2. section + 1 \in 0..(numberOfSections - 1) /\ (section + 1) % 4 # 3
        BY <2>2, <2>3, <4>1
      <4> QED
        BY <4>2, RowsOfSection
    <3>2. GapBelow(section, row) =
              IF row + 1 # numberOfRowsInSection(section) THEN 0 ELSE 40
      BY <2>1, <2>3, <3>1 DEF GapBelow
    <3> HIDE DEF section, row, comments, part
    <3> QED
      BY <1>1, <1>2, <1>3, <1>4, <2>3, <3>2
  <2>4. CASE part # 3
    <3>1. section + 1 \in 0..(numberOfSections - 1)
      BY <2>2, <2>4, <1>1
    <3>2. /\ position(section + 1) = position(section)
          /\ (section + 1) % 4 = part + 1
      BY <1>1, <1>2, <2>2, <2>4, <3>1, SectionAfter
    <3>3. numberOfRowsInSection(section + 1) =
              IF part + 1 # 3 THEN 1 ELSE IF comments > 2 THEN 2 ELSE comments
      BY <3>2 DEF numberOfRowsInSection
    <3>4. heightForFooterInSection(section + 1) = IF part + 1 = 3 THEN 40 ELSE 0
      BY <3>2 DEF heightForFooterInSection
    <3>5. row + 1 = numberOfRowsInSection(section)
      BY <1>3, <1>4, <2>4
    <3>6. GapBelow(section, row) = IF numberOfRowsInSection(section + 1) = 0 THEN 40 ELSE 0
      <4>1. section + 1 < numberOfSections
        BY <2>2, <3>1
      <4>2. GapBelow(section, row) =
                IF numberOfRowsInSection(section + 1) = 0
                THEN 0 + heightForFooterInSection(section + 1) ELSE 0
        BY <2>1, <2>4, <3>5, <4>1 DEF GapBelow
      <4>3. numberOfRowsInSection(section + 1) = 0 => part + 1 = 3
        BY <3>3
      <4> QED
        BY <3>4, <4>2, <4>3
    <3> HIDE DEF section, row, comments, part
    <3> QED
      BY <1>2, <1>4, <2>4, <3>3, <3>6
  <2> QED
    BY <2>3, <2>4
<1>8. /\ PostOf(RowAt(p)) = position(section) /\ RowAt(p).path = p
      /\ RowAt(p).content = cellForRowAt(section) /\ RowAt(p).height = heightForRowAt(section)
      /\ RowAt(p).gap = GapBelow(section, row)
    BY <1>1, PositionIsQuotient DEF RowAt, PostOf
<1>9. Place(RowAt(p)) = part + row + 1
    BY <1>8 DEF Place
<1> DEFINE k == part + row + 1
<1>10. PostRows(comments)[k] =
           [cell |-> <<"header", "post", "actions", "comment", "comment">>[k],
            height |-> <<"70", "width", "60", "50", "50">>[k],
            gap |-> IF k = last THEN 40 ELSE 0]
    BY <1>4 DEF PostRows
<1> QED
    BY <1>2, <1>4, <1>5, <1>6, <1>7, <1>8, <1>9, <1>10, PlacesOfPost

\* The row below is the next of the post or the first of the next post.
LEMMA BelowFollows ==
    ASSUME NEW p \in IndexPaths, NEW q \in Below(p)
    PROVE  FeedRow(q) = IF FeedRow(p)[2] + 1 \in DOMAIN PostRows(Comments[FeedRow(p)[1] + 1])
                        THEN <<FeedRow(p)[1], FeedRow(p)[2] + 1>>
                        ELSE <<FeedRow(p)[1] + 1, 1>>
<1> DEFINE section == p[1]
           row == p[2]
           comments == Comments[position(p[1]) + 1]
           part == p[1] % 4
           last == IF comments > 2 THEN 5 ELSE 3 + comments
<1>1. section \in 0..(numberOfSections - 1) /\ row \in 0..(numberOfRowsInSection(section) - 1)
    BY PathParts
<1>2. comments \in Nat /\ part \in 0..3 /\ position(section) \in Nat
  <2>1. position(section) \in Posts /\ part \in 0..3
    BY <1>1, SectionSplits
  <2>2. comments \in Nat
    BY <1>1, RowsOfSection
  <2> QED
    BY <2>1, <2>2, FeedAssumption DEF Posts
<1>3. numberOfRowsInSection(section) = IF part # 3 THEN 1 ELSE IF comments > 2 THEN 2 ELSE comments
    BY DEF numberOfRowsInSection
<1>4. numberOfSections \in Nat /\ numberOfSections % 4 = 0 /\ section \in Nat /\ row \in Nat
    BY <1>1, FeedAssumption DEF numberOfSections
<1>5. SUFFICES FeedRow(q) = IF part + row + 2 \in 1..last
                            THEN <<position(section), part + row + 2>>
                            ELSE <<position(section) + 1, 1>>
  <2>1. FeedRow(p) = <<position(section), part + row + 1>> /\ part + row + 1 + 1 = part + row + 2
    BY <1>2, <1>4 DEF FeedRow
  <2> QED
    BY <1>2, <2>1, PlacesOfPost
<1>6. CASE row + 1 < numberOfRowsInSection(section) /\ q = <<section, row + 1>>
  <2>1. part = 3 /\ part + row + 2 \in 1..last
    <3> HIDE DEF section, row, comments, part
    <3> QED BY <1>2, <1>3, <1>4, <1>6
  <2>2. FeedRow(q) = <<position(section), part + (row + 1) + 1>>
    BY <1>6 DEF FeedRow
  <2> QED
    BY <1>2, <1>4, <2>1, <2>2
<1>7. CASE /\ row + 1 = numberOfRowsInSection(section)
           /\ section + 1 < numberOfSections /\ numberOfRowsInSection(section + 1) > 0
           /\ q = <<section + 1, 0>>
  <2>1. FeedRow(q) = <<position(section + 1), ((section + 1) % 4) + 0 + 1>>
    BY <1>7 DEF FeedRow
  <2>2. CASE part = 3
    <3>1. position(section + 1) = position(section) + 1 /\ (section + 1) % 4 = 0
      BY <1>1, <1>7, <2>2, SectionAfter
    <3>2. part + row + 2 \notin 1..last
      <4> HIDE DEF section, row, comments, part
      <4> QED BY <1>2, <1>3, <1>4, <1>7, <2>2
    <3> QED
      BY <2>1, <3>1, <3>2
  <2>3. CASE part # 3
    <3>1. position(section + 1) = position(section) /\ (section + 1) % 4 = part + 1
      BY <1>1, <1>2, <1>7, <2>3, SectionAfter
    <3>2. row = 0 /\ numberOfRowsInSection(section + 1) =
                         IF part + 1 # 3 THEN 1 ELSE IF comments > 2 THEN 2 ELSE comments
      BY <1>3, <1>4, <1>7, <2>3, <3>1 DEF numberOfRowsInSection
    <3>3. part + row + 2 \in 1..last
      <4> HIDE DEF section, row, comments, part
      <4> QED BY <1>2, <1>7, <2>3, <3>2
    <3> QED
      BY <1>2, <2>1, <3>1, <3>2, <3>3
  <2> QED
    BY <2>2, <2>3
<1>8. CASE /\ row + 1 = numberOfRowsInSection(section)
           /\ section + 2 < numberOfSections /\ numberOfRowsInSection(section + 1) = 0
           /\ q = <<section + 2, 0>>
  <2>1. FeedRow(q) = <<position(section + 2), ((section + 2) % 4) + 0 + 1>>
    BY <1>8 DEF FeedRow
  <2>2. section + 1 \in 0..(numberOfSections - 1) /\ section + 1 < numberOfSections
    BY <1>4, <1>8
  <2>3. (section + 1) % 4 = 3
    BY <1>8, <2>2, RowsOfSection
  <2>4. part = 2
    BY <1>4, <2>3
  <2>5. position(section + 1) = position(section)
    BY <1>1, <2>2, <2>4, SectionAfter
  <2>6. comments = 0 /\ row = 0
    BY <1>2, <1>3, <1>4, <1>8, <2>3, <2>4, <2>5 DEF numberOfRowsInSection
  <2>7. position(section + 2) = position(section) + 1 /\ (section + 2) % 4 = 0
    BY <1>1, <1>8, <2>4, SectionAfter
  <2>8. part + row + 2 \notin 1..last
    BY <2>4, <2>6
  <2> QED
    BY <2>1, <2>7, <2>8
<1> QED
    BY <1>6, <1>7, <1>8, NextPath

-----------------------------------------------------------------------------

\* Every row on the screen is right below the one before it.
Adjacent(rows) == \A i \in 1..(Len(rows) - 1) : rows[i + 1].path \in Below(rows[i].path)

\* The screen is never empty and holds rows the data source made, each right
\* below the one before it.
IInv ==
    /\ shown \in Seq(Rows) /\ Len(shown) > 0
    /\ \A i \in 1..Len(shown) : OwnRow(shown[i])
    /\ Adjacent(shown)
    /\ modal \in {"none", "options", "alert"}
    /\ chosen \in Titles \cup {"none"}
    /\ reports \in BOOLEAN

LEMMA InitIInv == Init => IInv
<1> SUFFICES ASSUME Init PROVE IInv
    OBVIOUS
<1>1. numberOfRowsInSection(0) = 1 /\ 0 \in 0..(numberOfSections - 1)
    BY FeedAssumption DEF numberOfRowsInSection, numberOfSections
<1>2. <<0, 0>> \in {0} \X (0..(numberOfRowsInSection(0) - 1))
    BY <1>1
<1>3. <<0, 0>> \in IndexPaths
    BY <1>1, <1>2 DEF IndexPaths
<1>4. RowAt(<<0, 0>>) \in Rows /\ OwnRow(RowAt(<<0, 0>>))
    BY <1>3, RowAtIsOwn
<1> DEFINE r == RowAt(<<0, 0>>)
<1>5. shown = <<r>> /\ modal = "none" /\ chosen = "none" /\ reports = FALSE
    BY DEF Init
<1> HIDE DEF r
<1>6. /\ shown \in Seq(Rows) /\ Len(shown) > 0
      /\ \A i \in 1..Len(shown) : OwnRow(shown[i])
      /\ Adjacent(shown)
    <2>1. r \in Rows /\ OwnRow(r)
      BY <1>4 DEF r
    <2> QED
      BY <1>5, <2>1 DEF Adjacent
<1> QED
    BY <1>5, <1>6 DEF IInv

LEMMA StepIInv == IInv /\ [Next]_vars => IInv'
<1> SUFFICES ASSUME IInv, [Next]_vars PROVE IInv'
    OBVIOUS
<1>1. CASE ScrollDown
  <2>1. PICK p \in Below(shown[Len(shown)].path) :
            shown' = IF Len(Append(shown, RowAt(p))) > Screen
                     THEN Tail(Append(shown, RowAt(p))) ELSE Append(shown, RowAt(p))
    BY <1>1 DEF ScrollDown
  <2>2. RowAt(p) \in Rows /\ OwnRow(RowAt(p)) /\ RowAt(p).path = p
    BY <2>1, RowAtIsOwn DEF Below, RowAt
  <2> DEFINE longer == Append(shown, RowAt(p))
  <2>3. /\ longer \in Seq(Rows) /\ Len(longer) > 1
        /\ \A i \in 1..Len(longer) : OwnRow(longer[i])
        /\ Adjacent(longer)
    <3> DEFINE new == RowAt(p)
    <3>1. new \in Rows /\ OwnRow(new) /\ new.path \in Below(shown[Len(shown)].path)
      BY <2>2
    <3>2. longer = Append(shown, new)
      OBVIOUS
    <3> HIDE DEF longer, new
    <3>3. /\ longer \in Seq(Rows) /\ Len(longer) = Len(shown) + 1
          /\ longer[Len(longer)] = new
          /\ \A i \in 1..Len(shown) : longer[i] = shown[i]
      BY <3>1, <3>2 DEF IInv
    <3>4. \A i \in 1..Len(longer) : OwnRow(longer[i])
      BY <3>1, <3>3 DEF IInv
    <3>5. Adjacent(longer)
      BY <3>1, <3>3 DEF IInv, Adjacent
    <3> QED
      BY <3>3, <3>4, <3>5 DEF IInv
  <2>4. /\ Tail(longer) \in Seq(Rows) /\ Len(Tail(longer)) > 0
        /\ \A i \in 1..Len(Tail(longer)) : OwnRow(Tail(longer)[i])
        /\ Adjacent(Tail(longer))
    <3> HIDE DEF longer
    <3> QED BY <2>3 DEF Adjacent
  <2>5. shown' = longer \/ shown' = Tail(longer)
    BY <2>1
  <2>6. /\ shown' \in Seq(Rows) /\ Len(shown') > 0
        /\ \A i \in 1..Len(shown') : OwnRow(shown'[i])
        /\ Adjacent(shown')
    <3> HIDE DEF longer
    <3>1. CASE shown' = longer
      BY <2>3, <3>1
    <3>2. CASE shown' = Tail(longer)
      BY <2>4, <3>2
    <3> QED BY <2>5, <3>1, <3>2
  <2> QED
    BY <1>1, <2>6 DEF ScrollDown, IInv, OwnRow, Adjacent
<1>2. CASE ScrollUp
  <2>1. PICK p \in Above(shown[1].path) : shown' = <<RowAt(p)>> \o SubSeq(shown, 1, Screen - 1)
    BY <1>2 DEF ScrollUp
  <2>2. /\ RowAt(p) \in Rows /\ OwnRow(RowAt(p))
        /\ RowAt(p).path = p /\ shown[1].path \in Below(p)
    BY <2>1, RowAtIsOwn DEF Above, RowAt
  <2> DEFINE rest == SubSeq(shown, 1, Screen - 1)
             new == RowAt(p)
  <2>3. Len(shown) = Screen /\ Screen \in Nat \ {0}
    BY <1>2, FeedAssumption DEF ScrollUp
  <2>4. /\ rest \in Seq(Rows)
        /\ \A i \in 1..Len(rest) : OwnRow(rest[i])
        /\ Len(rest) = Len(shown) - 1 /\ \A i \in 1..Len(rest) : rest[i] = shown[i]
    BY <2>3 DEF IInv
  <2>5. /\ shown' \in Seq(Rows) /\ Len(shown') > 0
        /\ \A i \in 1..Len(shown') : OwnRow(shown'[i])
        /\ Adjacent(shown')
    <3>1. /\ new \in Rows /\ OwnRow(new) /\ shown' = <<new>> \o rest
          /\ shown[1].path \in Below(new.path)
      BY <2>1, <2>2
    <3> HIDE DEF rest, new
    <3>2. /\ shown' \in Seq(Rows) /\ Len(shown') = Len(rest) + 1
          /\ shown'[1] = new /\ \A i \in 2..Len(shown') : shown'[i] = rest[i - 1]
      BY <2>4, <3>1
    <3>3. \A i \in 1..Len(shown') : OwnRow(shown'[i])
      BY <2>4, <3>1, <3>2
    <3>4. Adjacent(shown')
      <4>1. SUFFICES ASSUME NEW i \in 1..(Len(shown') - 1)
                     PROVE  shown'[i + 1].path \in Below(shown'[i].path)
        BY DEF Adjacent
      <4>2. shown'[i + 1] = shown[i] /\ Len(shown) \in Nat
        BY <2>4, <3>2, <4>1 DEF IInv
      <4>3. CASE i = 1
        BY <3>1, <3>2, <4>2, <4>3
      <4>4. CASE i # 1
        <5>1. i - 1 \in 1..(Len(shown) - 1) /\ (i - 1) + 1 = i
          BY <2>4, <3>2, <4>1, <4>2, <4>4
        <5>2. shown'[i] = shown[i - 1]
          BY <2>4, <3>2, <4>1, <4>2, <4>4
        <5>3. shown[(i - 1) + 1].path \in Below(shown[i - 1].path)
          BY <5>1 DEF IInv, Adjacent
        <5> QED
          BY <4>2, <5>1, <5>2, <5>3
      <4> QED
        BY <4>3, <4>4
    <3> QED
      BY <2>4, <3>2, <3>3, <3>4
  <2> QED
    BY <1>2, <2>5 DEF ScrollUp, IInv, OwnRow, Adjacent
<1>3. CASE didTapMoreButton \/ didTapActionButton \/ DidTapOK
    BY <1>3 DEF didTapMoreButton, didTapActionButton, DidTapOK, IInv, Adjacent
<1>4. ASSUME NEW title \in Titles, DidChooseOption(title)
      PROVE  IInv'
    BY <1>4 DEF DidChooseOption, IInv, Adjacent
<1>5. CASE UNCHANGED vars
    BY <1>5 DEF vars, IInv, Adjacent
<1> QED
    BY <1>1, <1>2, <1>3, <1>4, <1>5 DEF Next

LEMMA RowsFollow == IInv => ScreenIsPieceOfFeed
<1> SUFFICES ASSUME IInv, NEW i \in 1..Len(shown)
             PROVE  LET r == shown[i]
                        rows == PostRows(Comments[PostOf(r) + 1])
                    IN  /\ Place(r) \in DOMAIN rows
                        /\ [cell |-> r.content.cell, height |-> r.height, gap |-> r.gap]
                               = rows[Place(r)]
                        /\ i < Len(shown) =>
                             <<PostOf(shown[i + 1]), Place(shown[i + 1])>> =
                                 IF Place(r) + 1 \in DOMAIN rows
                                 THEN <<PostOf(r), Place(r) + 1>> ELSE <<PostOf(r) + 1, 1>>
    BY DEF ScreenIsPieceOfFeed
<1>1. shown[i].path \in IndexPaths /\ shown[i] = RowAt(shown[i].path)
    BY DEF IInv, OwnRow
<1>2. \A j \in 1..Len(shown) : <<PostOf(shown[j]), Place(shown[j])>> = FeedRow(shown[j].path)
  <2>1. SUFFICES ASSUME NEW j \in 1..Len(shown)
                 PROVE  <<PostOf(shown[j]), Place(shown[j])>> = FeedRow(shown[j].path)
    OBVIOUS
  <2>2. shown[j] = RowAt(shown[j].path)
    BY DEF IInv, OwnRow
  <2>3. PostOf(shown[j]) = position(shown[j].path[1])
    <3>1. shown[j].path[1] \in 0..(numberOfSections - 1)
      BY PathParts DEF IInv, OwnRow
    <3> QED
      BY <3>1, PositionIsQuotient DEF PostOf
  <2> QED
    BY <2>3 DEF FeedRow, Place
<1>3. ASSUME i < Len(shown)
      PROVE  <<PostOf(shown[i + 1]), Place(shown[i + 1])>> =
                 IF Place(shown[i]) + 1 \in DOMAIN PostRows(Comments[PostOf(shown[i]) + 1])
                 THEN <<PostOf(shown[i]), Place(shown[i]) + 1>> ELSE <<PostOf(shown[i]) + 1, 1>>
  <2>1. i \in 1..(Len(shown) - 1) /\ i + 1 \in 1..Len(shown)
    BY <1>3 DEF IInv
  <2>2. shown[i + 1].path \in Below(shown[i].path)
    BY <2>1 DEF IInv, Adjacent
  <2>3. FeedRow(shown[i].path) = <<PostOf(shown[i]), Place(shown[i])>>
    BY <1>2
  <2>4. FeedRow(shown[i + 1].path) = <<PostOf(shown[i + 1]), Place(shown[i + 1])>>
    BY <1>2, <2>1
  <2> DEFINE f == FeedRow(shown[i].path)
  <2>5. FeedRow(shown[i + 1].path) =
            IF f[2] + 1 \in DOMAIN PostRows(Comments[f[1] + 1])
            THEN <<f[1], f[2] + 1>> ELSE <<f[1] + 1, 1>>
    BY <1>1, <2>2, BelowFollows
  <2>6. f[1] = PostOf(shown[i]) /\ f[2] = Place(shown[i])
    BY <2>3
  <2> HIDE DEF f
  <2> QED
    BY <2>4, <2>5, <2>6
<1>4. /\ Place(shown[i]) \in DOMAIN PostRows(Comments[PostOf(shown[i]) + 1])
      /\ [cell |-> shown[i].content.cell, height |-> shown[i].height, gap |-> shown[i].gap]
             = PostRows(Comments[PostOf(shown[i]) + 1])[Place(shown[i])]
  <2> DEFINE r == RowAt(shown[i].path)
  <2>1. /\ Place(r) \in DOMAIN PostRows(Comments[PostOf(r) + 1])
        /\ [cell |-> r.content.cell, height |-> r.height, gap |-> r.gap]
               = PostRows(Comments[PostOf(r) + 1])[Place(r)]
    BY <1>1, RowIsPostRow
  <2>2. r = shown[i]
    BY <1>1
  <2> HIDE DEF r
  <2> QED
    BY <2>1, <2>2
<1> QED
    BY <1>3, <1>4

\* The screen is a piece of the feed for every feed and every screen: posts with
\* one comment or with none, which the mock models lack, are laid out as well.
THEOREM FeedReadsInOrder == Spec => []ScreenIsPieceOfFeed
<1>1. IInv /\ [Next]_vars => IInv'
    BY StepIInv
<1> QED
    BY InitIInv, <1>1, RowsFollow, PTL DEF Spec

\* The feed's type invariant holds for every feed.
THEOREM FeedTypeCorrect == Spec => []TypeOK
<1>1. IInv => TypeOK
    BY DEF IInv, TypeOK, Rows
<1>2. IInv /\ [Next]_vars => IInv'
    BY StepIInv
<1> QED
    BY InitIInv, <1>1, <1>2, PTL DEF Spec
=============================================================================
