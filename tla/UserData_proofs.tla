-------------------------- MODULE UserData_proofs --------------------------
(***************************************************************************)
(* Proofs about UserData, for any number of users, positions, passes and   *)
(* changes, any width of a code and any buffers: replies are one snapshot  *)
(* of a user's rows, buffers are overrun only by too many records, and the *)
(* hash of a user neither falls behind a reply nor goes back.              *)
(*                                                                         *)
(* A handler is followed row by row: the vector lists the items of the     *)
(* rows already fetched, in order, and the result holds the others.        *)
(***************************************************************************)
EXTENDS UserData, FiniteSetTheorems, TLAPS

-----------------------------------------------------------------------------
(* Rows, items and records as values. *)

Row  == ItemsOf(Codes)
Pass == [pass : Passes]
Rec  == ItemsOf(1 .. Word - 1)

Fields == [code : 0 .. Word - 1, version : {-1} \cup Versions]
Hashes == [Users -> [1 .. Positions -> Fields]]

(* What is written to a hash for a row. *)
Field(row) == [code |-> Cast(row.code), version |-> row.version]

(* The rows that a query of that kind gives. *)
IsRows(kind, rows) ==
  IF kind = "passes" THEN rows \in Seq(Pass)
  ELSE rows \in [1 .. Positions -> Row] /\ \A p \in 1 .. Positions : rows[p].position = p

(* Rows and passes can be told apart by their fields. *)
LEMMA Shapes ==
  /\ \A r \in Row : /\ "pass" \notin DOMAIN r /\ "code" \in DOMAIN r
                    /\ r.position \in 1 .. Positions /\ r.version \in Versions /\ r.code \in Codes
  /\ \A r \in Pass : "pass" \in DOMAIN r /\ "code" \notin DOMAIN r
  BY DEF Row, Pass, ItemsOf

(* A row that std::stoi can read becomes a record, unless it is empty. *)
LEMMA ItemIs ==
  ASSUME NEW r \in Row
  PROVE  /\ Item(r).position = r.position /\ Item(r).version = r.version
         /\ Item(r).code = Cast(r.code)
         /\ Readable(r) => Cast(r.code) \in 0 .. Word - 1
         /\ Readable(r) /\ ~ Empty(r) => Item(r) \in Rec
  <1>1. /\ r \in [position : 1 .. Positions, code : Codes, version : Versions]
        /\ "pass" \notin DOMAIN r
    BY Shapes DEF Row, ItemsOf
  <1>2. /\ Item(r).position = r.position /\ Item(r).version = r.version
        /\ Item(r).code = Cast(r.code)
    BY <1>1 DEF Item
  <1>3. Readable(r) => r.code \in Int
    BY <1>1, DataAssumption DEF Readable
  <1>4. ASSUME Readable(r) PROVE Cast(r.code) \in 0 .. Word - 1
    <2>1. Word \in Nat /\ Word > 0
      BY DataAssumption
    <2>2. \A c \in Int : c % Word \in 0 .. Word - 1
      BY <2>1
    <2> QED
      BY <1>3, <1>4, <2>2 DEF Cast
  <1>5. ASSUME Readable(r), ~ Empty(r) PROVE Item(r) \in Rec
    <2>1. Cast(r.code) \in 1 .. Word - 1
      BY <1>4, <1>5, DataAssumption DEF Empty
    <2> QED
      BY <1>1, <2>1 DEF Item, Rec, ItemsOf
  <1> QED
    BY <1>2, <1>4, <1>5

(* A sequence and what it had before the last push. *)
LEMMA Grown ==
  ASSUME NEW S, NEW x \in Seq(S), NEW e
  PROVE  /\ Len(x) \in Nat /\ DOMAIN x = 1 .. Len(x)
         /\ Len(Append(x, e)) = Len(x) + 1 /\ Append(x, e)[Len(x) + 1] = e
         /\ \A i \in 1 .. Len(x) : Append(x, e)[i] = x[i]
         /\ e \in S => Append(x, e) \in Seq(S)
  OBVIOUS

(* What is left of a result when a row was fetched. *)
LEMMA Shrunk ==
  ASSUME NEW S, NEW x \in Seq(S), x # <<>>
  PROVE  /\ Len(x) \in Nat /\ Len(x) > 0 /\ Head(x) = x[1] /\ Head(x) \in S
         /\ Tail(x) \in Seq(S) /\ Len(Tail(x)) = Len(x) - 1
         /\ \A i \in 1 .. Len(x) - 1 : Tail(x)[i] = x[i + 1]
  OBVIOUS

-----------------------------------------------------------------------------
(* The items among the first rows. *)

HeldTo(rows, n) == {p \in 1 .. n : ~ Empty(rows[p])}

(* What the vector of a handler holds when n rows were fetched. *)
Lists(items, rows, n) ==
  /\ Len(items) = Cardinality(HeldTo(rows, n))
  /\ \A k \in 1 .. Len(items) :
       /\ items[k].position \in HeldTo(rows, n)
       /\ items[k] = Item(rows[items[k].position])
  /\ \A j, k \in 1 .. Len(items) : j < k => items[j].position < items[k].position
  /\ \A p \in HeldTo(rows, n) : \E k \in 1 .. Len(items) : items[k].position = p

(* Held positions can be counted. *)
LEMMA HeldToFinite ==
  ASSUME NEW rows, NEW n \in Nat
  PROVE  IsFiniteSet(HeldTo(rows, n)) /\ Cardinality(HeldTo(rows, n)) \in Nat
  <1>1. IsFiniteSet(1 .. n)
    BY FS_Interval
  <1>2. HeldTo(rows, n) \subseteq 1 .. n
    BY DEF HeldTo
  <1> QED
    BY <1>1, <1>2, FS_Subset, FS_CardinalityType

(* The empty vector lists the items of no rows. *)
LEMMA ListsNone ==
  ASSUME NEW rows
  PROVE  Lists(<<>>, rows, 0)
  <1>1. HeldTo(rows, 0) = {}
    BY DEF HeldTo
  <1>2. Cardinality({}) = 0
    BY FS_EmptySet
  <1> QED
    BY <1>1, <1>2 DEF Lists

(* An empty row is skipped, an item is listed behind the others. *)
LEMMA ListsNext ==
  ASSUME NEW S, NEW items \in Seq(S), NEW rows, NEW n \in Nat, Lists(items, rows, n)
  PROVE  /\ Empty(rows[n + 1]) => Lists(items, rows, n + 1)
         /\ ~ Empty(rows[n + 1]) /\ Item(rows[n + 1]).position = n + 1 =>
              Lists(Append(items, Item(rows[n + 1])), rows, n + 1)
  <1>1. ASSUME Empty(rows[n + 1])
        PROVE  HeldTo(rows, n + 1) = HeldTo(rows, n)
    BY <1>1 DEF HeldTo
  <1>2. ASSUME ~ Empty(rows[n + 1]), Item(rows[n + 1]).position = n + 1
        PROVE  Lists(Append(items, Item(rows[n + 1])), rows, n + 1)
    <2> DEFINE e == Item(rows[n + 1])
               y == Append(items, e)
               m == Len(items)
               h == HeldTo(rows, n)
               g == HeldTo(rows, n + 1)
    <2>1. m \in Nat /\ Len(y) = m + 1 /\ y[m + 1] = e /\ \A i \in 1 .. m : y[i] = items[i]
      BY Grown
    <2>2. g = h \cup {n + 1} /\ n + 1 \notin h /\ h \subseteq 1 .. n
      BY <1>2 DEF HeldTo
    <2>3. Cardinality(g) = Cardinality(h) + 1
      BY <2>2, HeldToFinite, FS_AddElement
    <2>4. /\ Len(items) = Cardinality(h)
          /\ \A k \in 1 .. m : items[k].position \in h /\ items[k] = Item(rows[items[k].position])
          /\ \A j, k \in 1 .. m : j < k => items[j].position < items[k].position
          /\ \A p \in h : \E k \in 1 .. m : items[k].position = p
      BY DEF Lists
    <2>5. e.position = n + 1
      BY <1>2
    <2>6. e = Item(rows[e.position])
      BY <1>2
    <2> HIDE DEF e, y, m, h, g
    <2>7. Len(y) = Cardinality(g)
      BY <2>1, <2>3, <2>4 DEF m
    <2>8. ASSUME NEW k \in 1 .. Len(y)
          PROVE  y[k].position \in g /\ y[k] = Item(rows[y[k].position])
      <3>1. CASE k = m + 1
        BY <2>1, <2>2, <2>5, <2>6, <3>1
      <3>2. CASE k # m + 1
        <4>1. k \in 1 .. m
          BY <2>1, <3>2
        <4> QED
          BY <2>1, <2>2, <2>4, <4>1
      <3> QED
        BY <3>1, <3>2
    <2>9. ASSUME NEW j \in 1 .. Len(y), NEW k \in 1 .. Len(y), j < k
          PROVE  y[j].position < y[k].position
      <3>1. j \in 1 .. m /\ y[j].position \in 1 .. n
        <4>1. j \in 1 .. m
          BY <2>1, <2>9
        <4> QED
          BY <2>1, <2>2, <2>4, <4>1
      <3>2. CASE k = m + 1
        BY <2>1, <2>5, <3>1, <3>2
      <3>3. CASE k # m + 1
        <4>1. k \in 1 .. m
          BY <2>1, <3>3
        <4> QED
          BY <2>1, <2>4, <2>9, <3>1, <4>1
      <3> QED
        BY <3>2, <3>3
    <2>10. ASSUME NEW p \in g
           PROVE  \E k \in 1 .. Len(y) : y[k].position = p
      <3>1. CASE p = n + 1
        <4>1. m + 1 \in 1 .. Len(y)
          BY <2>1
        <4> QED
          BY <2>1, <2>5, <3>1, <4>1
      <3>2. CASE p \in h
        <4>1. PICK k \in 1 .. m : items[k].position = p
          BY <2>4, <3>2
        <4>2. k \in 1 .. Len(y) /\ y[k] = items[k]
          BY <2>1
        <4> QED
          BY <4>1, <4>2
      <3> QED
        BY <2>2, <3>1, <3>2
    <2> QED
      BY <2>7, <2>8, <2>9, <2>10 DEF Lists, y, e, g
  <1> QED
    BY <1>1, <1>2 DEF Lists

(* With all rows fetched the vector is the inventory. *)
LEMMA ListsAll ==
  ASSUME NEW items, NEW rows, NEW n \in Nat, DOMAIN items = 1 .. Len(items),
         DOMAIN rows = 1 .. n, Lists(items, rows, n)
  PROVE  HeldTo(rows, n) = Held(rows) /\ IsInventory(items, rows)
  <1>1. HeldTo(rows, n) = Held(rows)
    BY DEF HeldTo, Held
  <1> QED
    BY <1>1 DEF Lists, IsInventory
-----------------------------------------------------------------------------
(* Records in a buffer, and what a client makes of it. *)

(* The cells of records, and the records again from the cells. *)
LEMMA CellsAre ==
  ASSUME NEW S, NEW recs \in Seq(S)
  PROVE  /\ Cells(recs) \in Seq(S \X (1 .. 3))
         /\ Len(Cells(recs)) = 3 * Len(recs) /\ Len(recs) \in Nat
         /\ \A k \in 1 .. Len(recs) : Cells(recs)[3 * (k - 1) + 1][1] = recs[k]
         /\ recs # <<>> => Cells(recs)[1] = <<recs[1], 1>>
  <1> DEFINE n == Len(recs)
             c == Cells(recs)
  <1>1. n \in Nat /\ DOMAIN recs = 1 .. n /\ \A k \in 1 .. n : recs[k] \in S
    OBVIOUS
  <1>2. \A i \in 1 .. 3 * n : (i - 1) \div 3 + 1 \in 1 .. n /\ ((i - 1) % 3) + 1 \in 1 .. 3
    <2> HIDE DEF n
    <2> QED
      BY <1>1
  <1>3. c = [i \in 1 .. 3 * n |-> <<recs[(i - 1) \div 3 + 1], ((i - 1) % 3) + 1>>]
    BY DEF Cells, RecordLen
  <1>4. \A i \in 1 .. 3 * n : c[i] \in S \X (1 .. 3)
    BY <1>1, <1>2, <1>3
  <1>5. 3 * n \in Nat
    BY <1>1
  <1>6. c \in Seq(S \X (1 .. 3)) /\ Len(c) = 3 * n
    <2>1. c \in [1 .. 3 * n -> S \X (1 .. 3)]
      BY <1>3, <1>4
    <2> HIDE DEF c, n
    <2> QED
      BY <1>5, <2>1
  <1>7. ASSUME NEW k \in 1 .. n
        PROVE  c[3 * (k - 1) + 1][1] = recs[k]
    <2> DEFINE i == 3 * (k - 1) + 1
    <2>1. i \in 1 .. 3 * n /\ (i - 1) \div 3 + 1 = k
      <3> HIDE DEF n
      <3> QED
        BY <1>1
    <2> HIDE DEF i, n, c
    <2>2. c[i] = <<recs[k], ((i - 1) % 3) + 1>>
      BY <1>3, <2>1
    <2> QED
      BY <2>2 DEF i
  <1>8. recs # <<>> => c[1] = <<recs[1], 1>>
    <2> SUFFICES ASSUME recs # <<>> PROVE c[1] = <<recs[1], 1>>
      OBVIOUS
    <2>1. n # 0
      BY <1>1
    <2>2. 1 \in 1 .. 3 * n /\ (1 - 1) \div 3 + 1 = 1 /\ ((1 - 1) % 3) + 1 = 1
      <3> HIDE DEF n
      <3> QED
        BY <1>1, <2>1
    <2> HIDE DEF c, n
    <2> QED
      BY <1>3, <2>2
  <1> HIDE DEF c, n
  <1> QED
    BY <1>1, <1>6, <1>7, <1>8 DEF c, n

(* The first cells of a sequence of cells. *)
LEMMA Cut ==
  ASSUME NEW S, NEW x \in Seq(S)
  PROVE  /\ SubSeq(x, 1, Len(x)) = x
         /\ x # <<>> => SubSeq(x, 1, 1) = <<x[1]>>
  <1>1. Len(x) \in Nat /\ x = [i \in 1 .. Len(x) |-> x[i]]
    OBVIOUS
  <1>2. SubSeq(x, 1, Len(x)) = x
    <2>1. SubSeq(x, 1, Len(x)) \in Seq(S) /\ Len(SubSeq(x, 1, Len(x))) = Len(x)
      OBVIOUS
    <2>2. \A i \in 1 .. Len(x) : SubSeq(x, 1, Len(x))[i] = x[i]
      OBVIOUS
    <2> QED
      BY <2>1, <2>2
  <1>3. ASSUME x # <<>>
        PROVE  SubSeq(x, 1, 1) = <<x[1]>>
    <2>1. Len(x) >= 1 /\ x[1] \in S
      BY <1>1, <1>3
    <2>2. SubSeq(x, 1, 1) \in Seq(S) /\ Len(SubSeq(x, 1, 1)) = 1 /\ SubSeq(x, 1, 1)[1] = x[1]
      BY <2>1
    <2>3. \A y \in Seq(S) : Len(y) = 1 => y = <<y[1]>>
      OBVIOUS
    <2> QED
      BY <2>2, <2>3
  <1> QED
    BY <1>2, <1>3

(* A client that knows the number of the records gets them back. *)
LEMMA Unpacked ==
  ASSUME NEW S, NEW recs \in Seq(S)
  PROVE  [k \in 1 .. Len(recs) |-> Cells(recs)[RecordLen * (k - 1) + 1][1]] = recs
  <1>1. \A k \in 1 .. Len(recs) : Cells(recs)[3 * (k - 1) + 1][1] = recs[k]
    BY CellsAre
  <1>2. recs = [k \in 1 .. Len(recs) |-> recs[k]]
    OBVIOUS
  <1> QED
    BY <1>1, <1>2 DEF RecordLen

-----------------------------------------------------------------------------
(* The hash. *)

(* m items, each decoded from the row of its position, in the order of rows. *)
ItemsFrom(items, m, rows) ==
  /\ m \in Nat /\ DOMAIN items = 1 .. m
  /\ \A k \in 1 .. m : /\ items[k] \in Rec
                       /\ items[k].code = Cast(rows[items[k].position].code)
                       /\ items[k].version = rows[items[k].position].version
  /\ \A j, k \in 1 .. m : j < k => items[j].position < items[k].position

(* Items of pairwise different positions, from the rows of a query, in a hash
   of user u. *)
LEMMA WrittenIs ==
  ASSUME NEW items, NEW m, NEW rows, ItemsFrom(items, m, rows), NEW u \in Users,
         hash \in Hashes
  PROVE  /\ Written(u, items) \in Hashes
         /\ \A v \in Users, p \in 1 .. Positions :
              \/ /\ v = u /\ \E k \in 1 .. m : items[k].position = p
                 /\ Written(u, items)[v][p] = Field(rows[p])
              \/ /\ ~ (v = u /\ \E k \in 1 .. m : items[k].position = p)
                 /\ Written(u, items)[v][p] = hash[v][p]
  <1> DEFINE at(p) == {k \in 1 .. m : items[k].position = p}
             last(p) == CHOOSE k \in at(p) : \A j \in at(p) : j <= k
             new(p) == IF at(p) = {} THEN hash[u][p]
                       ELSE [code |-> items[last(p)].code, version |-> items[last(p)].version]
  <1>1. Written(u, items) = [hash EXCEPT ![u] = [p \in 1 .. Positions |-> new(p)]]
    BY DEF Written, ItemsFrom
  <1>2. ASSUME NEW p, NEW k \in at(p)
        PROVE  last(p) = k
    <2>1. \A j \in at(p) : j = k
      <3> SUFFICES ASSUME NEW j \in at(p), j # k PROVE FALSE
        OBVIOUS
      <3>1. /\ j \in 1 .. m /\ k \in 1 .. m /\ items[j].position = items[k].position
            /\ m \in Nat
        BY DEF ItemsFrom
      <3>2. items[j].position \in Int
        <4>1. items[j] \in Rec
          BY <3>1 DEF ItemsFrom
        <4> QED
          BY <4>1 DEF Rec, ItemsOf
      <3>3. j < k \/ k < j
        BY <3>1
      <3> QED
        BY <3>1, <3>2, <3>3 DEF ItemsFrom
    <2>2. k \in Nat
      BY DEF ItemsFrom
    <2> QED
      BY <2>1, <2>2
  <1>3. ASSUME NEW p \in 1 .. Positions
        PROVE  /\ new(p) \in Fields
               /\ at(p) # {} => new(p) = Field(rows[p])
               /\ at(p) = {} => new(p) = hash[u][p]
    <2>1. CASE at(p) = {}
      BY <2>1 DEF Hashes
    <2>2. CASE at(p) # {}
      <3>1. PICK k \in at(p) : TRUE
        BY <2>2
      <3>2. last(p) = k
        BY <1>2
      <3>3. items[k] \in Rec /\ items[k].position = p
        BY DEF ItemsFrom
      <3>4. new(p) = [code |-> items[k].code, version |-> items[k].version]
        BY <2>2, <3>2
      <3>5. new(p) = Field(rows[p])
        BY <3>3, <3>4 DEF Field, ItemsFrom
      <3>6. items[k].code \in 0 .. Word - 1 /\ items[k].version \in Versions
        BY <3>3, DataAssumption DEF Rec, ItemsOf
      <3> HIDE DEF at, last, new
      <3> QED
        BY <2>2, <3>4, <3>5, <3>6 DEF Fields
    <2> QED
      BY <2>1, <2>2
  <1>4. \A p : at(p) = {} <=> ~ \E k \in 1 .. m : items[k].position = p
    OBVIOUS
  <1> HIDE DEF at, last, new
  <1>5. Written(u, items) \in [Users -> [1 .. Positions -> Fields]]
    BY <1>1, <1>3 DEF Hashes
  <1>6. /\ Written(u, items)[u] = [p \in 1 .. Positions |-> new(p)]
        /\ \A v \in Users : v # u => Written(u, items)[v] = hash[v]
    BY <1>1 DEF Hashes
  <1>7. ASSUME NEW v \in Users, NEW p \in 1 .. Positions
        PROVE  \/ /\ v = u /\ \E k \in 1 .. m : items[k].position = p
                  /\ Written(u, items)[v][p] = Field(rows[p])
               \/ /\ ~ (v = u /\ \E k \in 1 .. m : items[k].position = p)
                  /\ Written(u, items)[v][p] = hash[v][p]
    <2>1. CASE v = u
      <3>1. Written(u, items)[v][p] = new(p)
        BY <1>6, <2>1
      <3> QED
        BY <1>3, <1>4, <2>1, <3>1
    <2>2. CASE v # u
      BY <1>6, <2>2
    <2> QED
      BY <2>1, <2>2
  <1> QED
    BY <1>5, <1>7 DEF Hashes
-----------------------------------------------------------------------------
(* From a query to the last row. *)

(* The rows of a query are a sequence, of passes or of positions in order. *)
LEMMA RowsLen ==
  ASSUME NEW kind, NEW rows, IsRows(kind, rows)
  PROVE  /\ Len(rows) \in Nat /\ DOMAIN rows = 1 .. Len(rows)
         /\ kind = "passes" => rows \in Seq(Pass)
         /\ kind # "passes" => rows \in Seq(Row) /\ Len(rows) = Positions
         /\ \A p \in 1 .. Len(rows) :
              IF kind = "passes" THEN rows[p] \in Pass
              ELSE rows[p] \in Row /\ rows[p].position = p
  <1>1. CASE kind = "passes"
    BY <1>1 DEF IsRows
  <1>2. CASE kind # "passes"
    <2>1. rows \in [1 .. Positions -> Row] /\ \A p \in 1 .. Positions : rows[p].position = p
      BY <1>2 DEF IsRows
    <2>2. Positions \in Nat
      BY DataAssumption
    <2>3. rows \in Seq(Row) /\ Len(rows) = Positions
      BY <2>1, <2>2
    <2> QED
      BY <1>2, <2>1, <2>2, <2>3
  <1> QED
    BY <1>1, <1>2

(* The vector recs of a handler that asked for these rows and has the rest of
   them still to fetch. *)
Progress(kind, rows, rest, recs) ==
  LET n == Len(rows) - Len(rest) IN
  /\ Len(rest) <= Len(rows)
  /\ \A i \in 1 .. Len(rest) : rest[i] = rows[n + i]
  /\ \A p \in 1 .. n : Readable(rows[p])
  /\ IF kind = "passes"
     THEN recs \in Seq(Pass) /\ Len(recs) = n /\ \A k \in 1 .. n : recs[k] = rows[k]
     ELSE recs \in Seq(Rec) /\ Lists(recs, rows, n)

(* It starts empty. *)
LEMMA ProgressStart ==
  ASSUME NEW kind, NEW rows, IsRows(kind, rows)
  PROVE  Progress(kind, rows, rows, <<>>)
  <1>1. Len(rows) \in Nat /\ Len(rows) - Len(rows) = 0
    BY RowsLen
  <1>2. \A i \in 1 .. Len(rows) : rows[i] = rows[0 + i]
    BY <1>1
  <1>3. <<>> \in Seq(Pass) /\ <<>> \in Seq(Rec) /\ Len(<<>>) = 0
    OBVIOUS
  <1> QED
    BY <1>1, <1>2, <1>3, ListsNone DEF Progress

(* One row is fetched. *)
LEMMA ProgressNext ==
  ASSUME NEW kind, NEW rows, IsRows(kind, rows), NEW S, NEW rest \in Seq(S), rest # <<>>,
         NEW recs, Progress(kind, rows, rest, recs), Readable(Head(rest))
  PROVE  /\ kind = "passes" =>
              /\ Head(rest) \in Pass
              /\ Progress(kind, rows, Tail(rest), Append(recs, Head(rest)))
         /\ kind # "passes" =>
              /\ Head(rest) \in Row
              /\ Progress(kind, rows, Tail(rest),
                          IF Empty(Head(rest)) THEN recs ELSE Append(recs, Item(Head(rest))))
  <1> DEFINE l == Len(rows)
             m == Len(rest)
             n == l - m
             row == Head(rest)
             tl == Tail(rest)
  <1>1. /\ l \in Nat /\ m \in Nat /\ m > 0 /\ m <= l /\ Len(tl) = m - 1
        /\ row = rest[1] /\ \A i \in 1 .. m - 1 : tl[i] = rest[i + 1]
    BY RowsLen, Shrunk DEF Progress
  <1>2. \A i \in 1 .. m : rest[i] = rows[n + i]
    BY DEF Progress
  <1>3. \A p \in 1 .. n : Readable(rows[p])
    BY DEF Progress
  <1>4. Readable(row)
    OBVIOUS
  <1>5. kind = "passes" => recs \in Seq(Pass) /\ Len(recs) = n /\ \A k \in 1 .. n : recs[k] = rows[k]
    BY DEF Progress
  <1>6. kind # "passes" => recs \in Seq(Rec) /\ Lists(recs, rows, n)
    BY DEF Progress
  <1>7. \A p \in 1 .. l : IF kind = "passes" THEN rows[p] \in Pass
                          ELSE rows[p] \in Row /\ rows[p].position = p
    BY RowsLen
  <1> HIDE DEF l, m, row, tl
  <1>8. n \in Nat /\ n + 1 \in 1 .. l /\ l - Len(tl) = n + 1 /\ Len(tl) <= l /\ 1 \in 1 .. m
    BY <1>1
  <1>9. row = rows[n + 1]
    BY <1>1, <1>2, <1>8
  <1>10. \A i \in 1 .. Len(tl) : tl[i] = rows[(n + 1) + i]
    <2> SUFFICES ASSUME NEW i \in 1 .. Len(tl) PROVE tl[i] = rows[(n + 1) + i]
      OBVIOUS
    <2>1. i + 1 \in 1 .. m /\ i \in 1 .. m - 1 /\ n + (i + 1) = (n + 1) + i
      BY <1>1, <1>8
    <2>2. rest[i + 1] = rows[n + (i + 1)]
      BY <1>2, <2>1
    <2> QED
      BY <1>1, <2>1, <2>2
  <1>11. \A p \in 1 .. n + 1 : Readable(rows[p])
    BY <1>3, <1>4, <1>8, <1>9
  <1> HIDE DEF n
  <1>12. ASSUME kind = "passes"
         PROVE  row \in Pass /\ Progress(kind, rows, tl, Append(recs, row))
    <2>1. row \in Pass
      BY <1>7, <1>8, <1>9, <1>12
    <2> DEFINE y == Append(recs, row)
    <2>2. /\ y \in Seq(Pass) /\ Len(y) = n + 1 /\ y[n + 1] = row
          /\ \A k \in 1 .. n : y[k] = recs[k]
      BY <1>5, <1>12, <2>1, Grown
    <2> HIDE DEF y
    <2>3. \A k \in 1 .. n + 1 : y[k] = rows[k]
      BY <1>5, <1>8, <1>9, <1>12, <2>2
    <2> QED
      BY <1>8, <1>10, <1>11, <1>12, <2>1, <2>2, <2>3 DEF Progress, l, y
  <1>13. ASSUME kind # "passes"
         PROVE  /\ row \in Row
                /\ Progress(kind, rows, tl, IF Empty(row) THEN recs ELSE Append(recs, Item(row)))
    <2>1. row \in Row /\ row.position = n + 1
      BY <1>7, <1>8, <1>9, <1>13
    <2>2. Item(row).position = n + 1
      BY <2>1, ItemIs
    <2>3. recs \in Seq(Rec) /\ Lists(recs, rows, n)
      BY <1>6, <1>13
    <2> DEFINE y == IF Empty(row) THEN recs ELSE Append(recs, Item(row))
    <2>4. y \in Seq(Rec) /\ Lists(y, rows, n + 1)
      <3>1. CASE Empty(row)
        BY <1>8, <1>9, <2>3, <3>1, ListsNext
      <3>2. CASE ~ Empty(row)
        <4>1. Item(row) \in Rec
          BY <1>4, <2>1, <3>2, ItemIs
        <4>2. Append(recs, Item(row)) \in Seq(Rec)
          BY <2>3, <4>1, Grown
        <4>3. Lists(Append(recs, Item(row)), rows, n + 1)
          BY <1>8, <1>9, <2>2, <2>3, <3>2, ListsNext
        <4> QED
          BY <3>2, <4>2, <4>3
      <3> QED
        BY <3>1, <3>2
    <2> HIDE DEF y
    <2> QED
      BY <1>8, <1>10, <1>11, <1>13, <2>1, <2>4 DEF Progress, l, y
  <1> QED
    BY <1>12, <1>13 DEF row, tl

(* With nothing left to fetch the vector holds the passes, or the inventory. *)
LEMMA ProgressEnd ==
  ASSUME NEW kind, NEW rows, IsRows(kind, rows), NEW recs, Progress(kind, rows, <<>>, recs)
  PROVE  /\ \A p \in DOMAIN rows : Readable(rows[p])
         /\ kind = "passes" => recs = rows /\ recs \in Seq(Pass)
         /\ kind # "passes" =>
              /\ recs \in Seq(Rec) /\ Lists(recs, rows, Len(rows))
              /\ IsInventory(recs, rows) /\ HeldTo(rows, Len(rows)) = Held(rows)
  <1>1. Len(rows) \in Nat /\ DOMAIN rows = 1 .. Len(rows)
    BY RowsLen
  <1>2. Len(rows) - Len(<<>>) = Len(rows)
    BY <1>1
  <1>3. \A p \in DOMAIN rows : Readable(rows[p])
    BY <1>1, <1>2 DEF Progress
  <1>4. kind = "passes" => recs = rows /\ recs \in Seq(Pass)
    <2>1. kind = "passes" => /\ recs \in Seq(Pass) /\ Len(recs) = Len(rows)
                             /\ \A k \in 1 .. Len(rows) : recs[k] = rows[k]
      BY <1>2 DEF Progress
    <2>2. kind = "passes" => rows \in Seq(Pass)
      BY RowsLen
    <2> HIDE DEF Pass
    <2> QED
      BY <2>1, <2>2
  <1>5. kind # "passes" => recs \in Seq(Rec) /\ Lists(recs, rows, Len(rows))
    BY <1>2 DEF Progress
  <1>6. recs \in Seq(Rec) => DOMAIN recs = 1 .. Len(recs)
    OBVIOUS
  <1> QED
    BY <1>1, <1>3, <1>4, <1>5, <1>6, ListsAll
(* What of the records goes into a reply. *)
Sent(kind, recs) ==
  SubSeq(Cells(recs), 1,
         IF Len(Cells(recs)) < Copied(kind) THEN Len(Cells(recs)) ELSE Copied(kind))

(* What a client makes of the reply that is pushed then. *)
LEMMA ReplyDecodes ==
  ASSUME NEW kind \in Kinds, NEW rows, IsRows(kind, rows),
         NEW recs, Progress(kind, rows, <<>>, recs), Len(Cells(recs)) <= Buffer(kind),
         NEW payload, payload = Sent(kind, recs)
  PROVE  /\ Len(recs) \in Nat
         /\ kind = "inventory" =>
              /\ Len(payload) = RecordLen * Len(recs)
              /\ payload = Cells([k \in 1 .. Len(recs) |-> payload[RecordLen * (k - 1) + 1][1]])
              /\ IsInventory([k \in 1 .. Len(recs) |-> payload[RecordLen * (k - 1) + 1][1]], rows)
  <1>0. "passes" # "inventory"
    OBVIOUS
  <1>1. PICK S : recs \in Seq(S)
    BY ProgressEnd
  <1> DEFINE all == Cells(recs)
  <1>2. all \in Seq(S \X (1 .. 3)) /\ Len(all) = 3 * Len(recs) /\ Len(recs) \in Nat
    BY <1>1, CellsAre
  <1>3. ASSUME kind = "inventory"
        PROVE  payload = all
    <2>1. Copied(kind) = InvenLen /\ Buffer(kind) = InvenLen /\ InvenLen \in Nat
      BY <1>0, <1>3, DataAssumption DEF Copied, Buffer
    <2>2. Len(all) \in Nat /\ Len(all) <= InvenLen
      BY <1>2, <2>1
    <2>3. (IF Len(all) < Copied(kind) THEN Len(all) ELSE Copied(kind)) = Len(all)
      BY <2>1, <2>2
    <2>4. payload = SubSeq(all, 1, Len(all))
      BY <2>3 DEF Sent
    <2> HIDE DEF all
    <2> QED
      BY <1>2, <2>4, Cut
  <1>4. kind = "inventory" => IsInventory(recs, rows)
    BY <1>0, ProgressEnd
  <1>5. [k \in 1 .. Len(recs) |-> all[RecordLen * (k - 1) + 1][1]] = recs
    BY <1>1, Unpacked
  <1>6. RecordLen = 3
    BY DEF RecordLen
  <1> HIDE DEF all
  <1> QED
    BY <1>2, <1>3, <1>4, <1>5, <1>6 DEF all

-----------------------------------------------------------------------------
(* The inductive invariant. *)

Emptied == \A t \in RedisThreads : pc[t] # "fetch" => result = <<>>

(* A handler has rows of the kind it asked for, and has decoded some of them. *)
Fetched ==
  \A t \in RedisThreads :
    pc[t] # "idle" =>
      IsRows(ask[t].kind, asOf[t]) /\ Progress(ask[t].kind, asOf[t], result, records[t])

Fits ==
  \A t \in RedisThreads :
    /\ pc[t] = "packed" => Len(Cells(records[t])) <= Buffer(ask[t].kind)
    /\ pc[t] = "undefined" => Len(Cells(records[t])) > Buffer(ask[t].kind)

(* A field of the hash is an earlier value of the row, or this one. *)
NotNewer(field, row) ==
  field.version <= row.version /\ (field.version = row.version => field = Field(row))

Older(row, now) ==
  row.version <= now.version /\ (row.version = now.version => row.code = now.code)

(* From the hash over the rows of a handler to the table: never newer. *)
Versioned ==
  /\ \A u \in Users, p \in 1 .. Positions :
       table[u][p].version <= changes /\ NotNewer(hash[u][p], table[u][p])
  /\ \A t \in RedisThreads, p \in 1 .. Positions :
       pc[t] # "idle" /\ ask[t].kind = "inventory" =>
         /\ NotNewer(hash[ask[t].user][p], asOf[t][p])
         /\ Older(asOf[t][p], table[ask[t].user][p])

(* The last reply is right, and of the rows its query gave. *)
Replied ==
  /\ IsRows(reply.ask.kind, reply.asOf)
  /\ ReplyIsOneSnapshot
  /\ HashNotBehindReply

Parts == Emptied /\ Fetched /\ Fits /\ Versioned /\ Replied

(* What TypeOK says of the single elements. *)
LEMMA Typed ==
  ASSUME TypeOK
  PROVE  /\ result \in RowSeqs
         /\ \A t \in RedisThreads : /\ ask[t].user \in Users /\ ask[t].kind \in Kinds
                                    /\ records[t] \in RecordSeq
         /\ \A u \in Users, p \in 1 .. Positions :
              /\ table[u][p] \in [code : Codes, version : Versions]
              /\ table[u][p].version \in Int
              /\ hash[u][p] \in Fields
              /\ hash[u][p].version \in Int
  <1>1. result \in RowSeqs
    BY DEF TypeOK
  <1>2. ASSUME NEW t \in RedisThreads
        PROVE  ask[t].user \in Users /\ ask[t].kind \in Kinds /\ records[t] \in RecordSeq
    <2>1. ask[t] \in [user : Users, kind : Kinds] /\ records[t] \in RecordSeq
      BY DEF TypeOK
    <2> QED
      BY <2>1
  <1>3. ASSUME NEW u \in Users, NEW p \in 1 .. Positions
        PROVE  /\ table[u][p] \in [code : Codes, version : Versions]
               /\ hash[u][p] \in Fields
    <2> DEFINE R == [code : Codes, version : Versions]
    <2>1. hash \in [Users -> [1 .. Positions -> Fields]]
      BY DEF TypeOK, Fields
    <2>2. table \in [Users -> [1 .. Positions -> R]]
      BY DEF TypeOK
    <2> HIDE DEF R
    <2>3. hash[u][p] \in Fields /\ table[u][p] \in R
      BY <2>1, <2>2
    <2> QED
      BY <2>3 DEF R
  <1>4. \A r \in [code : Codes, version : Versions] : r.version \in Int
    BY DataAssumption DEF Versions
  <1>5. \A r \in Fields : r.version \in Int
    BY DataAssumption DEF Versions, Fields
  <1> QED
    BY <1>1, <1>2, <1>3, <1>4, <1>5

(* What the invariant says of handlers that have read everything. *)
LEMMA RunsInvariants ==
  ASSUME TypeOK, Parts
  PROVE  OverrunOnlyByTooMany
  <1> SUFFICES ASSUME NEW t \in RedisThreads, pc[t] = "undefined"
               PROVE  LET n == IF ask[t].kind = "passes" THEN Len(asOf[t])
                               ELSE Cardinality(Held(asOf[t]))
                      IN n * RecordLen > IF ask[t].kind = "passes" THEN PassLen ELSE InvenLen
    BY DEF OverrunOnlyByTooMany
  <1>1. /\ IsRows(ask[t].kind, asOf[t]) /\ Progress(ask[t].kind, asOf[t], <<>>, records[t])
        /\ Len(Cells(records[t])) > Buffer(ask[t].kind)
    BY DEF Parts, Emptied, Fetched, Fits
  <1>2. Len(records[t]) = IF ask[t].kind = "passes" THEN Len(asOf[t])
                          ELSE Cardinality(Held(asOf[t]))
    BY <1>1, ProgressEnd DEF IsInventory
  <1>3. Len(Cells(records[t])) = 3 * Len(records[t]) /\ Len(records[t]) \in Nat
    BY Typed, CellsAre DEF RecordSeq
  <1>4. 3 * Len(records[t]) = Len(records[t]) * RecordLen
    BY <1>3 DEF RecordLen
  <1> QED
    BY <1>1, <1>2, <1>3, <1>4 DEF Buffer

(* There is one redis thread, so that Result is not shared. *)
LEMMA OnlyThread ==
  \A t1, t2 \in RedisThreads : t1 = t2
  BY OneRedisThread

-----------------------------------------------------------------------------
(* The steps of a handler. *)

(* A sequence over one set is a sequence over a larger one. *)
LEMMA Wider ==
  ASSUME NEW S, NEW T, NEW x
  PROVE  /\ x \in Seq(S) => x \in Seq(S \cup T)
         /\ x \in Seq(T) => x \in Seq(S \cup T)
  OBVIOUS

(* What a query gives: one row per position as the table has it, or the passes. *)
LEMMA RowsAre ==
  ASSUME TypeOK, NEW u \in Users, NEW kind \in Kinds
  PROVE  /\ IsRows(kind, Rows(u, kind)) /\ Rows(u, kind) \in RowSeqs
         /\ kind = "inventory" => \A p \in 1 .. Positions :
              /\ Rows(u, kind)[p].code = table[u][p].code
              /\ Rows(u, kind)[p].version = table[u][p].version
  <1> DEFINE rows == Rows(u, kind)
  <1>0. "passes" # "inventory"
    OBVIOUS
  <1>1. CASE kind = "passes"
    <2>1. passes[u] \in Nat /\ passes[u] <= MaxPasses
      BY DataAssumption DEF TypeOK
    <2>2. \A k \in 1 .. passes[u] : [pass |-> k] \in Pass
      BY <2>1, DataAssumption DEF Pass, Passes
    <2>3. rows \in Seq(Pass)
      <3>1. rows \in [1 .. passes[u] -> Pass]
        BY <1>1, <2>2 DEF Rows
      <3> HIDE DEF rows, Pass
      <3> QED
        BY <2>1, <3>1
    <2>4. rows \in RowSeqs
      BY <2>3, Wider DEF RowSeqs, Pass
    <2> QED
      BY <1>0, <1>1, <2>3, <2>4 DEF IsRows
  <1>2. CASE kind = "inventory"
    <2>1. rows = [p \in 1 .. Positions |->
                    [position |-> p, code |-> table[u][p].code, version |-> table[u][p].version]]
      BY <1>0, <1>2 DEF Rows
    <2>2. \A p \in 1 .. Positions :
            [position |-> p, code |-> table[u][p].code, version |-> table[u][p].version] \in Row
      BY Typed DEF Row, ItemsOf
    <2>3. /\ rows \in [1 .. Positions -> Row]
          /\ \A p \in 1 .. Positions : /\ rows[p].position = p
                                       /\ rows[p].code = table[u][p].code
                                       /\ rows[p].version = table[u][p].version
      BY <2>1, <2>2
    <2>4. rows \in Seq(Row)
      <3> HIDE DEF rows, Row
      <3> QED
        BY <2>3, DataAssumption
    <2>5. rows \in RowSeqs
      BY <2>4, Wider DEF RowSeqs, Row
    <2> QED
      BY <1>0, <1>2, <2>3, <2>5 DEF IsRows
  <1> QED
    BY <1>1, <1>2 DEF Kinds

(* A query takes a snapshot of the rows, and the vector starts empty. *)
LEMMA QueryStep ==
  ASSUME TypeOK, Parts, NEW t \in RedisThreads, NEW u \in Users, NEW kind \in Kinds,
         Query(t, u, kind)
  PROVE  TypeOK' /\ Parts'
  <1> DEFINE rows == Rows(u, kind)
  <1>1. /\ pc[t] = "idle" /\ pc' = [pc EXCEPT ![t] = "fetch"]
        /\ ask' = [ask EXCEPT ![t] = [user |-> u, kind |-> kind]]
        /\ result' = rows /\ asOf' = [asOf EXCEPT ![t] = rows]
        /\ records' = [records EXCEPT ![t] = <<>>]
        /\ UNCHANGED <<table, passes, changes, hash, reply>>
    BY DEF Query, NewVector, mysql
  <1>2. /\ IsRows(kind, rows) /\ rows \in RowSeqs
        /\ kind = "inventory" => \A p \in 1 .. Positions :
             rows[p].code = table[u][p].code /\ rows[p].version = table[u][p].version
    BY RowsAre
  <1> HIDE DEF rows
  <1>3. /\ pc'[t] = "fetch" /\ ask'[t].user = u /\ ask'[t].kind = kind /\ asOf'[t] = rows
        /\ records'[t] = <<>> /\ \A i \in RedisThreads : i = t
    BY <1>1, OnlyThread DEF TypeOK
  <1>4. TypeOK'
    <2>1. <<>> \in RecordSeq
      BY DEF RecordSeq
    <2> QED
      BY <1>1, <1>2, <2>1 DEF TypeOK
  <1>5. Emptied' /\ Fits'
    BY <1>3 DEF Emptied, Fits
  <1>6. Fetched'
    <2>1. Progress(kind, rows, rows, <<>>)
      BY <1>2, ProgressStart
    <2> QED
      BY <1>1, <1>2, <1>3, <2>1 DEF Fetched
  <1>7. Versioned'
    <2>1. \A v \in Users, p \in 1 .. Positions :
            table[v][p].version <= changes /\ NotNewer(hash[v][p], table[v][p])
      BY DEF Parts, Versioned
    <2>2. ASSUME NEW p \in 1 .. Positions, kind = "inventory"
          PROVE  NotNewer(hash[u][p], rows[p]) /\ Older(rows[p], table[u][p])
      <3>1. /\ rows[p].code = table[u][p].code /\ rows[p].version = table[u][p].version
            /\ table[u][p].version \in Int /\ NotNewer(hash[u][p], table[u][p])
        BY <1>2, <2>1, <2>2, Typed
      <3> QED
        BY <3>1 DEF NotNewer, Older, Field
    <2> QED
      BY <1>1, <1>3, <2>1, <2>2 DEF Versioned
  <1>8. Replied'
    BY <1>1 DEF Parts, Replied, ReplyIsOneSnapshot, HashNotBehindReply
  <1> QED
    BY <1>4, <1>5, <1>6, <1>7, <1>8 DEF Parts

(* A row is fetched and decoded, or skipped. *)
LEMMA FetchStep ==
  ASSUME TypeOK, Parts, NEW t \in RedisThreads, Fetch(t)
  PROVE  TypeOK' /\ Parts'
  <1> DEFINE kind == ask[t].kind
             row == Head(result)
             recs == IF kind = "passes" THEN Append(records[t], row)
                     ELSE IF Empty(row) THEN records[t] ELSE Append(records[t], Item(row))
  <1>1. /\ pc[t] = "fetch" /\ result # <<>> /\ Readable(row) /\ result' = Tail(result)
        /\ UNCHANGED <<table, passes, changes, pc, ask, asOf, hash, reply>>
    BY DEF Fetch, mysql
  <1>2. /\ kind \in Kinds /\ IsRows(kind, asOf[t]) /\ Progress(kind, asOf[t], result, records[t])
        /\ result \in RowSeqs /\ records[t] \in RecordSeq
    BY <1>1, Typed DEF Parts, Fetched
  <1>3. /\ kind = "passes" => row \in Pass
        /\ kind # "passes" => row \in Row
        /\ Progress(kind, asOf[t], Tail(result), recs)
    BY <1>1, <1>2, ProgressNext DEF RowSeqs
  <1>4. records' = [records EXCEPT ![t] = recs]
    <2>1. CASE kind = "passes"
      <3>1. "pass" \in DOMAIN row /\ "code" \notin DOMAIN row
        BY <1>3, <2>1, Shapes
      <3> QED
        BY <2>1, <3>1 DEF Fetch
    <2>2. CASE kind # "passes"
      <3>1. "pass" \notin DOMAIN row /\ "code" \in DOMAIN row
        BY <1>3, <2>2, Shapes
      <3>2. records' = IF Empty(row) THEN records
                       ELSE [records EXCEPT ![t] = Append(records[t], Item(row))]
        BY <3>1 DEF Fetch
      <3>3. records = [records EXCEPT ![t] = records[t]]
        BY DEF TypeOK
      <3> QED
        BY <2>2, <3>2, <3>3
    <2> QED
      BY <2>1, <2>2
  <1> HIDE DEF recs, row
  <1>5. recs \in RecordSeq /\ Tail(result) \in RowSeqs
    <2>1. recs \in Seq(Pass) \/ recs \in Seq(Rec)
      BY <1>3 DEF Progress
    <2> QED
      BY <1>1, <1>2, <2>1, Shrunk, Wider DEF RecordSeq, RowSeqs, Pass, Rec
  <1>6. records'[t] = recs /\ \A i \in RedisThreads : i = t
    BY <1>4, OnlyThread DEF TypeOK
  <1>7. TypeOK'
    BY <1>1, <1>4, <1>5 DEF TypeOK
  <1>8. Emptied' /\ Fits'
    BY <1>1, <1>6 DEF Emptied, Fits
  <1>9. Fetched'
    BY <1>1, <1>2, <1>3, <1>6 DEF Fetched
  <1>10. Versioned'
    BY <1>1 DEF Parts, Versioned
  <1>11. Replied'
    BY <1>1 DEF Parts, Replied, ReplyIsOneSnapshot, HashNotBehindReply
  <1> QED
    BY <1>7, <1>8, <1>9, <1>10, <1>11 DEF Parts

(* An exception ends the handler without a reply. *)
LEMMA ThrowStep ==
  ASSUME TypeOK, Parts, NEW t \in RedisThreads, Throw(t)
  PROVE  TypeOK' /\ Parts'
  <1>1. /\ result' = <<>> /\ pc' = [pc EXCEPT ![t] = "idle"] /\ asOf' = [asOf EXCEPT ![t] = <<>>]
        /\ UNCHANGED <<table, passes, changes, ask, records, hash, reply>>
    BY DEF Throw, Return, mysql
  <1>2. pc'[t] = "idle" /\ \A i \in RedisThreads : i = t
    BY <1>1, OnlyThread DEF TypeOK
  <1>3. TypeOK'
    <2>1. <<>> \in RowSeqs
      BY DEF RowSeqs
    <2> QED
      BY <1>1, <2>1 DEF TypeOK
  <1>4. Emptied' /\ Fetched' /\ Fits'
    BY <1>1, <1>2 DEF Emptied, Fetched, Fits
  <1>5. Versioned'
    BY <1>1, <1>2 DEF Parts, Versioned
  <1>6. Replied'
    BY <1>1 DEF Parts, Replied, ReplyIsOneSnapshot, HashNotBehindReply
  <1> QED
    BY <1>3, <1>4, <1>5, <1>6 DEF Parts

(* The records are copied into the buffer, or over its end. *)
LEMMA PackStep ==
  ASSUME TypeOK, Parts, NEW t \in RedisThreads, Pack(t)
  PROVE  TypeOK' /\ Parts'
  <1> DEFINE fits == Len(Cells(records[t])) <= Buffer(ask[t].kind)
  <1>1. /\ pc[t] = "fetch" /\ result = <<>>
        /\ pc' = [pc EXCEPT ![t] = IF fits THEN "packed" ELSE "undefined"]
        /\ UNCHANGED <<table, passes, changes, ask, records, asOf, result, hash, reply>>
    BY DEF Pack, mysql
  <1>2. /\ pc'[t] = IF fits THEN "packed" ELSE "undefined"
        /\ \A i \in RedisThreads : i = t
    BY <1>1, OnlyThread DEF TypeOK
  <1>3. Len(Cells(records[t])) \in Int /\ Buffer(ask[t].kind) \in Int
    BY Typed, CellsAre, DataAssumption DEF Buffer, RecordSeq
  <1>4. TypeOK'
    BY <1>1 DEF TypeOK
  <1>5. Emptied' /\ Fetched' /\ Versioned'
    BY <1>1, <1>2 DEF Parts, Emptied, Fetched, Versioned
  <1>6. Fits'
    BY <1>1, <1>2, <1>3 DEF Fits
  <1>7. Replied'
    BY <1>1 DEF Parts, Replied, ReplyIsOneSnapshot, HashNotBehindReply
  <1> QED
    BY <1>4, <1>5, <1>6, <1>7 DEF Parts

(* A game server changes a row: its version is above all others. *)
LEMMA ChangeStep ==
  ASSUME TypeOK, Parts, NEW u \in Users, NEW p \in 1 .. Positions, NEW code \in Codes,
         Change(u, p, code)
  PROVE  TypeOK' /\ Parts'
  <1>1. /\ changes < MaxChanges /\ changes' = changes + 1
        /\ table' = [table EXCEPT ![u][p] = [code |-> code, version |-> changes + 1]]
        /\ UNCHANGED <<passes, pc, ask, records, asOf, result, hash, reply>>
    BY DEF Change, thread
  <1>2. changes \in Nat /\ changes + 1 \in Versions
    BY <1>1, DataAssumption DEF TypeOK, Versions
  <1>3. \A v \in Users, q \in 1 .. Positions :
          \/ table'[v][q] = table[v][q]
          \/ v = u /\ q = p /\ table'[v][q].version = changes + 1
    BY <1>1 DEF TypeOK
  <1>4. TypeOK'
    <2>1. table' \in [Users -> [1 .. Positions -> [code : Codes, version : Versions]]]
      BY <1>1, <1>2 DEF TypeOK
    <2> QED
      BY <1>1, <1>2, <2>1 DEF TypeOK
  <1>5. Emptied' /\ Fetched' /\ Fits'
    BY <1>1 DEF Parts, Emptied, Fetched, Fits
  <1>6. Versioned'
    <2>1. ASSUME NEW v \in Users, NEW q \in 1 .. Positions
          PROVE  table'[v][q].version <= changes + 1 /\ NotNewer(hash[v][q], table'[v][q])
      <3>1. /\ table[v][q].version <= changes /\ NotNewer(hash[v][q], table[v][q])
            /\ table[v][q].version \in Int /\ hash[v][q].version \in Int
        BY Typed DEF Parts, Versioned
      <3>2. table[v][q].version <= changes + 1
        BY <1>2, <3>1
      <3>3. CASE table'[v][q] = table[v][q]
        BY <3>1, <3>2, <3>3
      <3>4. CASE table'[v][q].version = changes + 1
        <4>1. hash[v][q].version < changes + 1
          BY <1>2, <3>1 DEF NotNewer
        <4> QED
          BY <1>2, <3>1, <3>4, <4>1 DEF NotNewer
      <3> QED
        BY <1>3, <3>3, <3>4
    <2>2. ASSUME NEW t \in RedisThreads, NEW q \in 1 .. Positions,
                 pc[t] # "idle", ask[t].kind = "inventory"
          PROVE  /\ NotNewer(hash[ask[t].user][q], asOf[t][q])
                 /\ Older(asOf[t][q], table'[ask[t].user][q])
      <3> DEFINE v == ask[t].user
      <3>1. /\ NotNewer(hash[v][q], asOf[t][q]) /\ Older(asOf[t][q], table[v][q])
            /\ v \in Users /\ table[v][q].version \in Int /\ table[v][q].version <= changes
        BY <2>2, Typed DEF Parts, Versioned
      <3>2. asOf[t][q].version \in Int
        <4>1. IsRows("inventory", asOf[t])
          BY <2>2 DEF Parts, Fetched
        <4>2. asOf[t][q] \in Row
          BY <4>1 DEF IsRows
        <4> QED
          BY <4>2, Shapes, DataAssumption DEF Versions
      <3> HIDE DEF v
      <3>3. CASE table'[v][q] = table[v][q]
        BY <3>1, <3>3 DEF v
      <3>4. CASE table'[v][q].version = changes + 1
        <4>1. asOf[t][q].version < changes + 1
          BY <1>2, <3>1, <3>2 DEF Older
        <4> QED
          BY <1>2, <3>1, <3>2, <3>4, <4>1 DEF Older, v
      <3> QED
        BY <1>3, <3>1, <3>3, <3>4
    <2> QED
      BY <1>1, <2>1, <2>2 DEF Versioned
  <1>7. Replied'
    BY <1>1 DEF Parts, Replied, ReplyIsOneSnapshot, HashNotBehindReply
  <1> QED
    BY <1>4, <1>5, <1>6, <1>7 DEF Parts

-----------------------------------------------------------------------------
(* Uploads and replies. *)

(* The first n items of the vector are written to the user's hash. *)
LEMMA UploadIs ==
  ASSUME TypeOK, Parts, NEW t \in RedisThreads, Packed(t, "inventory"),
         NEW n \in 0 .. Len(records[t]),
         hash' = Written(ask[t].user, SubSeq(records[t], 1, n))
  PROVE  /\ hash' \in Hashes
         /\ \A v \in Users, p \in 1 .. Positions :
              /\ \/ hash'[v][p] = hash[v][p]
                 \/ v = ask[t].user /\ hash'[v][p] = Field(asOf[t][p])
              /\ hash'[v][p].version \in Int /\ hash'[v][p].version >= hash[v][p].version
              /\ NotNewer(hash'[v][p], table[v][p])
         /\ n = Len(records[t]) =>
              \A p \in Held(asOf[t]) : hash'[ask[t].user][p] = Field(asOf[t][p])
  <1> DEFINE rows == asOf[t]
             recs == records[t]
             u == ask[t].user
             items == SubSeq(recs, 1, n)
  <1>0. "inventory" # "passes"
    OBVIOUS
  <1>1. /\ IsRows("inventory", rows) /\ Progress("inventory", rows, <<>>, recs)
        /\ pc[t] # "idle" /\ ask[t].kind = "inventory" /\ u \in Users
    BY Typed DEF Packed, Parts, Fetched, Emptied
  <1>2. /\ recs \in Seq(Rec) /\ Lists(recs, rows, Len(rows))
        /\ HeldTo(rows, Len(rows)) = Held(rows)
    BY <1>0, <1>1, ProgressEnd
  <1>3. /\ Len(recs) \in Nat /\ n \in Nat /\ n <= Len(recs)
        /\ \A k \in 1 .. Len(recs) : recs[k] \in Rec
    BY <1>2
  <1>4. /\ DOMAIN items = 1 .. n /\ \A k \in 1 .. n : items[k] = recs[k]
        /\ n = Len(recs) => items = recs
    <2> HIDE DEF recs, Rec
    <2>1. DOMAIN items = 1 .. n /\ \A k \in 1 .. n : items[k] = recs[k]
      BY <1>2, <1>3
    <2> QED
      BY <1>2, <2>1, Cut
  <1>5. /\ rows \in [1 .. Positions -> Row] /\ DOMAIN rows = 1 .. Positions
        /\ Held(rows) \subseteq 1 .. Positions
    BY <1>0, <1>1 DEF IsRows, Held
  <1>6. \A k \in 1 .. Len(recs) :
          /\ recs[k].position \in Held(rows) /\ recs[k] = Item(rows[recs[k].position])
    BY <1>2 DEF Lists
  <1>7. \A j, k \in 1 .. Len(recs) : j < k => recs[j].position < recs[k].position
    BY <1>2 DEF Lists
  <1>8. \A p \in Held(rows) : \E k \in 1 .. Len(recs) : recs[k].position = p
    BY <1>2 DEF Lists
  <1>9. \A v \in Users, p \in 1 .. Positions :
          /\ NotNewer(hash[v][p], table[v][p])
          /\ hash[v][p].version \in Int /\ table[v][p].version \in Int
    BY Typed DEF Parts, Versioned
  <1>10. \A p \in 1 .. Positions :
           NotNewer(hash[u][p], rows[p]) /\ Older(rows[p], table[u][p])
    BY <1>1 DEF Parts, Versioned
  <1>11. \A p \in 1 .. Positions : rows[p] \in Row /\ rows[p].version \in Int
    BY <1>5, Shapes, DataAssumption DEF Versions
  <1>12. hash \in Hashes
    BY DEF TypeOK, Hashes, Fields
  <1>13. hash' = Written(u, items)
    OBVIOUS
  <1> HIDE DEF rows, recs, u, items
  <1>14. \A k \in 1 .. n : /\ items[k] \in Rec
                           /\ items[k].code = Cast(rows[items[k].position].code)
                           /\ items[k].version = rows[items[k].position].version
    <2> SUFFICES ASSUME NEW k \in 1 .. n
                 PROVE  /\ recs[k] \in Rec
                        /\ recs[k].code = Cast(rows[recs[k].position].code)
                        /\ recs[k].version = rows[recs[k].position].version
      BY <1>4
    <2>1. k \in 1 .. Len(recs)
      BY <1>3
    <2>2. /\ recs[k] \in Rec /\ recs[k] = Item(rows[recs[k].position])
          /\ rows[recs[k].position] \in Row
      BY <1>3, <1>5, <1>6, <1>11, <2>1
    <2>3. \A r \in Row : Item(r).code = Cast(r.code) /\ Item(r).version = r.version
      BY ItemIs
    <2> QED
      BY <2>2, <2>3
  <1>15. \A j, k \in 1 .. n : j < k => items[j].position < items[k].position
    BY <1>3, <1>4, <1>7
  <1>16. /\ hash' \in Hashes
         /\ \A v \in Users, p \in 1 .. Positions :
              \/ /\ v = u /\ \E k \in 1 .. n : items[k].position = p
                 /\ hash'[v][p] = Field(rows[p])
              \/ /\ ~ (v = u /\ \E k \in 1 .. n : items[k].position = p)
                 /\ hash'[v][p] = hash[v][p]
    <2>1. ItemsFrom(items, n, rows)
      BY <1>3, <1>4, <1>14, <1>15 DEF ItemsFrom
    <2>2. /\ Written(u, items) \in Hashes
          /\ \A v \in Users, p \in 1 .. Positions :
               \/ /\ v = u /\ \E k \in 1 .. n : items[k].position = p
                  /\ Written(u, items)[v][p] = Field(rows[p])
               \/ /\ ~ (v = u /\ \E k \in 1 .. n : items[k].position = p)
                  /\ Written(u, items)[v][p] = hash[v][p]
      BY <1>1, <1>12, <2>1, WrittenIs
    <2> QED
      BY <1>13, <2>2
  <1>17. ASSUME NEW v \in Users, NEW p \in 1 .. Positions
         PROVE  /\ \/ hash'[v][p] = hash[v][p]
                   \/ v = u /\ hash'[v][p] = Field(rows[p])
                /\ hash'[v][p].version \in Int /\ hash'[v][p].version >= hash[v][p].version
                /\ NotNewer(hash'[v][p], table[v][p])
    <2>1. CASE hash'[v][p] = hash[v][p]
      <3>1. NotNewer(hash[v][p], table[v][p]) /\ hash[v][p].version \in Int
        BY <1>9
      <3>2. hash[v][p].version >= hash[v][p].version
        BY <3>1
      <3>3. hash'[v][p].version = hash[v][p].version
        BY <2>1
      <3>4. hash'[v][p].version \in Int
        BY <3>1, <3>3
      <3>5. hash'[v][p].version >= hash[v][p].version
        BY <3>2, <3>3
      <3>6. NotNewer(hash'[v][p], table[v][p])
        BY <2>1, <3>1
      <3> QED
        BY <2>1, <3>4, <3>5, <3>6
    <2>2. CASE v = u /\ hash'[v][p] = Field(rows[p])
      <3>1. hash'[v][p].version = rows[p].version /\ hash'[v][p] = Field(rows[p])
        BY <2>2 DEF Field
      <3>2. hash'[v][p].version >= hash[v][p].version
        BY <1>9, <1>10, <1>11, <2>2, <3>1 DEF NotNewer
      <3>3. NotNewer(Field(rows[p]), table[v][p])
        BY <1>10, <2>2 DEF NotNewer, Older, Field
      <3> QED
        BY <1>11, <2>2, <3>1, <3>2, <3>3
    <2> QED
      BY <1>16, <2>1, <2>2
  <1>18. ASSUME n = Len(recs), NEW p \in Held(rows)
         PROVE  hash'[u][p] = Field(rows[p])
    <2>1. \E k \in 1 .. n : items[k].position = p
      BY <1>4, <1>8, <1>18
    <2> QED
      BY <1>1, <1>5, <1>16, <2>1
  <1> QED
    BY <1>16, <1>17, <1>18 DEF rows, recs, u

(* What was shown to a client stays in the hash, or is replaced by a newer
   value. *)
LEMMA StillNotBehind ==
  ASSUME TypeOK, Parts, NEW t \in RedisThreads, Packed(t, "inventory"),
         NEW n \in 0 .. Len(records[t]),
         hash' = Written(ask[t].user, SubSeq(records[t], 1, n)),
         reply.ask.kind = "inventory", NEW p \in Held(reply.asOf)
  PROVE  \/ hash'[reply.ask.user][p].version > Item(reply.asOf[p]).version
         \/ hash'[reply.ask.user][p] = [code |-> Item(reply.asOf[p]).code,
                                        version |-> Item(reply.asOf[p]).version]
  <1> DEFINE u == reply.ask.user
             item == Item(reply.asOf[p])
  <1>0. "inventory" # "passes"
    OBVIOUS
  <1>1. \/ hash[u][p].version > item.version
        \/ hash[u][p] = [code |-> item.code, version |-> item.version]
    BY DEF Parts, Replied, HashNotBehindReply
  <1>2. u \in Users /\ p \in 1 .. Positions /\ item.version \in Int
    <2>1. u \in Users
      BY DEF TypeOK
    <2>2. /\ reply.asOf \in [1 .. Positions -> Row] /\ p \in DOMAIN reply.asOf
      BY <1>0 DEF Parts, Replied, IsRows, Held
    <2>3. reply.asOf[p] \in Row /\ p \in 1 .. Positions
      BY <2>2
    <2>4. \A r \in Row : r.version \in Int /\ Item(r).version = r.version
      BY ItemIs, Shapes, DataAssumption DEF Versions
    <2> QED
      BY <2>1, <2>3, <2>4
  <1>3. /\ \/ hash'[u][p] = hash[u][p]
           \/ u = ask[t].user /\ hash'[u][p] = Field(asOf[t][p])
        /\ hash'[u][p].version \in Int /\ hash'[u][p].version >= hash[u][p].version
        /\ hash[u][p].version \in Int
    BY <1>2, UploadIs, Typed
  <1> HIDE DEF item, u
  <1>4. CASE hash'[u][p] = hash[u][p]
    BY <1>1, <1>4 DEF item, u
  <1>5. CASE u = ask[t].user /\ hash'[u][p] = Field(asOf[t][p])
    <2>1. NotNewer(hash[u][p], asOf[t][p]) /\ hash'[u][p].version = asOf[t][p].version
      BY <1>2, <1>5 DEF Packed, Parts, Versioned, Field
    <2>2. CASE hash[u][p].version = asOf[t][p].version
      <3>1. hash'[u][p] = hash[u][p]
        BY <1>5, <2>1, <2>2 DEF NotNewer
      <3> QED
        BY <1>4, <3>1
    <2>3. CASE hash[u][p].version # asOf[t][p].version
      <3>1. hash'[u][p].version > hash[u][p].version
        BY <1>3, <2>1, <2>3
      <3>2. hash[u][p].version >= item.version
        BY <1>1, <1>2, <1>3
      <3>3. hash'[u][p].version > item.version
        BY <1>2, <1>3, <3>1, <3>2
      <3> QED
        BY <3>3 DEF item, u
    <2> QED
      BY <2>2, <2>3
  <1> QED
    BY <1>3, <1>4, <1>5

(* An upload fails half-way: no reply, some fields are written. *)
LEMMA UploadFailsStep ==
  ASSUME TypeOK, Parts, NEW t \in RedisThreads, UploadFails(t)
  PROVE  TypeOK' /\ Parts'
  <1>1. /\ Packed(t, "inventory") /\ pc' = [pc EXCEPT ![t] = "idle"]
        /\ asOf' = [asOf EXCEPT ![t] = <<>>]
        /\ UNCHANGED <<table, passes, changes, ask, records, result, reply>>
    BY DEF UploadFails, Return, mysql
  <1>2. PICK n \in 0 .. Len(records[t]) : hash' = Written(ask[t].user, SubSeq(records[t], 1, n))
    BY DEF UploadFails
  <1>3. pc'[t] = "idle" /\ (\A i \in RedisThreads : i = t) /\ result = <<>>
    BY <1>1, OnlyThread DEF TypeOK, Packed, Parts, Emptied
  <1>4. TypeOK'
    <2>1. <<>> \in RowSeqs
      BY DEF RowSeqs
    <2>2. hash' \in Hashes
      BY <1>1, <1>2, UploadIs
    <2> QED
      BY <1>1, <2>1, <2>2 DEF TypeOK, Hashes, Fields
  <1>5. Emptied' /\ Fetched' /\ Fits'
    BY <1>1, <1>3 DEF Emptied, Fetched, Fits
  <1>6. Versioned'
    <2>1. \A v \in Users, p \in 1 .. Positions :
            table[v][p].version <= changes /\ NotNewer(hash'[v][p], table[v][p])
      BY <1>1, <1>2, UploadIs DEF Parts, Versioned
    <2> QED
      BY <1>1, <1>3, <2>1 DEF Versioned
  <1>7. Replied'
    <2>1. HashNotBehindReply'
      BY <1>1, <1>2, StillNotBehind DEF HashNotBehindReply
    <2> QED
      BY <1>1, <2>1 DEF Parts, Replied, ReplyIsOneSnapshot
  <1> QED
    BY <1>4, <1>5, <1>6, <1>7 DEF Parts

(* The reply that is pushed is right but, for an inventory, for the hash. *)
LEMMA PushIs ==
  ASSUME TypeOK, Parts, NEW t \in RedisThreads, pc[t] = "packed", PushSendMsg(t)
  PROVE  /\ pc'[t] = "idle" /\ result = <<>> /\ \A i \in RedisThreads : i = t
         /\ pc' = [pc EXCEPT ![t] = "idle"] /\ asOf' = [asOf EXCEPT ![t] = <<>>]
         /\ UNCHANGED <<table, passes, changes, ask, records, result>>
         /\ reply'.ask = ask[t] /\ reply'.asOf = asOf[t] /\ reply'.count \in Nat
         /\ IsRows(reply'.ask.kind, reply'.asOf)
         /\ ReplyIsOneSnapshot'
  <1> DEFINE payload == Sent(ask[t].kind, records[t])
  <1>1. /\ pc' = [pc EXCEPT ![t] = "idle"] /\ asOf' = [asOf EXCEPT ![t] = <<>>]
        /\ UNCHANGED <<table, passes, changes, ask, records, result>>
        /\ reply' = [ask |-> ask[t], count |-> Len(records[t]), payload |-> payload, asOf |-> asOf[t]]
    BY DEF PushSendMsg, Return, mysql, Sent
  <1> HIDE DEF payload
  <1>2. /\ reply'.ask = ask[t] /\ reply'.asOf = asOf[t] /\ reply'.count = Len(records[t])
        /\ reply'.payload = payload
    BY <1>1
  <1>3. pc'[t] = "idle" /\ result = <<>> /\ \A i \in RedisThreads : i = t
    BY <1>1, OnlyThread DEF TypeOK, Parts, Emptied
  <1>4. /\ IsRows(ask[t].kind, asOf[t]) /\ Progress(ask[t].kind, asOf[t], <<>>, records[t])
        /\ Len(Cells(records[t])) <= Buffer(ask[t].kind) /\ ask[t].kind \in Kinds
    BY <1>3, Typed DEF Parts, Fetched, Fits
  <1>5. /\ Len(records[t]) \in Nat
        /\ ask[t].kind = "inventory" =>
             /\ Len(payload) = RecordLen * Len(records[t])
             /\ payload = Cells([k \in 1 .. Len(records[t]) |-> payload[RecordLen * (k - 1) + 1][1]])
             /\ IsInventory([k \in 1 .. Len(records[t]) |-> payload[RecordLen * (k - 1) + 1][1]], asOf[t])
    <2>1. payload = Sent(ask[t].kind, records[t])
      BY DEF payload
    <2> QED
      BY <1>4, <2>1, ReplyDecodes
  <1>6. ReplyIsOneSnapshot'
    BY <1>2, <1>5 DEF ReplyIsOneSnapshot
  <1> QED
    BY <1>1, <1>2, <1>3, <1>4, <1>5, <1>6

(* The whole vector is its longest prefix. *)
LEMMA AllRecords ==
  ASSUME TypeOK, NEW t \in RedisThreads
  PROVE  /\ Len(records[t]) \in 0 .. Len(records[t])
         /\ SubSeq(records[t], 1, Len(records[t])) = records[t]
  <1>1. records[t] \in RecordSeq
    BY Typed
  <1>2. PICK S : records[t] \in Seq(S)
    BY <1>1 DEF RecordSeq
  <1>3. Len(records[t]) \in Nat
    BY <1>2
  <1> QED
    BY <1>2, <1>3, Cut

(* The upload succeeds and the reply is pushed. *)
LEMMA ReplyInventoryStep ==
  ASSUME TypeOK, Parts, NEW t \in RedisThreads, ReplyInventory(t)
  PROVE  TypeOK' /\ Parts'
  <1>0. "inventory" # "passes"
    OBVIOUS
  <1>1. /\ pc[t] = "packed" /\ ask[t].kind = "inventory" /\ Packed(t, "inventory")
        /\ hash' = Written(ask[t].user, records[t]) /\ PushSendMsg(t)
    BY DEF ReplyInventory, Packed
  <1>2. /\ pc'[t] = "idle" /\ result = <<>> /\ \A i \in RedisThreads : i = t
        /\ pc' = [pc EXCEPT ![t] = "idle"] /\ asOf' = [asOf EXCEPT ![t] = <<>>]
        /\ UNCHANGED <<table, passes, changes, ask, records, result>>
        /\ reply'.ask = ask[t] /\ reply'.asOf = asOf[t] /\ reply'.count \in Nat
        /\ IsRows(reply'.ask.kind, reply'.asOf)
        /\ ReplyIsOneSnapshot'
    BY <1>1, PushIs
  <1>3. /\ Len(records[t]) \in 0 .. Len(records[t])
        /\ hash' = Written(ask[t].user, SubSeq(records[t], 1, Len(records[t])))
    BY <1>1, AllRecords
  <1>4. /\ hash' \in Hashes
        /\ \A v \in Users, p \in 1 .. Positions : NotNewer(hash'[v][p], table[v][p])
        /\ \A p \in Held(asOf[t]) : hash'[ask[t].user][p] = Field(asOf[t][p])
    BY <1>1, <1>3, UploadIs
  <1>5. TypeOK'
    <2>1. <<>> \in RowSeqs
      BY DEF RowSeqs
    <2> QED
      BY <1>2, <1>4, <2>1 DEF TypeOK, Hashes, Fields
  <1>6. Emptied' /\ Fetched' /\ Fits'
    BY <1>2 DEF Emptied, Fetched, Fits
  <1>7. Versioned'
    <2>1. \A v \in Users, p \in 1 .. Positions : table[v][p].version <= changes
      BY DEF Parts, Versioned
    <2> QED
      BY <1>2, <1>4, <2>1 DEF Versioned
  <1>8. HashNotBehindReply'
    <2>1. ASSUME NEW p \in Held(asOf[t])
          PROVE  Field(asOf[t][p]) = [code |-> Item(asOf[t][p]).code,
                                      version |-> Item(asOf[t][p]).version]
      <3>1. asOf[t] \in [1 .. Positions -> Row] /\ p \in DOMAIN asOf[t]
        BY <1>0, <1>1, <1>2 DEF IsRows, Held
      <3>2. asOf[t][p] \in Row
        BY <3>1
      <3>3. \A r \in Row : Item(r).code = Cast(r.code) /\ Item(r).version = r.version
        BY ItemIs
      <3> QED
        BY <3>2, <3>3 DEF Field
    <2> QED
      BY <1>2, <1>4, <2>1 DEF HashNotBehindReply
  <1> QED
    BY <1>2, <1>5, <1>6, <1>7, <1>8 DEF Parts, Replied

(* The reply with passes is pushed. *)
LEMMA ReplyPassesStep ==
  ASSUME TypeOK, Parts, NEW t \in RedisThreads, ReplyPasses(t)
  PROVE  TypeOK' /\ Parts'
  <1>0. "inventory" # "passes"
    OBVIOUS
  <1>1. /\ pc[t] = "packed" /\ ask[t].kind = "passes" /\ PushSendMsg(t) /\ hash' = hash
    BY DEF ReplyPasses, Packed
  <1>2. /\ pc'[t] = "idle" /\ result = <<>> /\ \A i \in RedisThreads : i = t
        /\ pc' = [pc EXCEPT ![t] = "idle"] /\ asOf' = [asOf EXCEPT ![t] = <<>>]
        /\ UNCHANGED <<table, passes, changes, ask, records, result>>
        /\ reply'.ask = ask[t] /\ reply'.asOf = asOf[t] /\ reply'.count \in Nat
        /\ IsRows(reply'.ask.kind, reply'.asOf)
        /\ ReplyIsOneSnapshot'
    BY <1>1, PushIs
  <1>3. TypeOK'
    <2>1. <<>> \in RowSeqs
      BY DEF RowSeqs
    <2> QED
      BY <1>1, <1>2, <2>1 DEF TypeOK
  <1>4. Emptied' /\ Fetched' /\ Fits'
    BY <1>2 DEF Emptied, Fetched, Fits
  <1>5. Versioned'
    BY <1>1, <1>2 DEF Parts, Versioned
  <1>6. HashNotBehindReply'
    BY <1>0, <1>1, <1>2 DEF HashNotBehindReply
  <1> QED
    BY <1>2, <1>3, <1>4, <1>5, <1>6 DEF Parts, Replied

-----------------------------------------------------------------------------
(* The specification. *)

(* Every step keeps the invariant. *)
LEMMA Step ==
  ASSUME TypeOK, Parts, [Next]_vars
  PROVE  TypeOK' /\ Parts'
  <1>1. CASE UNCHANGED vars
    BY <1>1 DEF vars, mysql, thread, TypeOK, Parts, Emptied, Fetched, Fits, Versioned, Replied,
                ReplyIsOneSnapshot, HashNotBehindReply
  <1>2. CASE Next
    BY <1>2, QueryStep, FetchStep, ThrowStep, PackStep, ChangeStep, UploadFailsStep,
       ReplyInventoryStep, ReplyPassesStep DEF Next, HandlerStep
  <1> QED
    BY <1>1, <1>2

(* It holds at the start. *)
LEMMA InitParts ==
  ASSUME Init
  PROVE  TypeOK /\ Parts
  <1>0. "inventory" # "passes"
    OBVIOUS
  <1>1. /\ NoReply.ask \in [user : Users, kind : Kinds] /\ NoReply.ask.kind = "passes"
        /\ NoReply.count = 0 /\ NoReply.asOf = <<>>
    BY DataAssumption DEF NoReply, Kinds
  <1>2. /\ 0 \in Versions /\ changes = 0
        /\ NoField \in Fields
    BY DataAssumption DEF Init, NoField, Versions, Fields
  <1>3. TypeOK
    <2>1. <<>> \in RowSeqs /\ <<>> \in RecordSeq
      BY DEF RowSeqs, RecordSeq
    <2>2. table \in [Users -> [1 .. Positions -> [code : Codes, version : Versions]]]
      <3>1. [code : Codes, version : {0}] \subseteq [code : Codes, version : Versions]
        BY <1>2
      <3> QED
        BY <3>1 DEF Init
    <2>3. hash \in Hashes
      BY <1>2 DEF Init, Hashes
    <2>4. /\ pc \in [RedisThreads -> {"idle", "fetch", "packed", "undefined"}]
          /\ ask \in [RedisThreads -> [user : Users, kind : Kinds]]
          /\ asOf \in [RedisThreads -> RowSeqs] /\ records \in [RedisThreads -> RecordSeq]
          /\ passes \in [Users -> 0 .. MaxPasses] /\ result \in RowSeqs /\ changes \in Versions
      BY <1>1, <1>2, <2>1 DEF Init
    <2>5. reply.ask \in [user : Users, kind : Kinds] /\ reply.count \in Nat
      BY <1>1 DEF Init
    <2> QED
      BY <2>2, <2>3, <2>4, <2>5 DEF TypeOK, Hashes, Fields
  <1>4. Emptied /\ Fetched /\ Fits
    BY DEF Init, Emptied, Fetched, Fits
  <1>5. Versioned
    <2>1. ASSUME NEW u \in Users, NEW p \in 1 .. Positions
          PROVE  table[u][p].version <= changes /\ NotNewer(hash[u][p], table[u][p])
      <3>1. table[u][p].version = 0
        <4>1. table[u][p] \in [code : Codes, version : {0}]
          BY DEF Init
        <4> QED
          BY <4>1
      <3>2. hash[u][p].version = -1
        BY DEF Init, NoField
      <3> QED
        BY <1>2, <3>1, <3>2 DEF NotNewer
    <2> QED
      BY <2>1 DEF Init, Versioned
  <1>6. Replied
    <2>1. <<>> \in Seq(Pass) /\ Len(<<>>) = 0
      OBVIOUS
    <2> QED
      BY <1>0, <1>1, <2>1
         DEF Init, Replied, IsRows, ReplyIsOneSnapshot, HashNotBehindReply
  <1> QED
    BY <1>3, <1>4, <1>5, <1>6 DEF Parts

(* The inductive invariant: what a handler still has to fetch and what it has
   decoded make up the rows of its query; hash, these rows and table are in
   that order, never newer; the last reply is right. *)
THEOREM Inductive == Spec => [](TypeOK /\ Parts)
  <1>1. TypeOK /\ Parts /\ [Next]_vars => (TypeOK /\ Parts)'
    BY Step
  <1> QED
    BY <1>1, InitParts, PTL DEF Spec

(* The state keeps its shape; a decoded item has a code that a uint16_t holds
   and that is not 0, whatever the item_code columns hold. *)
THEOREM TypeCorrect == Spec => []TypeOK
  BY Inductive, PTL

(* A reply decodes to all the items the user had when the query was made, and
   to nothing else (one redis thread, any number of positions and changes). *)
THEOREM SnapshotCorrect == Spec => []ReplyIsOneSnapshot
  <1>1. TypeOK /\ Parts => ReplyIsOneSnapshot
    BY DEF Parts, Replied
  <1> QED
    BY <1>1, Inductive, PTL

(* A handler writes behind its buffer only for a user with more items or passes
   than the buffer was made for. *)
THEOREM OverrunCorrect == Spec => []OverrunOnlyByTooMany
  <1>1. TypeOK /\ Parts => OverrunOnlyByTooMany
    BY RunsInvariants
  <1> QED
    BY <1>1, Inductive, PTL

(* An item a client was shown is in the hash the game server reads, or a newer
   value is, also after uploads that failed half-way. *)
THEOREM HashCorrect == Spec => []HashNotBehindReply
  <1>1. TypeOK /\ Parts => HashNotBehindReply
    BY DEF Parts, Replied
  <1> QED
    BY <1>1, Inductive, PTL

(* No upload, complete or not, brings back an older value of a row. *)
THEOREM HashMovesForward == Spec => HashNeverGoesBack
  <1> DEFINE Forward == \A u \in Users, p \in 1 .. Positions :
                          hash'[u][p].version >= hash[u][p].version
  <1>1. ASSUME TypeOK, Parts, [Next]_vars
        PROVE  Forward
    <2> SUFFICES ASSUME NEW u \in Users, NEW p \in 1 .. Positions
                 PROVE  hash'[u][p].version >= hash[u][p].version
      OBVIOUS
    <2>1. CASE UNCHANGED hash
      <3>1. hash[u][p].version \in Int
        BY <1>1, Typed
      <3>2. hash'[u][p] = hash[u][p]
        BY <2>1
      <3> QED
        BY <3>1, <3>2
    <2>2. ASSUME NEW t \in RedisThreads, ReplyInventory(t)
          PROVE  hash'[u][p].version >= hash[u][p].version
      <3>1. /\ Packed(t, "inventory") /\ Len(records[t]) \in 0 .. Len(records[t])
            /\ hash' = Written(ask[t].user, SubSeq(records[t], 1, Len(records[t])))
        BY <1>1, <2>2, AllRecords DEF ReplyInventory
      <3> QED
        BY <1>1, <3>1, UploadIs
    <2>3. ASSUME NEW t \in RedisThreads, UploadFails(t)
          PROVE  hash'[u][p].version >= hash[u][p].version
      <3>1. Packed(t, "inventory")
        BY <2>3 DEF UploadFails
      <3>2. PICK n \in 0 .. Len(records[t]) : hash' = Written(ask[t].user, SubSeq(records[t], 1, n))
        BY <2>3 DEF UploadFails
      <3> QED
        BY <1>1, <3>1, <3>2, UploadIs
    <2>4. \/ UNCHANGED hash
          \/ \E t \in RedisThreads : ReplyInventory(t) \/ UploadFails(t)
      BY <1>1 DEF Next, HandlerStep, Change, Query, Fetch, Throw, Pack, ReplyPasses, vars
    <2> QED
      BY <2>1, <2>2, <2>3, <2>4
  <1>2. TypeOK /\ Parts /\ [Next]_vars => [Forward]_vars
    BY <1>1
  <1> QED
    BY <1>2, Inductive, PTL DEF Spec, HashNeverGoesBack
=============================================================================
