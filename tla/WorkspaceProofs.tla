-------------------------- MODULE WorkspaceProofs --------------------------
(***************************************************************************)
(* The properties of Workspace hold for any number of dashboards and       *)
(* widgets: a page whose calls answer late, and out of order, keeps a list *)
(* of its own organization's dashboards, none twice and none deleted.      *)
(***************************************************************************)
EXTENDS Workspace, FiniteSetTheorems, SequenceTheorems, TLAPS

-----------------------------------------------------------------------------
(* Lists.                                                                  *)

ListIds(list) == {list[i].id : i \in DOMAIN list}

LEMMA IdsOfList == ASSUME NEW list PROVE Ids(ToSet(list)) = ListIds(list)
BY DEF Ids, ToSet, ListIds

LEMMA EmptyList ==
    ASSUME NEW list, list = <<>>
    PROVE  list \in Seq(Copy) /\ Sound(list) /\ ListIds(list) = {} /\ ToSet(list) = {}
<1>1. DOMAIN list = {}
  OBVIOUS
<1> QED
  BY <1>1 DEF Sound, ListIds, ToSet

LEMMA SingletonList ==
    ASSUME NEW d \in Copy, \A w \in d.widgets : w.dashboard_id = d.id
    PROVE  /\ <<d>> \in Seq(Copy) /\ Sound(<<d>>)
           /\ ListIds(<<d>>) = {d.id} /\ ToSet(<<d>>) = {d}
<1>1. DOMAIN <<d>> = {1} /\ <<d>>[1] = d
  OBVIOUS
<1>2. Sound(<<d>>)
  BY <1>1 DEF Sound
<1>3. ListIds(<<d>>) = {d.id}
  BY <1>1 DEF ListIds
<1>4. ToSet(<<d>>) = {d}
  BY <1>1 DEF ToSet
<1> QED
  BY <1>2, <1>3, <1>4

\* One list after another, with no board in common.
LEMMA ListsJoin ==
    ASSUME NEW list \in Seq(Copy), NEW more \in Seq(Copy), Sound(list), Sound(more),
           ListIds(list) \cap ListIds(more) = {}
    PROVE  /\ list \o more \in Seq(Copy) /\ Sound(list \o more)
           /\ ListIds(list \o more) \subseteq ListIds(list) \cup ListIds(more)
<1> DEFINE all == list \o more
<1>1. /\ all \in Seq(Copy) /\ Len(list) \in Nat /\ Len(more) \in Nat
      /\ DOMAIN all = 1 .. Len(list) + Len(more)
      /\ DOMAIN list = 1 .. Len(list) /\ DOMAIN more = 1 .. Len(more)
  BY ConcatProperties, LenProperties
<1>2. ASSUME NEW i \in DOMAIN all
      PROVE  IF i <= Len(list) THEN i \in DOMAIN list /\ all[i] = list[i]
             ELSE i - Len(list) \in DOMAIN more /\ all[i] = more[i - Len(list)]
  BY <1>1, ConcatProperties
<1> HIDE DEF all
<1>3. ASSUME NEW i \in DOMAIN all
      PROVE  /\ all[i].id \in IF i <= Len(list) THEN ListIds(list) ELSE ListIds(more)
             /\ \A w \in all[i].widgets : w.dashboard_id = all[i].id
  BY <1>2 DEF ListIds, Sound
<1>4. ASSUME NEW i \in DOMAIN all, NEW j \in DOMAIN all, all[i].id = all[j].id
      PROVE  i = j
  <2>1. i <= Len(list) <=> j <= Len(list)
    BY <1>3, <1>4
  <2>2. CASE i <= Len(list)
    BY <1>2, <1>4, <2>1, <2>2 DEF Sound
  <2>3. CASE ~(i <= Len(list))
    <3>1. i - Len(list) = j - Len(list)
      BY <1>2, <1>4, <2>1, <2>3 DEF Sound
    <3>2. i \in Nat /\ j \in Nat /\ Len(list) \in Nat
      BY <1>1
    <3> QED
      BY <3>1, <3>2
  <2> QED
    BY <2>2, <2>3
<1>5. Sound(all)
  BY <1>3, <1>4 DEF Sound
<1>6. ASSUME NEW i \in DOMAIN all PROVE all[i].id \in ListIds(list) \cup ListIds(more)
  BY <1>3
<1>7. ListIds(all) \subseteq ListIds(list) \cup ListIds(more)
  BY <1>6 DEF ListIds
<1> QED
  BY <1>1, <1>5, <1>7 DEF all

\* A list whose entries change but for their ids.
LEMMA ListMapped ==
    ASSUME NEW list \in Seq(Copy), NEW new, DOMAIN new = DOMAIN list,
           new = [i \in DOMAIN list |-> new[i]], Sound(list),
           \A i \in DOMAIN list :
              /\ new[i] \in Copy /\ new[i].id = list[i].id
              /\ \A w \in new[i].widgets : w.dashboard_id = new[i].id
    PROVE  new \in Seq(Copy) /\ Sound(new) /\ ListIds(new) = ListIds(list)
<1>1. DOMAIN list = 1 .. Len(list) /\ Len(list) \in Nat
  OBVIOUS
<1>2. new \in Seq(Copy)
  BY <1>1, IsASeq
<1>3. Sound(new)
  BY DEF Sound
<1>4. ListIds(new) = ListIds(list)
  BY DEF ListIds
<1> QED
  BY <1>2, <1>3, <1>4

\* A filter keeps some of a list, in an order that repeats nothing.
LEMMA ListFiltered ==
    ASSUME NEW list \in Seq(Copy), Sound(list), NEW id, NEW rest \in Filtered(list, id)
    PROVE  /\ rest \in Seq(Copy) /\ Sound(rest)
           /\ ListIds(rest) \subseteq ListIds(list) \ id
<1> DEFINE kept == {i \in DOMAIN list : list[i].id \notin id}
<1>1. PICK p \in Orderings(kept) : rest = [n \in DOMAIN p |-> list[p[n]]]
  BY DEF Filtered
<1>2. kept \subseteq DOMAIN list /\ \A i \in kept : list[i].id \notin id
  OBVIOUS
<1>3. Cardinality(kept) \in Nat
  <2>1. DOMAIN list = 1 .. Len(list) /\ Len(list) \in Nat
    OBVIOUS
  <2>2. IsFiniteSet(1 .. Len(list))
    BY <2>1, FS_Interval
  <2>3. IsFiniteSet(kept)
    BY <1>2, <2>1, <2>2, FS_Subset
  <2> QED
    BY <2>3, FS_CardinalityType
<1> HIDE DEF kept
<1>4. /\ p \in [1 .. Cardinality(kept) -> kept]
      /\ \A m, n \in DOMAIN p : m < n => p[m] < p[n]
  BY DEF Orderings
<1>5. DOMAIN p = 1 .. Cardinality(kept) /\ DOMAIN rest = DOMAIN p
      /\ \A n \in DOMAIN p : p[n] \in kept /\ p[n] \in DOMAIN list /\ rest[n] = list[p[n]]
  BY <1>1, <1>2, <1>4
<1>6. \A m, n \in DOMAIN p : p[m] = p[n] => m = n
  <2> SUFFICES ASSUME NEW m \in DOMAIN p, NEW n \in DOMAIN p, p[m] = p[n], m # n
               PROVE  FALSE
    OBVIOUS
  <2>1. m < n \/ n < m
    BY <1>3, <1>5
  <2>2. p[m] \in Nat /\ p[n] \in Nat
    BY <1>5
  <2> QED
    BY <1>4, <2>1, <2>2
<1>7. rest \in Seq(Copy)
  <2>1. \A n \in 1 .. Cardinality(kept) : rest[n] \in Copy
    BY <1>5
  <2>2. rest = [n \in 1 .. Cardinality(kept) |-> rest[n]]
    BY <1>1, <1>5
  <2> QED
    BY <1>3, <2>1, <2>2, IsASeq
<1>8. Sound(rest)
  BY <1>5, <1>6 DEF Sound
<1>9. ListIds(rest) \subseteq ListIds(list) \ id
  BY <1>2, <1>5 DEF ListIds
<1> QED
  BY <1>7, <1>8, <1>9

LEMMA FirstOfList ==
    ASSUME NEW list \in Seq(Copy)
    PROVE  /\ First(list) \subseteq Copy
           /\ \A d, e \in First(list) : d = e
           /\ Ids(First(list)) \subseteq ListIds(list)
<1>1. CASE list = <<>>
  BY <1>1 DEF First, Ids
<1>2. CASE list # <<>>
  <2>1. First(list) = {list[1]} /\ 1 \in DOMAIN list /\ list[1] \in Copy
    BY <1>2, HeadTailProperties DEF First
  <2>2. list[1].id \in ListIds(list)
    BY <2>1 DEF ListIds
  <2> QED
    BY <2>1, <2>2 DEF Ids
<1> QED
  BY <1>1, <1>2

-----------------------------------------------------------------------------
(* The store.                                                              *)

\* A list without its i-th board.
LEMMA BoardRemoved ==
    ASSUME NEW list \in Seq(Boards), NEW i \in DOMAIN list
    PROVE  /\ RemoveAt(list, i) \in Seq(Boards)
           /\ DOMAIN RemoveAt(list, i) = 1 .. Len(list) - 1
           /\ \A j \in 1 .. Len(list) - 1 :
                 RemoveAt(list, i)[j] = IF j < i THEN list[j] ELSE list[j + 1]
<1> DEFINE front == SubSeq(list, 1, i - 1)
           back == SubSeq(list, i + 1, Len(list))
<1>1. DOMAIN list = 1 .. Len(list) /\ Len(list) \in Nat /\ i \in 1 .. Len(list)
  OBVIOUS
<1>2. /\ front \in Seq(Boards) /\ Len(front) = i - 1
      /\ \A j \in 1 .. i - 1 : front[j] = list[j]
  BY <1>1
<1>3. /\ back \in Seq(Boards) /\ Len(back) = Len(list) - i
      /\ \A j \in 1 .. Len(list) - i : back[j] = list[j + i]
  BY <1>1
<1>4. RemoveAt(list, i) = front \o back
  BY DEF RemoveAt
<1> HIDE DEF front, back
<1>5. front \o back \in Seq(Boards) /\ Len(front \o back) = Len(front) + Len(back)
  BY <1>2, <1>3, ConcatProperties
<1>6. Len(front) + Len(back) = Len(list) - 1
  BY <1>1, <1>2, <1>3
<1>7. DOMAIN (front \o back) = 1 .. Len(list) - 1
  BY <1>5, <1>6, LenProperties
<1>8. ASSUME NEW j \in 1 .. Len(list) - 1
      PROVE  (front \o back)[j] = IF j < i THEN list[j] ELSE list[j + 1]
  <2>1. (front \o back)[j] = IF j <= Len(front) THEN front[j] ELSE back[j - Len(front)]
    BY <1>1, <1>2, <1>3
  <2>2. CASE j < i
    BY <1>1, <1>2, <2>1, <2>2
  <2>3. CASE ~(j < i)
    <3>1. j - Len(front) \in 1 .. Len(list) - i /\ (j - Len(front)) + i = j + 1
      BY <1>1, <1>2, <2>3
    <3>2. ~(j <= Len(front))
      BY <1>1, <1>2, <2>3
    <3> QED
      BY <1>3, <2>1, <2>3, <3>1, <3>2
  <2> QED
    BY <2>2, <2>3
<1> QED
  BY <1>4, <1>5, <1>7, <1>8

\* A new dashboard has a new id.
LEMMA StoreMoves ==
    ASSUME IInv, NEW b \in Boards, Store(b)
    PROVE  /\ live' \in Seq(Boards) /\ gone' \subseteq Boards /\ widgets' \subseteq Widget
           /\ IdsAreFresh' /\ Known' = Known \cup {b} /\ b \notin Known
<1>1. /\ live \in Seq(Boards) /\ Len(live) \in Nat /\ DOMAIN live = 1 .. Len(live)
      /\ gone \subseteq Boards /\ widgets \subseteq Widget
  BY DEF IInv, TypeOK
<1>2. b \notin Known /\ live' = <<b>> \o live /\ gone' = gone /\ widgets' = widgets
  BY DEF Store, Known
<1>3. live' \in Seq(Boards) /\ DOMAIN live' = 1 .. Len(live) + 1
      /\ live'[1] = b /\ \A i \in 2 .. Len(live) + 1 : live'[i] = live[i - 1]
  BY <1>1, <1>2
<1>4. ToSet(live') = ToSet(live) \cup {b}
  <2>1. \A i \in DOMAIN live' : live'[i] \in ToSet(live) \cup {b}
    <3>1. ASSUME NEW i \in DOMAIN live', i # 1 PROVE live'[i] \in ToSet(live)
      <4>1. i - 1 \in DOMAIN live /\ live'[i] = live[i - 1]
        BY <1>1, <1>3, <3>1
      <4> QED
        BY <4>1 DEF ToSet
    <3> QED
      BY <1>3, <3>1
  <2>2. b \in ToSet(live')
    BY <1>1, <1>3 DEF ToSet
  <2>3. ASSUME NEW i \in DOMAIN live PROVE live[i] \in ToSet(live')
    <3>1. i + 1 \in DOMAIN live' /\ live'[i + 1] = live[i]
      BY <1>1, <1>3
    <3> QED
      BY <3>1 DEF ToSet
  <2> QED
    BY <2>1, <2>2, <2>3 DEF ToSet
<1>5. \A i \in DOMAIN live : live[i] # b
  BY <1>2 DEF Known, ToSet
<1>6. ASSUME NEW i \in DOMAIN live', NEW j \in DOMAIN live', live'[i] = live'[j]
      PROVE  i = j
  <2>1. \A k \in DOMAIN live' : k = 1 \/ (k - 1 \in DOMAIN live /\ live'[k] = live[k - 1])
    BY <1>1, <1>3
  <2>2. i = 1 <=> j = 1
    BY <1>3, <1>5, <1>6, <2>1
  <2>3. CASE i # 1
    <3>1. i - 1 = j - 1
      BY <1>6, <2>1, <2>2, <2>3 DEF IInv, IdsAreFresh
    <3> QED
      BY <1>1, <1>3, <3>1
  <2> QED
    BY <2>2, <2>3
<1>7. IdsAreFresh'
  BY <1>2, <1>4, <1>6 DEF IInv, IdsAreFresh, Known
<1> QED
  BY <1>1, <1>2, <1>3, <1>4, <1>7 DEF Known

\* A deleted dashboard's id stays known.
LEMMA EraseMoves ==
    ASSUME IInv, NEW b \in Boards, Erase(b)
    PROVE  /\ live' \in Seq(Boards) /\ gone' \subseteq Boards /\ widgets' \subseteq Widget
           /\ IdsAreFresh' /\ Known' = Known
<1>1. /\ live \in Seq(Boards) /\ Len(live) \in Nat /\ DOMAIN live = 1 .. Len(live)
      /\ gone \subseteq Boards /\ widgets \subseteq Widget
  BY DEF IInv, TypeOK
<1>2. PICK i \in DOMAIN live : live[i] = b /\ live' = RemoveAt(live, i)
  BY DEF Erase
<1>3. gone' = gone \cup {b} /\ widgets' = widgets
  BY DEF Erase
<1>4. /\ live' \in Seq(Boards) /\ DOMAIN live' = 1 .. Len(live) - 1
      /\ \A j \in 1 .. Len(live) - 1 : live'[j] = IF j < i THEN live[j] ELSE live[j + 1]
  BY <1>1, <1>2, BoardRemoved
<1>5. \A j, k \in DOMAIN live : live[j] = live[k] => j = k
  BY DEF IInv, IdsAreFresh
<1>6. ASSUME NEW j \in DOMAIN live', NEW k \in DOMAIN live', live'[j] = live'[k]
      PROVE  j = k
  <2>1. j \in 1 .. Len(live) - 1 /\ k \in 1 .. Len(live) - 1 /\ i \in 1 .. Len(live)
    BY <1>1, <1>4
  <2>2. j \in DOMAIN live /\ j + 1 \in DOMAIN live /\ k \in DOMAIN live /\ k + 1 \in DOMAIN live
    BY <1>1, <2>1
  <2> QED
    BY <1>1, <1>4, <1>5, <1>6, <2>1, <2>2
<1>7. ToSet(live') = ToSet(live) \ {b}
  <2>1. ASSUME NEW j \in DOMAIN live' PROVE live'[j] \in ToSet(live) \ {b}
    <3>1. /\ j \in DOMAIN live /\ j + 1 \in DOMAIN live
          /\ live'[j] = IF j < i THEN live[j] ELSE live[j + 1]
          /\ j # i \/ ~(j < i)
      BY <1>1, <1>4
    <3>2. IF j < i THEN j # i ELSE j + 1 # i
      BY <1>1, <1>4
    <3>3. live'[j] # b
      BY <1>2, <1>5, <3>1, <3>2
    <3> QED
      BY <3>1, <3>3 DEF ToSet
  <2>2. ASSUME NEW j \in DOMAIN live, j # i PROVE live[j] \in ToSet(live')
    <3>1. CASE j < i
      <4>1. j \in DOMAIN live' /\ live'[j] = live[j]
        BY <1>1, <1>4, <3>1
      <4> QED
        BY <4>1 DEF ToSet
    <3>2. CASE ~(j < i)
      <4>1. j - 1 \in DOMAIN live' /\ ~(j - 1 < i) /\ (j - 1) + 1 = j
        BY <1>1, <1>4, <2>2, <3>2
      <4>2. live'[j - 1] = live[j]
        BY <1>4, <4>1
      <4> QED
        BY <4>1, <4>2 DEF ToSet
    <3> QED
      BY <3>1, <3>2
  <2> QED
    BY <1>2, <2>1, <2>2 DEF ToSet
<1>8. b \in ToSet(live)
  BY <1>2 DEF ToSet
<1>9. IdsAreFresh'
  BY <1>3, <1>6, <1>7 DEF IInv, IdsAreFresh
<1> QED
  BY <1>1, <1>3, <1>4, <1>7, <1>8, <1>9 DEF Known

LEMMA AttachMoves ==
    ASSUME IInv, NEW b \in Boards, NEW w \in Widgets, Attach(b, w)
    PROVE  /\ live' \in Seq(Boards) /\ gone' \subseteq Boards /\ widgets' \subseteq Widget
           /\ IdsAreFresh' /\ Known' = Known
BY DEF IInv, TypeOK, Attach, Widget, IdsAreFresh, Known

\* The list as the API answers it.
LEMMA StoredList ==
    ASSUME IInv
    PROVE  LET copies == [i \in DOMAIN live |-> Stored(live[i])]
           IN  copies \in Seq(Copy) /\ Sound(copies) /\ ListIds(copies) \subseteq Known
<1> DEFINE copies == [i \in DOMAIN live |-> Stored(live[i])]
<1>1. live \in Seq(Boards) /\ Len(live) \in Nat /\ DOMAIN live = 1 .. Len(live)
      /\ widgets \subseteq Widget
  BY DEF IInv, TypeOK
<1>2. \A b \in Boards : Stored(b) \in Copy /\ Stored(b).id = b
                        /\ \A w \in Stored(b).widgets : w.dashboard_id = b
  BY <1>1 DEF Stored, Copy
<1>3. \A i \in DOMAIN live : live[i] \in Boards /\ copies[i] = Stored(live[i])
  BY <1>1
<1>4. copies \in Seq(Copy) /\ DOMAIN copies = DOMAIN live
  <2>1. \A i \in 1 .. Len(live) : Stored(live[i]) \in Copy
    BY <1>1, <1>2
  <2>2. [i \in 1 .. Len(live) |-> Stored(live[i])] \in Seq(Copy)
    BY <1>1, <2>1, IsASeq
  <2> QED
    BY <1>1, <2>2
<1> HIDE DEF copies
<1>5. Sound(copies)
  BY <1>2, <1>3, <1>4 DEF Sound, IInv, IdsAreFresh
<1>6. ListIds(copies) \subseteq Known
  BY <1>2, <1>3, <1>4 DEF ListIds, Known, ToSet
<1> QED
  BY <1>4, <1>5, <1>6 DEF copies

LEMMA StoredBoard ==
    ASSUME IInv, NEW b \in Boards
    PROVE  /\ Stored(b) \in Copy /\ Stored(b).id = b
           /\ \A w \in Stored(b).widgets : w.dashboard_id = b
BY DEF IInv, TypeOK, Stored, Copy

-----------------------------------------------------------------------------
(* Calls.                                                                  *)

\* What the invariant says of one call: known is what the store has handed
\* out, seen the ids the page has seen, off the boards it has dropped.
CallOK(k, c, known, seen, off) ==
    /\ c \in Call
    /\ \A a, b \in c.id : a = b
    /\ Sound(c.dashboards) /\ Sound(c.copies)
    /\ c.id \subseteq seen /\ ListIds(c.dashboards) \subseteq seen
    /\ k = "list" => ListIds(c.copies) \subseteq known
    /\ k = "create" =>
          ListIds(c.copies) \subseteq known \ seen /\ \A d, e \in ToSet(c.copies) : d = e
    /\ k = "update" => ListIds(c.copies) \subseteq c.id
    /\ k = "delete" => ListIds(c.dashboards) \cap off = {}
    /\ k = "widget" => \A w \in c.widget : w.dashboard_id \in c.id

LEMMA SeenIds ==
    Seen = ListIds(dashboards) \cup Ids(activeDashboard) \cup dropped
           \cup UNION {UNION {c.id \cup ListIds(c.dashboards) : c \in call[k]} : k \in Kinds}
BY IdsOfList DEF Seen

LEMMA CallsAreOK ==
    ASSUME IInv, NEW k \in Kinds, NEW c \in call[k]
    PROVE  CallOK(k, c, Known, Seen, dropped)
<1>1. c \in Call /\ (\A a, b \in c.id : a = b) /\ Sound(c.dashboards) /\ Sound(c.copies)
  BY DEF IInv, TypeOK, PageHoldsOne, AnswersAreSound
<1>2. c.id \subseteq Seen /\ ListIds(c.dashboards) \subseteq Seen
  BY SeenIds
<1>3. /\ k = "list" => ListIds(c.copies) \subseteq Known
      /\ k = "create" =>
            ListIds(c.copies) \subseteq Known \ Seen /\ \A d, e \in ToSet(c.copies) : d = e
      /\ k = "update" => ListIds(c.copies) \subseteq c.id
      /\ k = "delete" => ListIds(c.dashboards) \cap dropped = {}
      /\ k = "widget" => \A w \in c.widget : w.dashboard_id \in c.id
  BY IdsOfList DEF IInv, AnswersAreSound, PageHoldsOne
<1> QED
  BY <1>1, <1>2, <1>3 DEF CallOK

\* A call stays good while others move.
LEMMA CallStays ==
    ASSUME NEW k, NEW c, NEW known, NEW seen, NEW off, CallOK(k, c, known, seen, off),
           NEW known2, NEW seen2, NEW off2, known \subseteq known2,
           seen \subseteq seen2, k = "create" => seen2 = seen,
           k = "delete" => off2 = off
    PROVE  CallOK(k, c, known2, seen2, off2)
BY DEF CallOK

\* The invariant after a step, part by part; seen bounds the ids the page has
\* seen by then.
PageAfter(seen) ==
    /\ TypeOK' /\ IdsAreFresh' /\ LoadingComesFirst'
    /\ \A d, e \in activeDashboard' : d = e
    /\ \A k \in Kinds : \A c, d \in call'[k] : c = d
    /\ \A k \in Kinds : \A c \in call'[k] : CallOK(k, c, Known', seen, dropped')
    /\ ListIds(dashboards') \subseteq seen /\ Ids(activeDashboard') \subseteq seen
    /\ dropped' \subseteq seen /\ seen \subseteq Known'
    /\ Sound(dashboards') /\ ListIds(dashboards') \cap dropped' = {}

LEMMA PartsSuffice ==
    ASSUME NEW seen, PageAfter(seen)
    PROVE  IInv'
<1> USE DEF PageAfter
<1>1. Seen' \subseteq seen
  BY IdsOfList DEF Seen, CallOK
<1>2. PageHoldsOne'
  BY DEF PageHoldsOne, CallOK, Kinds
<1>3. AnswersAreSound'
  <2>1. \A k \in Kinds : \A c \in call'[k] : Sound(c.dashboards) /\ Sound(c.copies)
    BY DEF CallOK
  <2>2. \A c \in call'["list"] : Ids(ToSet(c.copies)) \subseteq Known'
    BY IdsOfList DEF CallOK, Kinds
  <2>3. \A c \in call'["create"] : Ids(ToSet(c.copies)) \subseteq Known' \ Seen'
    BY <1>1, IdsOfList DEF CallOK, Kinds
  <2>4. \A c \in call'["update"] : Ids(ToSet(c.copies)) \subseteq c.id
    BY IdsOfList DEF CallOK, Kinds
  <2>5. \A c \in call'["delete"] : Ids(ToSet(c.dashboards)) \cap dropped' = {}
    BY IdsOfList DEF CallOK, Kinds
  <2>6. \A c \in call'["widget"] : \A w \in c.widget : w.dashboard_id \in c.id
    BY DEF CallOK, Kinds
  <2> QED
    BY <2>1, <2>2, <2>3, <2>4, <2>5, <2>6 DEF AnswersAreSound
<1>4. ListIsSound' /\ DroppedStaysOff'
  BY DEF ListIsSound, DroppedStaysOff, ListIds
<1> QED
  BY <1>1, <1>2, <1>3, <1>4 DEF IInv

\* A step that replaces at most one call.
StepOK(k, calls, seen) ==
    /\ call' = [call EXCEPT ![k] = calls]
    /\ \A c \in calls : CallOK(k, c, Known', seen, dropped')
    /\ \A c, d \in calls : c = d
    /\ \A j \in Kinds \ {k} : \A c \in call[j] : CallOK(j, c, Known', seen, dropped')
    /\ live' \in Seq(Boards) /\ gone' \subseteq Boards /\ widgets' \subseteq Widget
    /\ loading' \in BOOLEAN /\ panel' \in BOOLEAN
    /\ modal' \in {"none", "create", "edit", "widget"}
    /\ dashboards' \in Seq(Copy) /\ activeDashboard' \subseteq Copy /\ dropped' \subseteq Boards
    /\ IdsAreFresh' /\ LoadingComesFirst'
    /\ \A d, e \in activeDashboard' : d = e
    /\ ListIds(dashboards') \subseteq seen /\ Ids(activeDashboard') \subseteq seen
    /\ dropped' \subseteq seen /\ seen \subseteq Known'
    /\ Sound(dashboards') /\ ListIds(dashboards') \cap dropped' = {}

LEMMA StepSuffices ==
    ASSUME IInv, NEW k \in Kinds, NEW calls, NEW seen, StepOK(k, calls, seen)
    PROVE  IInv'
<1> USE DEF StepOK
<1>1. \A j \in Kinds : call'[j] = IF j = k THEN calls ELSE call[j]
  BY DEF IInv, TypeOK
<1>2. TypeOK'
  <2>1. calls \subseteq Call
    BY DEF CallOK
  <2>2. call' \in [Kinds -> SUBSET Call]
    BY <2>1 DEF IInv, TypeOK
  <2> QED
    BY <2>2 DEF TypeOK
<1>3. \A j \in Kinds : \A c, d \in call'[j] : c = d
  BY <1>1 DEF IInv, PageHoldsOne
<1>4. \A j \in Kinds : \A c \in call'[j] : CallOK(j, c, Known', seen, dropped')
  BY <1>1
<1>5. PageAfter(seen)
  BY <1>2, <1>3, <1>4 DEF PageAfter
<1> QED
  BY <1>5, PartsSuffice

\* What the steps below need of the state they start from.
LEMMA PageFacts ==
    ASSUME IInv
    PROVE  /\ live \in Seq(Boards) /\ gone \subseteq Boards /\ widgets \subseteq Widget
           /\ loading \in BOOLEAN /\ panel \in BOOLEAN
           /\ modal \in {"none", "create", "edit", "widget"}
           /\ dashboards \in Seq(Copy) /\ activeDashboard \subseteq Copy
           /\ dropped \subseteq Boards /\ call \in [Kinds -> SUBSET Call]
           /\ IdsAreFresh /\ LoadingComesFirst
           /\ \A d, e \in activeDashboard : d = e
           /\ \A k \in Kinds : \A c, d \in call[k] : c = d
           /\ ListIds(dashboards) \subseteq Seen /\ Ids(activeDashboard) \subseteq Seen
           /\ dropped \subseteq Seen /\ Seen \subseteq Known
           /\ Sound(dashboards) /\ ListIds(dashboards) \cap dropped = {}
<1>1. ListIds(dashboards) \subseteq Seen /\ Ids(activeDashboard) \subseteq Seen
      /\ dropped \subseteq Seen
  BY SeenIds
<1>2. ListIds(dashboards) \cap dropped = {}
  BY DEF IInv, DroppedStaysOff, ListIds
<1> QED
  BY <1>1, <1>2 DEF IInv, TypeOK, PageHoldsOne, ListIsSound

-----------------------------------------------------------------------------
(* Steps of the API.                                                       *)

\* A step of the store alone.
LEMMA ColleagueKeeps ==
    ASSUME IInv, Colleague
    PROVE  IInv'
<1>1. PICK b \in Boards : Store(b) \/ Erase(b) \/ \E w \in Widgets : Attach(b, w)
  BY DEF Colleague
<1>2. UNCHANGED <<loading, dashboards, activeDashboard, panel, modal, call, dropped>>
  BY DEF Colleague, viewVars
<1>3. /\ live' \in Seq(Boards) /\ gone' \subseteq Boards /\ widgets' \subseteq Widget
      /\ IdsAreFresh' /\ Known \subseteq Known'
  BY <1>1, StoreMoves, EraseMoves, AttachMoves
<1>4. TypeOK'
  BY <1>2, <1>3, PageFacts DEF TypeOK
<1>5. LoadingComesFirst'
  BY <1>2, PageFacts DEF LoadingComesFirst
<1>6. ASSUME NEW k \in Kinds, NEW c \in call[k]
      PROVE  CallOK(k, c, Known', Seen, dropped)
  BY <1>3, <1>6, CallsAreOK, CallStays
<1>7. Seen \subseteq Known'
  BY <1>3, PageFacts
<1>8. PageAfter(Seen)
  BY <1>2, <1>3, <1>4, <1>5, <1>6, <1>7, PageFacts DEF PageAfter
<1> QED
  BY <1>8, PartsSuffice

\* An answer that is what the store said when it was given.
AnswerOK(k, copies, new) ==
    /\ Answer(k, copies, new) /\ UNCHANGED <<viewVars, dropped>>
    /\ copies \in Seq(Copy) /\ new \subseteq Widget /\ Sound(copies)
    /\ live' \in Seq(Boards) /\ gone' \subseteq Boards /\ widgets' \subseteq Widget
    /\ IdsAreFresh' /\ Known \subseteq Known'
    /\ k = "list" => ListIds(copies) \subseteq Known'
    /\ k = "create" =>
          ListIds(copies) \subseteq Known' \ Seen /\ \A d, e \in ToSet(copies) : d = e
    /\ k = "update" => \A c \in call[k] : ListIds(copies) \subseteq c.id
    /\ k = "widget" => \A c \in call[k] : \A w \in new : w.dashboard_id \in c.id

LEMMA AnswerKeeps ==
    ASSUME IInv, NEW k \in Kinds, NEW copies, NEW new, AnswerOK(k, copies, new)
    PROVE  IInv'
<1> USE DEF AnswerOK
<1>1. UNCHANGED <<loading, dashboards, activeDashboard, panel, modal, dropped>>
  BY DEF viewVars
<1>2. PICK c \in call[k] :
         call' = [call EXCEPT ![k] = {[c EXCEPT !.stage = "served", !.copies = copies,
                                                !.widget = new]}]
  BY DEF Answer
<1> DEFINE served == [c EXCEPT !.stage = "served", !.copies = copies, !.widget = new]
<1>3. CallOK(k, c, Known, Seen, dropped) /\ c \in Call
  BY CallsAreOK DEF CallOK
<1>4. /\ served \in Call /\ served.id = c.id /\ served.dashboards = c.dashboards
      /\ served.copies = copies /\ served.widget = new
  BY <1>3 DEF Call
<1>5. call' = [call EXCEPT ![k] = {served}]
  BY <1>2
<1> HIDE DEF served
<1>6. CallOK(k, served, Known', Seen, dropped')
  BY <1>1, <1>3, <1>4 DEF CallOK
<1>7. ASSUME NEW j \in Kinds \ {k}, NEW d \in call[j]
      PROVE  CallOK(j, d, Known', Seen, dropped')
  BY <1>1, <1>7, CallsAreOK, CallStays
<1>8. LoadingComesFirst'
  <2>1. \A j \in Kinds : call'[j] = IF j = k THEN {served} ELSE call[j]
    BY <1>5, PageFacts
  <2>2. \A j \in Kinds : call[j] = {} <=> call'[j] = {}
    BY <1>2, <2>1
  <2> QED
    BY <1>1, <2>2, PageFacts DEF LoadingComesFirst, Kinds
<1>9. Seen \subseteq Known'
  BY PageFacts
<1>10. StepOK(k, {served}, Seen)
  BY <1>1, <1>5, <1>6, <1>7, <1>8, <1>9, PageFacts DEF StepOK
<1> QED
  BY <1>10, StepSuffices

LEMMA ServeKeeps ==
    ASSUME IInv, Serve
    PROVE  IInv'
<1>1. UNCHANGED <<viewVars, dropped>>
  BY DEF Serve
<1>2. /\ "list" \in Kinds /\ "create" \in Kinds /\ "update" \in Kinds
      /\ "delete" \in Kinds /\ "widget" \in Kinds
  BY DEF Kinds
<1>3. UNCHANGED storeVars =>
         /\ live' \in Seq(Boards) /\ gone' \subseteq Boards /\ widgets' \subseteq Widget
         /\ IdsAreFresh' /\ Known' = Known
  BY PageFacts DEF storeVars, IdsAreFresh, Known
<1>4. ASSUME NEW k \in Kinds, NEW b, Target(k, b) PROVE \A c \in call[k] : b \in c.id
  BY <1>4, PageFacts DEF Target
<1>5. <<>> \in Seq(Copy) /\ Sound(<<>>) /\ ListIds(<<>>) = {}
  BY EmptyList
<1>6. CASE Answer("list", [i \in DOMAIN live |-> Stored(live[i])], {}) /\ UNCHANGED storeVars
  <2> DEFINE copies == [i \in DOMAIN live |-> Stored(live[i])]
  <2>1. copies \in Seq(Copy) /\ Sound(copies) /\ ListIds(copies) \subseteq Known
    BY StoredList
  <2>2. Answer("list", copies, {})
    BY <1>6
  <2> HIDE DEF copies
  <2>3. AnswerOK("list", copies, {})
    BY <1>1, <1>3, <1>6, <2>1, <2>2 DEF AnswerOK
  <2> QED
    BY <1>2, <2>3, AnswerKeeps
<1>7. ASSUME NEW b \in Boards, Store(b),
             Answer("create", <<[id |-> b, widgets |-> {}]>>, {})
      PROVE  IInv'
  <2> DEFINE d == [id |-> b, widgets |-> {}]
  <2>1. d \in Copy /\ d.id = b /\ d.widgets = {}
    BY DEF Copy
  <2>2. Answer("create", <<d>>, {})
    BY <1>7
  <2> HIDE DEF d
  <2>3. <<d>> \in Seq(Copy) /\ Sound(<<d>>) /\ ListIds(<<d>>) = {b} /\ ToSet(<<d>>) = {d}
    BY <2>1, SingletonList
  <2>4. /\ live' \in Seq(Boards) /\ gone' \subseteq Boards /\ widgets' \subseteq Widget
        /\ IdsAreFresh' /\ Known' = Known \cup {b} /\ b \notin Known
    BY <1>7, StoreMoves
  <2>5. ListIds(<<d>>) \subseteq Known' \ Seen
    BY <2>3, <2>4, PageFacts
  <2>6. AnswerOK("create", <<d>>, {})
    BY <1>1, <2>2, <2>3, <2>4, <2>5 DEF AnswerOK
  <2> QED
    BY <1>2, <2>6, AnswerKeeps
<1>8. ASSUME NEW b \in Boards, Target("update", b), Answer("update", <<Stored(b)>>, {}),
             UNCHANGED storeVars
      PROVE  IInv'
  <2>1. <<Stored(b)>> \in Seq(Copy) /\ Sound(<<Stored(b)>>) /\ ListIds(<<Stored(b)>>) = {b}
    BY StoredBoard, SingletonList
  <2>2. \A c \in call["update"] : ListIds(<<Stored(b)>>) \subseteq c.id
    BY <1>2, <1>4, <1>8, <2>1
  <2>3. AnswerOK("update", <<Stored(b)>>, {})
    BY <1>1, <1>3, <1>8, <2>1, <2>2 DEF AnswerOK
  <2> QED
    BY <1>2, <2>3, AnswerKeeps
<1>9. ASSUME NEW b \in Boards, Answer("delete", <<>>, {}), Erase(b) PROVE IInv'
  <2>1. /\ live' \in Seq(Boards) /\ gone' \subseteq Boards /\ widgets' \subseteq Widget
        /\ IdsAreFresh' /\ Known' = Known
    BY <1>9, EraseMoves
  <2>2. AnswerOK("delete", <<>>, {})
    BY <1>1, <1>5, <1>9, <2>1 DEF AnswerOK
  <2> QED
    BY <1>2, <2>2, AnswerKeeps
<1>10. ASSUME NEW b \in Boards, NEW w \in Widgets, Target("widget", b), Attach(b, w),
              Answer("widget", <<>>, {[id |-> w, dashboard_id |-> b]})
       PROVE  IInv'
  <2> DEFINE new == {[id |-> w, dashboard_id |-> b]}
  <2>1. new \in SUBSET Widget /\ \A x \in new : x.dashboard_id = b
    BY DEF Widget
  <2>2. Answer("widget", <<>>, new)
    BY <1>10
  <2> HIDE DEF new
  <2>3. \A c \in call["widget"] : \A x \in new : x.dashboard_id \in c.id
    BY <1>2, <1>4, <1>10, <2>1
  <2>4. /\ live' \in Seq(Boards) /\ gone' \subseteq Boards /\ widgets' \subseteq Widget
        /\ IdsAreFresh' /\ Known' = Known
    BY <1>10, AttachMoves
  <2>5. AnswerOK("widget", <<>>, new)
    BY <1>1, <1>5, <2>1, <2>2, <2>3, <2>4 DEF AnswerOK
  <2> QED
    BY <1>2, <2>5, AnswerKeeps
<1>11. ToSet(live) \subseteq Boards
  BY PageFacts DEF ToSet
<1> QED
  BY <1>6, <1>7, <1>8, <1>9, <1>10, <1>11 DEF Serve

-----------------------------------------------------------------------------
(* Steps of the member.                                                    *)

\* What the member looks at changes; the list and the calls do not.
LEMMA LookingKeeps ==
    ASSUME IInv, UNCHANGED <<storeVars, loading, dashboards, call, dropped>>,
           panel' \in BOOLEAN, modal' \in {"none", "create", "edit", "widget"},
           activeDashboard' \subseteq Copy, \A d, e \in activeDashboard' : d = e,
           Ids(activeDashboard') \subseteq Seen,
           ~loading
    PROVE  IInv'
<1>1. UNCHANGED <<live, gone, widgets>>
  BY DEF storeVars
<1>2. TypeOK'
  BY <1>1, PageFacts DEF TypeOK
<1>3. LoadingComesFirst'
  BY PageFacts DEF LoadingComesFirst
<1>4. IdsAreFresh' /\ Known' = Known
  BY <1>1, PageFacts DEF IdsAreFresh, Known
<1>5. ASSUME NEW k \in Kinds, NEW c \in call[k] PROVE CallOK(k, c, Known', Seen, dropped')
  BY <1>4, <1>5, CallsAreOK
<1>6. PageAfter(Seen)
  BY <1>2, <1>3, <1>4, <1>5, PageFacts DEF PageAfter
<1> QED
  BY <1>6, PartsSuffice

LEMMA MemberKeeps ==
    ASSUME IInv,
           \/ \E i \in DOMAIN dashboards : Select(i)
           \/ SelectPanel
           \/ CloseModal
           \/ \E m \in {"create", "edit", "widget"} : OpenModal(m)
    PROVE  IInv'
<1>1. ASSUME NEW i \in DOMAIN dashboards, Select(i) PROVE IInv'
  <2>1. /\ activeDashboard' = {dashboards[i]} /\ panel' = FALSE /\ ~loading
        /\ UNCHANGED <<storeVars, loading, dashboards, modal, call, dropped>>
    BY <1>1 DEF Select, Idle, Usable
  <2>2. dashboards[i] \in Copy /\ dashboards[i].id \in ListIds(dashboards)
    BY PageFacts DEF ListIds
  <2>3. /\ activeDashboard' \subseteq Copy /\ Ids(activeDashboard') \subseteq Seen
        /\ \A d, e \in activeDashboard' : d = e
    BY <2>1, <2>2, PageFacts DEF Ids
  <2> QED
    BY <2>1, <2>3, PageFacts, LookingKeeps
<1>2. CASE SelectPanel
  <2>1. /\ activeDashboard' = {} /\ panel' = TRUE /\ ~loading
        /\ UNCHANGED <<storeVars, loading, dashboards, modal, call, dropped>>
    BY <1>2 DEF SelectPanel, Idle, Usable
  <2>2. Ids(activeDashboard') \subseteq Seen
    BY <2>1 DEF Ids
  <2> QED
    BY <2>1, <2>2, PageFacts, LookingKeeps
<1>3. CASE CloseModal \/ \E m \in {"create", "edit", "widget"} : OpenModal(m)
  <2>1. /\ modal' \in {"none", "create", "edit", "widget"} /\ ~loading
        /\ UNCHANGED <<storeVars, loading, dashboards, activeDashboard, panel, call, dropped>>
    BY <1>3 DEF CloseModal, OpenModal, Idle, Usable
  <2> QED
    BY <2>1, PageFacts, LookingKeeps
<1> QED
  BY <1>1, <1>2, <1>3

\* A call takes along what the page shows when it is sent.
LEMMA SubmitKeeps ==
    ASSUME IInv, NEW k \in Kinds, Submit(k)
    PROVE  IInv'
<1> DEFINE id == IF k = "create" THEN {} ELSE {d.id : d \in activeDashboard}
           new == NewCall(id, dashboards)
<1>1. /\ k # "list" /\ ~loading /\ call' = [call EXCEPT ![k] = {new}]
      /\ UNCHANGED <<live, gone, widgets, loading, dashboards, activeDashboard, panel, modal,
                     dropped>>
  BY DEF Submit, Usable, storeVars, viewVars
<1>2. id \subseteq Boards /\ id \subseteq Seen /\ \A a, b \in id : a = b
  BY PageFacts DEF Ids, Copy
<1> HIDE DEF id
<1>3. /\ new.id = id /\ new.dashboards = dashboards
      /\ new.copies = <<>> /\ new.widget = {} /\ new.stage = "sent"
      /\ new = [id |-> id, dashboards |-> dashboards, stage |-> "sent",
                copies |-> <<>>, widget |-> {}]
  BY DEF NewCall
<1>4. <<>> \in Seq(Copy) /\ Sound(<<>>) /\ ListIds(<<>>) = {} /\ ToSet(<<>>) = {}
  BY EmptyList
<1>5. new \in Call
  BY <1>2, <1>3, <1>4, PageFacts DEF Call
<1> HIDE DEF new
<1>6. IdsAreFresh' /\ Known' = Known
  BY <1>1, PageFacts DEF IdsAreFresh, Known
<1>7. CallOK(k, new, Known', Seen, dropped')
  BY <1>1, <1>2, <1>3, <1>4, <1>5, PageFacts DEF CallOK
<1>8. ASSUME NEW j \in Kinds \ {k}, NEW d \in call[j]
      PROVE  CallOK(j, d, Known', Seen, dropped')
  BY <1>1, <1>6, <1>8, CallsAreOK
<1>9. LoadingComesFirst'
  <2>1. call'["list"] = call["list"]
    BY <1>1, PageFacts DEF Kinds
  <2> QED
    BY <1>1, <2>1, PageFacts DEF LoadingComesFirst
<1>10. StepOK(k, {new}, Seen)
  BY <1>1, <1>6, <1>7, <1>8, <1>9, PageFacts DEF StepOK
<1> QED
  BY <1>10, StepSuffices

-----------------------------------------------------------------------------
(* Answers.                                                                *)

\* A call is over and the page has made something of its answer.
EndOK(k, seen) ==
    /\ Done(k) /\ UNCHANGED storeVars /\ ~loading'
    /\ k # "list" => ~loading
    /\ \A j \in Kinds \ {k} : \A c \in call[j] : CallOK(j, c, Known, seen, dropped')
    /\ panel' \in BOOLEAN /\ modal' \in {"none", "create", "edit", "widget"}
    /\ dashboards' \in Seq(Copy) /\ activeDashboard' \subseteq Copy /\ dropped' \subseteq Boards
    /\ loading' \in BOOLEAN
    /\ \A d, e \in activeDashboard' : d = e
    /\ ListIds(dashboards') \subseteq seen /\ Ids(activeDashboard') \subseteq seen
    /\ dropped' \subseteq seen /\ seen \subseteq Known
    /\ Sound(dashboards') /\ ListIds(dashboards') \cap dropped' = {}

LEMMA EndKeeps ==
    ASSUME IInv, NEW k \in Kinds, NEW seen, EndOK(k, seen)
    PROVE  IInv'
<1>1. call' = [call EXCEPT ![k] = {}] /\ UNCHANGED <<live, gone, widgets>>
  BY DEF EndOK, Done, storeVars
<1>2. IdsAreFresh' /\ Known' = Known
  BY <1>1, PageFacts DEF IdsAreFresh, Known
<1>3. LoadingComesFirst'
  <2>1. call'["list"] = {}
    BY <1>1, PageFacts DEF EndOK, LoadingComesFirst, Kinds
  <2> QED
    BY <2>1 DEF EndOK, LoadingComesFirst
<1>4. StepOK(k, {}, seen)
  BY <1>1, <1>2, <1>3, PageFacts DEF EndOK, StepOK
<1> QED
  BY <1>4, StepSuffices

\* Calls other than the first GET run after it.
LEMMA CallsComeLater ==
    ASSUME IInv, NEW k \in Kinds, call[k] # {}
    PROVE  IF k = "list" THEN loading ELSE ~loading
BY DEF IInv, LoadingComesFirst

LEMMA OthersStay ==
    ASSUME IInv, NEW k \in Kinds, NEW seen, Seen \subseteq seen, k # "create" => seen = Seen,
           NEW off, k # "delete" => off = dropped
    PROVE  \A j \in Kinds \ {k} : \A c \in call[j] : CallOK(j, c, Known, seen, off)
<1>1. ASSUME NEW j \in Kinds \ {k}, NEW c \in call[j] PROVE CallOK(j, c, Known, seen, off)
  <2>1. CallOK(j, c, Known, Seen, dropped)
    BY CallsAreOK
  <2> QED
    BY <1>1, <2>1 DEF CallOK
<1> QED
  BY <1>1

LEMMA ReceiveListKeeps ==
    ASSUME IInv, ReceiveList
    PROVE  IInv'
<1>1. PICK c \in call["list"] :
         dashboards' = c.copies /\ activeDashboard' = First(c.copies)
  BY DEF ReceiveList, Served
<1>2. /\ loading' = FALSE /\ Done("list")
      /\ UNCHANGED <<storeVars, panel, modal, dropped>> /\ "list" \in Kinds
  BY DEF ReceiveList, Kinds
<1>3. CallOK("list", c, Known, Seen, dropped)
  BY <1>2, CallsAreOK
<1>4. /\ c.copies \in Seq(Copy) /\ Sound(c.copies) /\ ListIds(c.copies) \subseteq Known
  BY <1>3 DEF CallOK, Call
<1>5. /\ dropped = {} /\ \A j \in Kinds \ {"list"} : call[j] = {}
  BY <1>1, <1>2, CallsComeLater, PageFacts DEF LoadingComesFirst
<1>6. EndOK("list", Known)
  BY <1>1, <1>2, <1>4, <1>5, FirstOfList, PageFacts DEF EndOK
<1> QED
  BY <1>2, <1>6, EndKeeps

LEMMA ReceiveCreateKeeps ==
    ASSUME IInv, ReceiveCreate
    PROVE  IInv'
<1>1. PICK c \in call["create"] :
         dashboards' = dashboards \o c.copies /\ activeDashboard' = ToSet(c.copies)
  BY DEF ReceiveCreate, Served
<1>2. /\ panel' = FALSE /\ modal' = Closed("create") /\ Done("create")
      /\ UNCHANGED <<storeVars, loading, dropped>> /\ "create" \in Kinds
  BY DEF ReceiveCreate, Kinds
<1>3. CallOK("create", c, Known, Seen, dropped) /\ ~loading
  BY <1>1, <1>2, CallsAreOK, CallsComeLater
<1>4. /\ c.copies \in Seq(Copy) /\ Sound(c.copies)
      /\ ListIds(c.copies) \subseteq Known \ Seen /\ \A d, e \in ToSet(c.copies) : d = e
  BY <1>3 DEF CallOK, Call
<1> DEFINE seen == Seen \cup ListIds(c.copies)
<1>5. Seen \subseteq seen /\ ListIds(c.copies) \subseteq seen /\ seen \subseteq Known
  BY <1>4, PageFacts
<1> HIDE DEF seen
<1>6. /\ dashboards' \in Seq(Copy) /\ Sound(dashboards')
      /\ ListIds(dashboards') \subseteq ListIds(dashboards) \cup ListIds(c.copies)
  BY <1>1, <1>4, ListsJoin, PageFacts
<1>7. /\ activeDashboard' \subseteq Copy /\ Ids(activeDashboard') \subseteq seen
      /\ \A d, e \in activeDashboard' : d = e
  <2>1. activeDashboard' \subseteq Copy /\ Ids(activeDashboard') = ListIds(c.copies)
    BY <1>1, <1>4, IdsOfList DEF ToSet
  <2> QED
    BY <1>1, <1>4, <1>5, <2>1
<1>8. \A j \in Kinds \ {"create"} : \A d \in call[j] : CallOK(j, d, Known, seen, dropped')
  BY <1>2, <1>5, OthersStay
<1>9. modal' \in {"none", "create", "edit", "widget"}
  BY <1>2, PageFacts DEF Closed
<1>10. ListIds(dashboards') \subseteq seen /\ ListIds(dashboards') \cap dropped = {}
       /\ dropped \subseteq seen
  BY <1>4, <1>5, <1>6, PageFacts
<1>11. /\ loading' = FALSE /\ loading' \in BOOLEAN /\ panel' \in BOOLEAN
       /\ dropped' = dropped /\ dropped' \subseteq Boards
  BY <1>2, <1>3, PageFacts
<1>12. EndOK("create", seen)
  BY <1>2, <1>3, <1>5, <1>6, <1>7, <1>8, <1>9, <1>10, <1>11 DEF EndOK
<1> QED
  BY <1>2, <1>12, EndKeeps

LEMMA ReceiveUpdateKeeps ==
    ASSUME IInv, ReceiveUpdate
    PROVE  IInv'
<1>0. PICK c \in call["update"] : \E updated \in ToSet(c.copies) :
         dashboards' = Replaced(dashboards, updated) /\ activeDashboard' = {updated}
  BY DEF ReceiveUpdate, Served
<1>1. PICK updated \in ToSet(c.copies) :
         dashboards' = Replaced(dashboards, updated) /\ activeDashboard' = {updated}
  BY <1>0
<1>2. /\ modal' = Closed("edit") /\ Done("update")
      /\ UNCHANGED <<storeVars, loading, panel, dropped>> /\ "update" \in Kinds
  BY DEF ReceiveUpdate, Kinds
<1>3. CallOK("update", c, Known, Seen, dropped) /\ ~loading
  BY <1>1, <1>2, CallsAreOK, CallsComeLater
<1>4. PICK n \in DOMAIN c.copies : updated = c.copies[n]
  BY DEF ToSet
<1>5. /\ updated \in Copy /\ updated.id \in Seen
      /\ \A w \in updated.widgets : w.dashboard_id = updated.id
  <2>1. c.copies \in Seq(Copy) /\ Sound(c.copies) /\ ListIds(c.copies) \subseteq Seen
    BY <1>3 DEF CallOK, Call
  <2> QED
    BY <1>4, <2>1 DEF Sound, ListIds
<1>6. /\ dashboards' \in Seq(Copy) /\ Sound(dashboards')
      /\ ListIds(dashboards') = ListIds(dashboards)
  <2>1. dashboards' = [i \in DOMAIN dashboards |->
                         IF dashboards[i].id = updated.id THEN updated ELSE dashboards[i]]
    BY <1>1 DEF Replaced
  <2>2. \A i \in DOMAIN dashboards :
           /\ dashboards'[i] \in Copy /\ dashboards'[i].id = dashboards[i].id
           /\ \A w \in dashboards'[i].widgets : w.dashboard_id = dashboards'[i].id
    BY <1>5, <2>1, PageFacts DEF Sound
  <2>3. DOMAIN dashboards' = DOMAIN dashboards
        /\ dashboards' = [i \in DOMAIN dashboards |-> dashboards'[i]]
    BY <2>1
  <2> QED
    BY <2>2, <2>3, ListMapped, PageFacts
<1>7. /\ activeDashboard' \subseteq Copy /\ Ids(activeDashboard') \subseteq Seen
      /\ \A d, e \in activeDashboard' : d = e
  BY <1>1, <1>5 DEF Ids
<1>8. \A j \in Kinds \ {"update"} : \A d \in call[j] : CallOK(j, d, Known, Seen, dropped')
  BY <1>2, OthersStay
<1>9. modal' \in {"none", "create", "edit", "widget"}
  BY <1>2, PageFacts DEF Closed
<1>10. EndOK("update", Seen)
  BY <1>2, <1>3, <1>6, <1>7, <1>8, <1>9, PageFacts DEF EndOK
<1> QED
  BY <1>2, <1>10, EndKeeps

\* The list goes back to what the click had seen, without the board.
LEMMA ReceiveDeleteKeeps ==
    ASSUME IInv, ReceiveDelete
    PROVE  IInv'
<1>0. PICK c \in call["delete"] : \E remaining \in Filtered(c.dashboards, c.id) :
         /\ dashboards' = remaining
         /\ activeDashboard' = First(remaining)
         /\ dropped' = dropped \cup c.id
  BY DEF ReceiveDelete, Served
<1>1. PICK remaining \in Filtered(c.dashboards, c.id) :
         /\ dashboards' = remaining
         /\ activeDashboard' = First(remaining)
         /\ dropped' = dropped \cup c.id
  BY <1>0
<1>2. /\ modal' = Closed("edit") /\ Done("delete")
      /\ UNCHANGED <<storeVars, loading, panel>> /\ "delete" \in Kinds
  BY DEF ReceiveDelete, Kinds
<1>3. CallOK("delete", c, Known, Seen, dropped) /\ ~loading
  BY <1>1, <1>2, CallsAreOK, CallsComeLater
<1>4. /\ c.dashboards \in Seq(Copy) /\ Sound(c.dashboards)
      /\ ListIds(c.dashboards) \subseteq Seen /\ ListIds(c.dashboards) \cap dropped = {}
      /\ c.id \subseteq Seen /\ c.id \subseteq Boards
  BY <1>3 DEF CallOK, Call
<1>5. /\ remaining \in Seq(Copy) /\ Sound(remaining)
      /\ ListIds(remaining) \subseteq ListIds(c.dashboards) \ c.id
  BY <1>4, ListFiltered
<1>6. /\ activeDashboard' \subseteq Copy /\ Ids(activeDashboard') \subseteq Seen
      /\ \A d, e \in activeDashboard' : d = e
  BY <1>1, <1>4, <1>5, FirstOfList
<1>7. \A j \in Kinds \ {"delete"} : \A d \in call[j] : CallOK(j, d, Known, Seen, dropped')
  BY <1>2, OthersStay
<1>8. modal' \in {"none", "create", "edit", "widget"}
  BY <1>2, PageFacts DEF Closed
<1>9. /\ dropped' \subseteq Boards /\ dropped' \subseteq Seen
      /\ ListIds(dashboards') \subseteq Seen /\ ListIds(dashboards') \cap dropped' = {}
  BY <1>1, <1>4, <1>5, PageFacts
<1>10. EndOK("delete", Seen)
  BY <1>1, <1>2, <1>3, <1>5, <1>6, <1>7, <1>8, <1>9, PageFacts DEF EndOK
<1> QED
  BY <1>2, <1>10, EndKeeps

LEMMA ReceiveWidgetKeeps ==
    ASSUME IInv, ReceiveWidget
    PROVE  IInv'
<1>1. PICK c \in call["widget"] :
         /\ dashboards' = [i \in DOMAIN dashboards |->
               IF dashboards[i].id \in c.id THEN WithWidget(dashboards[i], c.widget)
               ELSE dashboards[i]]
         /\ activeDashboard' = {WithWidget(d, c.widget) : d \in activeDashboard}
  BY DEF ReceiveWidget, Served, ClosureId
<1>2. /\ modal' = Closed("widget") /\ Done("widget")
      /\ UNCHANGED <<storeVars, loading, panel, dropped>> /\ "widget" \in Kinds
  BY DEF ReceiveWidget, Kinds
<1>3. CallOK("widget", c, Known, Seen, dropped) /\ ~loading
  BY <1>1, <1>2, CallsAreOK, CallsComeLater
<1>4. /\ c.widget \subseteq Widget /\ \A w \in c.widget : w.dashboard_id \in c.id
      /\ \A a, b \in c.id : a = b
  BY <1>3 DEF CallOK, Call
<1>5. ASSUME NEW d \in Copy
      PROVE  /\ WithWidget(d, c.widget) \in Copy
             /\ WithWidget(d, c.widget).id = d.id
             /\ WithWidget(d, c.widget).widgets = d.widgets \cup c.widget
  BY <1>4 DEF WithWidget, Copy
<1>6. /\ dashboards' \in Seq(Copy) /\ Sound(dashboards')
      /\ ListIds(dashboards') = ListIds(dashboards)
  <2>1. ASSUME NEW i \in DOMAIN dashboards
        PROVE  /\ dashboards'[i] \in Copy /\ dashboards'[i].id = dashboards[i].id
               /\ \A w \in dashboards'[i].widgets : w.dashboard_id = dashboards'[i].id
    <3>1. dashboards[i] \in Copy /\ \A w \in dashboards[i].widgets :
                                        w.dashboard_id = dashboards[i].id
      BY PageFacts DEF Sound
    <3>2. CASE dashboards[i].id \in c.id
      <4>1. dashboards'[i] = WithWidget(dashboards[i], c.widget)
        BY <1>1, <3>2
      <4>2. \A w \in c.widget : w.dashboard_id = dashboards[i].id
        BY <1>4, <3>2
      <4> QED
        BY <1>5, <3>1, <4>1, <4>2
    <3>3. CASE dashboards[i].id \notin c.id
      BY <1>1, <3>1, <3>3
    <3> QED
      BY <3>2, <3>3
  <2>2. DOMAIN dashboards' = DOMAIN dashboards
        /\ dashboards' = [i \in DOMAIN dashboards |-> dashboards'[i]]
    BY <1>1
  <2> QED
    BY <2>1, <2>2, ListMapped, PageFacts
<1>7. /\ activeDashboard' \subseteq Copy /\ Ids(activeDashboard') \subseteq Seen
      /\ \A d, e \in activeDashboard' : d = e
  <2>1. \A d \in activeDashboard : d \in Copy /\ d.id \in Seen
    BY PageFacts DEF Ids
  <2>2. activeDashboard' \subseteq Copy
    BY <1>1, <1>5, <2>1
  <2>3. Ids(activeDashboard') \subseteq Seen
    BY <1>1, <1>5, <2>1 DEF Ids
  <2> QED
    BY <1>1, <2>2, <2>3, PageFacts
<1>8. \A j \in Kinds \ {"widget"} : \A d \in call[j] : CallOK(j, d, Known, Seen, dropped')
  BY <1>2, OthersStay
<1>9. modal' \in {"none", "create", "edit", "widget"}
  BY <1>2, PageFacts DEF Closed
<1>10. EndOK("widget", Seen)
  BY <1>2, <1>3, <1>6, <1>7, <1>8, <1>9, PageFacts DEF EndOK
<1> QED
  BY <1>2, <1>10, EndKeeps

LEMMA ReceiveErrorKeeps ==
    ASSUME IInv, NEW k \in Kinds, ReceiveError(k)
    PROVE  IInv'
<1>1. /\ call[k] # {} /\ Done(k) /\ loading' = (loading /\ k # "list")
      /\ UNCHANGED <<storeVars, dashboards, activeDashboard, panel, modal, dropped>>
  BY DEF ReceiveError
<1>2. loading' = FALSE /\ (k # "list" => ~loading)
  BY <1>1, CallsComeLater
<1>3. \A j \in Kinds \ {k} : \A c \in call[j] : CallOK(j, c, Known, Seen, dropped')
  BY <1>1, OthersStay
<1>4. EndOK(k, Seen)
  BY <1>1, <1>2, <1>3, PageFacts DEF EndOK
<1> QED
  BY <1>4, EndKeeps

-----------------------------------------------------------------------------
(* The theorems.                                                           *)

LEMMA WorkspaceInit == Init => IInv
<1> SUFFICES ASSUME Init PROVE IInv
  OBVIOUS
<1>1. /\ live = <<>> /\ gone = {} /\ widgets = {} /\ loading = TRUE /\ panel = FALSE
      /\ dashboards = <<>> /\ activeDashboard = {} /\ modal = "none" /\ dropped = {}
      /\ call = [k \in Kinds |-> IF k = "list" THEN {NewCall({}, <<>>)} ELSE {}]
  BY DEF Init
<1>2. <<>> \in Seq(Copy) /\ Sound(<<>>) /\ ListIds(<<>>) = {} /\ ToSet(<<>>) = {}
  BY EmptyList
<1>3. <<>> \in Seq(Boards) /\ DOMAIN live = {}
  BY <1>1
<1> DEFINE first == NewCall({}, <<>>)
<1>4. /\ first \in Call /\ first.id = {} /\ first.dashboards = <<>>
      /\ first.copies = <<>> /\ first.widget = {}
  BY <1>2 DEF NewCall, Call
<1> HIDE DEF first
<1>5. \A k \in Kinds : call[k] = IF k = "list" THEN {first} ELSE {}
  BY <1>1 DEF first
<1>6. TypeOK
  <2>1. call \in [Kinds -> SUBSET Call]
    BY <1>1, <1>4, <1>5
  <2> QED
    BY <1>1, <1>2, <1>3, <2>1 DEF TypeOK
<1>7. IdsAreFresh
  BY <1>1, <1>3 DEF IdsAreFresh
<1>8. Seen = {}
  <2>1. Ids({}) = {}
    BY DEF Ids
  <2>2. \A k \in Kinds : \A c \in call[k] : c.id = {} /\ ListIds(c.dashboards) = {}
    BY <1>2, <1>4, <1>5
  <2> QED
    BY <1>1, <1>2, <2>1, <2>2, SeenIds
<1>9. LoadingComesFirst
  BY <1>1, <1>5 DEF LoadingComesFirst
<1>10. PageHoldsOne
  BY <1>1, <1>4, <1>5 DEF PageHoldsOne, Kinds
<1>11. AnswersAreSound
  <2>1. /\ \A k \in Kinds : \A c \in call[k] : Sound(c.dashboards) /\ Sound(c.copies)
        /\ \A c \in call["list"] : Ids(ToSet(c.copies)) \subseteq Known
    BY <1>2, <1>4, <1>5, IdsOfList DEF Kinds
  <2>2. call["create"] = {} /\ call["update"] = {} /\ call["delete"] = {} /\ call["widget"] = {}
    BY <1>5 DEF Kinds
  <2> QED
    BY <2>1, <2>2 DEF AnswersAreSound
<1>12. ListIsSound /\ DroppedStaysOff
  BY <1>1, <1>2 DEF ListIsSound, DroppedStaysOff
<1> QED
  BY <1>6, <1>7, <1>8, <1>9, <1>10, <1>11, <1>12 DEF IInv

LEMMA WorkspaceStep == IInv /\ [Next]_vars => IInv'
<1> SUFFICES ASSUME IInv, [Next]_vars PROVE IInv'
  OBVIOUS
<1>1. CASE UNCHANGED vars
  BY <1>1 DEF vars, storeVars, viewVars, IInv, TypeOK, IdsAreFresh, Seen, Known,
     LoadingComesFirst, PageHoldsOne, AnswersAreSound, ListIsSound, DroppedStaysOff
<1>2. CASE Receive
  BY <1>2, ReceiveListKeeps, ReceiveCreateKeeps, ReceiveUpdateKeeps, ReceiveDeleteKeeps,
     ReceiveWidgetKeeps, ReceiveErrorKeeps DEF Receive
<1>3. CASE \/ \E i \in DOMAIN dashboards : Select(i)
           \/ SelectPanel
           \/ CloseModal
           \/ \E m \in {"create", "edit", "widget"} : OpenModal(m)
  BY <1>3, MemberKeeps
<1> QED
  BY <1>1, <1>2, <1>3, ColleagueKeeps, ServeKeeps, SubmitKeeps DEF Next

\* Whatever the member clicks and however late answers come, the page keeps
\* what its handlers rely on.
THEOREM WorkspaceInvariant == Spec => []IInv
BY WorkspaceInit, WorkspaceStep, PTL DEF Spec

\* The list shows every board once, with widgets of its own.
THEOREM ListsAreSound == Spec => []ListIsSound
<1>1. IInv => ListIsSound
  BY DEF IInv
<1> QED
  BY <1>1, WorkspaceInvariant, PTL

\* A board whose delete was answered is not listed again.
THEOREM DeletesAreKept == Spec => []DroppedStaysOff
<1>1. IInv => DroppedStaysOff
  BY DEF IInv
<1> QED
  BY <1>1, WorkspaceInvariant, PTL

\* Answers that change the active board close the settings form, all but one.
LEMMA SettingsStep ==
    ASSUME IInv, [Next]_vars, modal = "edit", modal' = "edit",
           Ids(activeDashboard') # Ids(activeDashboard)
    PROVE  Served("create") # {} /\ call'["create"] = {}
<1>1. activeDashboard' # activeDashboard
  OBVIOUS
<1>2. CASE Receive
  <2>1. ~ReceiveList
    <3>1. call["list"] # {} => loading /\ modal = "none"
      BY DEF IInv, LoadingComesFirst
    <3> QED
      BY <3>1 DEF ReceiveList, Served
  <2>2. ~ReceiveUpdate /\ ~ReceiveDelete
    BY DEF ReceiveUpdate, ReceiveDelete, Closed
  <2>3. ~ReceiveWidget
    <3>1. ASSUME NEW c \in call["widget"],
                 activeDashboard' = {WithWidget(d, c.widget) : d \in activeDashboard}
          PROVE  FALSE
      <4>1. \A d \in activeDashboard : WithWidget(d, c.widget).id = d.id
        BY PageFacts DEF WithWidget, Copy
      <4> QED
        BY <3>1, <4>1 DEF Ids
    <3> QED
      BY <3>1 DEF ReceiveWidget, Served
  <2>4. \A k \in Kinds : ~ReceiveError(k)
    BY <1>1 DEF ReceiveError
  <2>5. ReceiveCreate
    BY <1>2, <2>1, <2>2, <2>3, <2>4 DEF Receive
  <2> QED
    BY <2>5, PageFacts DEF ReceiveCreate, Done, Kinds
<1>3. CASE UNCHANGED vars
  BY <1>1, <1>3 DEF vars, viewVars
<1>4. ~Colleague /\ ~Serve /\ \A k \in Kinds : ~Submit(k)
  BY <1>1 DEF Colleague, Serve, Submit, viewVars
<1>5. ~SelectPanel /\ ~CloseModal /\ (\A i \in DOMAIN dashboards : ~Select(i))
      /\ \A m \in {"create", "edit", "widget"} : ~OpenModal(m)
  BY <1>1 DEF SelectPanel, CloseModal, Select, OpenModal, Idle
<1> QED
  BY <1>2, <1>3, <1>4, <1>5 DEF Next

\* Save and Delete of the settings form mean the board they were opened for,
\* unless a create was answered meanwhile.
THEOREM SettingsMeanTheirBoard == Spec => SettingsStayPut
<1>1. IInv /\ [Next]_vars =>
        [modal = "edit" /\ modal' = "edit" /\ Ids(activeDashboard') # Ids(activeDashboard)
           => Served("create") # {} /\ call'["create"] = {}]_vars
  BY SettingsStep
<1> QED
  BY <1>1, WorkspaceInvariant, PTL DEF Spec, SettingsStayPut

=============================================================================
