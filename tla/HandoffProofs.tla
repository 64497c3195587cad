--------------------------- MODULE HandoffProofs ---------------------------
(***************************************************************************)
(* Handoff implements Reservation, so that everything proved of            *)
(* Reservation holds with the waiting list, the workers and withdrawals    *)
(* running beside it, for any number of each.                              *)
(***************************************************************************)
EXTENDS Handoff, ReservationProofs, SequenceTheorems, WellFoundedInduction

-----------------------------------------------------------------------------
(* The operations on queues *)

(* A nonempty set of naturals has a least element. *)
LEMMA LeastExists ==
    ASSUME NEW T \in SUBSET Nat, T # {}
    PROVE  \E i \in T : \A j \in T : i <= j
  <1>1. PICK i \in T : \A j \in T : ~(<<j, i>> \in OpToRel(<, Nat))
    BY WFMin, NatLessThanWellFounded
  <1>2. ASSUME NEW j \in T, j < i PROVE FALSE
    <2>1. <<j, i>> \in Nat \X Nat
      BY <1>1
    <2> QED BY <1>1, <1>2, <2>1 DEF OpToRel
  <1>3. \A j \in T : i <= j
    BY <1>2
  <1> QED BY <1>3

(* Taking an entry out of a queue leaves a queue. *)
LEMMA RemoveAtType ==
    ASSUME NEW S, NEW q \in Seq(S), NEW i \in DOMAIN q
    PROVE  RemoveAt(q, i) \in Seq(S)
  <1>1. i \in 1..Len(q) /\ Len(q) \in Nat /\ \A k \in 1..Len(q) : q[k] \in S
    OBVIOUS
  <1>2. SubSeq(q, 1, i - 1) \in Seq(S) /\ SubSeq(q, i + 1, Len(q)) \in Seq(S)
    BY <1>1, SubSeqProperties
  <1> QED BY <1>2, ConcatProperties DEF RemoveAt

(* insertInOrder puts the entry at some place of the queue. *)
LEMMA InsertInOrderType ==
    ASSUME NEW S, NEW q \in Seq(S), NEW x \in S
    PROVE  InsertInOrder(q, x) \in Seq(S)
  <1> DEFINE behind == {i \in DOMAIN q : Before(x, q[i])}
             at == IF behind = {} THEN Len(q) + 1
                   ELSE CHOOSE i \in behind : \A j \in behind : i <= j
  <1>1. Len(q) \in Nat /\ DOMAIN q = 1..Len(q) /\ \A k \in 1..Len(q) : q[k] \in S
    OBVIOUS
  <1>2. at \in 1..(Len(q) + 1)
    <2>1. CASE behind = {}
      BY <1>1, <2>1
    <2>2. CASE behind # {}
      <3>1. behind \in SUBSET Nat
        BY <1>1
      <3>2. \E i \in behind : \A j \in behind : i <= j
        BY <2>2, <3>1, LeastExists
      <3>3. at \in behind
        BY <2>2, <3>2
      <3> QED BY <1>1, <3>3
    <2> QED BY <2>1, <2>2
  <1>3. InsertInOrder(q, x) = SubSeq(q, 1, at - 1) \o <<x>> \o SubSeq(q, at, Len(q))
    BY DEF InsertInOrder, InsertAt
  <1> HIDE DEF at
  <1>4. SubSeq(q, 1, at - 1) \in Seq(S) /\ SubSeq(q, at, Len(q)) \in Seq(S)
    BY <1>1, <1>2, SubSeqProperties
  <1>5. <<x>> \in Seq(S)
    OBVIOUS
  <1>6. SubSeq(q, 1, at - 1) \o <<x>> \in Seq(S)
    BY <1>4, <1>5, ConcatProperties
  <1> QED BY <1>3, <1>4, <1>6, ConcatProperties

(* Every operation on a queue leaves a queue. *)
LEMMA QueueOpsType ==
    ASSUME NEW q \in Seq(EntryState), NEW x \in EntryState, NEW u
    PROVE  /\ JoinQueue(q, x) \in Seq(EntryState)
           /\ RejoinQueue(q, x) \in Seq(EntryState)
           /\ LeaveQueue(q, u) \in Seq(EntryState)
  <1>1. InsertInOrder(q, x) \in Seq(EntryState)
    BY InsertInOrderType
  <1>2. IsWaiting(q, u) => Position(q, u) \in DOMAIN q
    BY DEF IsWaiting, Position
  <1> QED BY <1>1, <1>2, RemoveAtType DEF JoinQueue, RejoinQueue, LeaveQueue

-----------------------------------------------------------------------------
(* What the operations do to the order *)

(* The order of entries is strict, and only an id in common leaves two of   *)
(* them level.                                                              *)
LEMMA BeforeIsAnOrder ==
    ASSUME NEW x \in EntryState, NEW y \in EntryState, NEW z \in EntryState
    PROVE  /\ ~Before(x, x)
           /\ Before(x, y) /\ Before(y, z) => Before(x, z)
           /\ x.id # y.id /\ ~Before(x, y) => Before(y, x)
  <1>1. \A v \in EntryState : v.id \in Nat /\ v.joinedAt \in Nat
    BY HandoffAssumption DEF EntryState
  <1> QED BY <1>1 DEF Before

(* A queue without its ith entry. *)
LEMMA RemoveAtElements ==
    ASSUME NEW S, NEW q \in Seq(S), NEW i \in DOMAIN q
    PROVE  /\ Len(RemoveAt(q, i)) = Len(q) - 1
           /\ \A k \in 1..(Len(q) - 1) :
                RemoveAt(q, i)[k] = q[IF k < i THEN k ELSE k + 1]
  <1>1. i \in 1..Len(q) /\ Len(q) \in Nat /\ \A k \in 1..Len(q) : q[k] \in S
    OBVIOUS
  <1>2. SubSeq(q, 1, i - 1) \in Seq(S) /\ SubSeq(q, i + 1, Len(q)) \in Seq(S)
    BY <1>1, SubSeqProperties
  <1>3. /\ Len(SubSeq(q, 1, i - 1)) = i - 1
        /\ \A k \in 1..(i - 1) : SubSeq(q, 1, i - 1)[k] = q[k]
    BY <1>1, SubSeqProperties
  <1>4. /\ Len(SubSeq(q, i + 1, Len(q))) = Len(q) - i
        /\ \A k \in 1..(Len(q) - i) : SubSeq(q, i + 1, Len(q))[k] = q[i + k]
    BY <1>1, SubSeqProperties
  <1> DEFINE a == SubSeq(q, 1, i - 1)
             b == SubSeq(q, i + 1, Len(q))
             r == a \o b
  <1>5. RemoveAt(q, i) = r
    BY DEF RemoveAt
  <1> HIDE DEF a, b
  <1>6. /\ Len(r) = Len(a) + Len(b)
        /\ \A k \in 1..(Len(a) + Len(b)) :
             r[k] = IF k <= Len(a) THEN a[k] ELSE b[k - Len(a)]
    BY <1>2, ConcatProperties DEF a, b
  <1> HIDE DEF r
  <1>7. /\ Len(a) = i - 1 /\ \A k \in 1..(i - 1) : a[k] = q[k]
        /\ Len(b) = Len(q) - i /\ \A k \in 1..(Len(q) - i) : b[k] = q[i + k]
    BY <1>3, <1>4 DEF a, b
  <1> QED
    <2>0. Len(r) = Len(q) - 1
      BY <1>1, <1>6, <1>7
    <2> SUFFICES ASSUME NEW k \in 1..(Len(q) - 1)
                 PROVE  r[k] = q[IF k < i THEN k ELSE k + 1]
      BY <1>5, <2>0
    <2>a. k \in 1..(Len(a) + Len(b)) /\ (k <= Len(a) <=> k < i)
          /\ k - Len(a) = k - (i - 1)
      BY <1>1, <1>7
    <2>b. r[k] = IF k <= Len(a) THEN a[k] ELSE b[k - Len(a)]
      BY <1>6, <2>a
    <2>1. CASE k < i
      <3>1. r[k] = a[k] /\ k \in 1..(i - 1)
        BY <1>1, <2>a, <2>b, <2>1
      <3> QED BY <1>7, <2>1, <3>1
    <2>2. CASE ~(k < i)
      <3>1. (k - (i - 1)) \in 1..(Len(q) - i) /\ i + (k - (i - 1)) = k + 1
        BY <1>1, <2>2
      <3>2. r[k] = b[k - (i - 1)]
        BY <2>a, <2>b, <2>2
      <3>3. b[k - (i - 1)] = q[i + (k - (i - 1))]
        BY <1>7, <3>1
      <3> QED BY <2>2, <3>1, <3>2, <3>3
    <2> QED BY <2>1, <2>2

(* r is q with x put in at a place where nobody ahead of x comes after it   *)
(* and the one behind it does.                                              *)
PutInAt(q, x, r, at) ==
    /\ \A k \in 1..(at - 1) : ~Before(x, q[k])
    /\ at <= Len(q) => Before(x, q[at])
    /\ Len(r) = Len(q) + 1
    /\ \A k \in 1..(Len(q) + 1) :
         r[k] = IF k < at THEN q[k] ELSE IF k = at THEN x ELSE q[k - 1]

(* insertInOrder puts the entry in at such a place. *)
LEMMA InsertElements ==
    ASSUME NEW S, NEW q \in Seq(S), NEW x \in S
    PROVE  \E at \in 1..(Len(q) + 1) : PutInAt(q, x, InsertInOrder(q, x), at)
  <1> DEFINE behind == {i \in DOMAIN q : Before(x, q[i])}
             at == IF behind = {} THEN Len(q) + 1
                   ELSE CHOOSE i \in behind : \A j \in behind : i <= j
  <1>1. Len(q) \in Nat /\ DOMAIN q = 1..Len(q) /\ \A k \in 1..Len(q) : q[k] \in S
    OBVIOUS
  <1>2. /\ at \in 1..(Len(q) + 1)
        /\ \A k \in 1..(at - 1) : ~Before(x, q[k])
        /\ at <= Len(q) => Before(x, q[at])
    <2>1. CASE behind = {}
      BY <1>1, <2>1
    <2>2. CASE behind # {}
      <3>1. behind \in SUBSET Nat
        BY <1>1
      <3>2. \E i \in behind : \A j \in behind : i <= j
        BY <2>2, <3>1, LeastExists
      <3>3. at \in behind /\ \A j \in behind : at <= j
        BY <2>2, <3>2
      <3>4. at \in 1..Len(q) /\ Before(x, q[at])
        BY <1>1, <3>3
      <3> HIDE DEF at
      <3>5. ASSUME NEW k \in 1..(at - 1), Before(x, q[k]) PROVE FALSE
        <4>1. k \in behind /\ k < at
          BY <1>1, <3>4, <3>5
        <4>2. at <= k
          BY <3>3, <4>1
        <4> HIDE DEF behind
        <4> QED BY <1>1, <3>4, <4>1, <4>2
      <3> QED BY <1>1, <3>4, <3>5
    <2> QED BY <2>1, <2>2
  <1>3. InsertInOrder(q, x) = SubSeq(q, 1, at - 1) \o <<x>> \o SubSeq(q, at, Len(q))
    BY DEF InsertInOrder, InsertAt
  <1> HIDE DEF at, behind
  <1>4. /\ SubSeq(q, 1, at - 1) \in Seq(S) /\ SubSeq(q, at, Len(q)) \in Seq(S)
        /\ Len(SubSeq(q, 1, at - 1)) = at - 1
        /\ \A k \in 1..(at - 1) : SubSeq(q, 1, at - 1)[k] = q[k]
    BY <1>1, <1>2, SubSeqProperties
  <1>5. /\ Len(SubSeq(q, at, Len(q))) = Len(q) - at + 1
        /\ \A k \in 1..(Len(q) - at + 1) :
             SubSeq(q, at, Len(q))[k] = q[at + k - 1]
    BY <1>1, <1>2, SubSeqProperties
  <1> DEFINE a == SubSeq(q, 1, at - 1)
             c == SubSeq(q, at, Len(q))
             one == <<x>>
  <1>6. a \in Seq(S) /\ c \in Seq(S) /\ one \in Seq(S) /\ Len(one) = 1 /\ one[1] = x
    BY <1>4
  <1>7. /\ Len(a) = at - 1 /\ \A k \in 1..(at - 1) : a[k] = q[k]
        /\ Len(c) = Len(q) - at + 1
        /\ \A k \in 1..(Len(q) - at + 1) : c[k] = q[at + k - 1]
    BY <1>4, <1>5
  <1>8. InsertInOrder(q, x) = (a \o one) \o c
    BY <1>3
  <1> HIDE DEF a, c, one
  <1>9. /\ a \o one \in Seq(S) /\ Len(a \o one) = at
        /\ \A k \in 1..at : (a \o one)[k] = IF k < at THEN q[k] ELSE x
    <2>1. /\ a \o one \in Seq(S) /\ Len(a \o one) = Len(a) + Len(one)
          /\ \A k \in 1..(Len(a) + Len(one)) :
               (a \o one)[k] = IF k <= Len(a) THEN a[k] ELSE one[k - Len(a)]
      BY <1>6, ConcatProperties
    <2> QED BY <1>1, <1>2, <1>6, <1>7, <2>1
  <1> DEFINE b == a \o one
  <1> HIDE DEF b
  <1>10. /\ Len(b \o c) = Len(b) + Len(c)
         /\ \A k \in 1..(Len(b) + Len(c)) :
              (b \o c)[k] = IF k <= Len(b) THEN b[k] ELSE c[k - Len(b)]
    BY <1>6, <1>9, ConcatProperties DEF b
  <1>11. Len(b) = at /\ \A k \in 1..at : b[k] = IF k < at THEN q[k] ELSE x
    BY <1>9 DEF b
  <1>12. ASSUME NEW k \in 1..(Len(q) + 1)
         PROVE  (b \o c)[k] = IF k < at THEN q[k]
                              ELSE IF k = at THEN x ELSE q[k - 1]
    <2>1. CASE k <= at
      BY <1>1, <1>2, <1>7, <1>10, <1>11, <2>1
    <2>2. CASE ~(k <= at)
      <3>1. (k - at) \in 1..(Len(q) - at + 1) /\ at + (k - at) - 1 = k - 1
        BY <1>1, <1>2, <2>2
      <3>2. (b \o c)[k] = c[k - at]
        BY <1>1, <1>2, <1>7, <1>10, <1>11, <2>2
      <3>3. c[k - at] = q[at + (k - at) - 1]
        BY <1>7, <3>1
      <3> QED BY <1>1, <1>2, <2>2, <3>1, <3>2, <3>3
    <2> QED BY <1>2, <2>1, <2>2
  <1>13. Len(b \o c) = Len(q) + 1
    BY <1>1, <1>2, <1>7, <1>10, <1>11
  <1>14. InsertInOrder(q, x) = b \o c
    BY <1>8 DEF b
  <1> QED BY <1>2, <1>12, <1>13, <1>14 DEF PutInAt

(* What is left of a queue in order is in order, and it is the rest of it. *)
LEMMA RemoveKeepsOrder ==
    ASSUME NEW q \in Seq(EntryState), InOrder(q), NEW i \in DOMAIN q
    PROVE  /\ InOrder(RemoveAt(q, i))
           /\ Range(RemoveAt(q, i)) = Range(q) \ {q[i]}
  <1> DEFINE r == RemoveAt(q, i)
             from(k) == IF k < i THEN k ELSE k + 1
  <1>1. Len(q) \in Nat /\ DOMAIN q = 1..Len(q) /\ i \in 1..Len(q)
        /\ \A k \in 1..Len(q) : q[k] \in EntryState
    OBVIOUS
  <1>2. r \in Seq(EntryState)
    BY RemoveAtType
  <1>3. Len(r) = Len(q) - 1
        /\ \A k \in 1..(Len(q) - 1) : r[k] = q[from(k)]
    BY RemoveAtElements
  <1> HIDE DEF r
  <1>4. DOMAIN r = 1..(Len(q) - 1)
    BY <1>1, <1>2, <1>3
  <1>5. InOrder(r)
    <2> SUFFICES ASSUME NEW j \in DOMAIN r, NEW k \in DOMAIN r, j < k
                 PROVE  Before(r[j], r[k]) /\ r[j].user # r[k].user
      BY DEF InOrder
    <2>1. /\ from(j) \in DOMAIN q /\ from(k) \in DOMAIN q /\ from(j) < from(k)
          /\ r[j] = q[from(j)] /\ r[k] = q[from(k)]
      BY <1>1, <1>3, <1>4
    <2> QED BY <2>1 DEF InOrder
  <1>6. \A k \in DOMAIN q : k # i => q[k] # q[i]
    <2> TAKE k \in DOMAIN q
    <2> HAVE k # i
    <2>1. k < i \/ i < k
      BY <1>1
    <2>2. Before(q[k], q[i]) \/ Before(q[i], q[k])
      BY <2>1 DEF InOrder
    <2> QED BY <1>1, <2>2, BeforeIsAnOrder
  <1>7. ASSUME NEW x \in Range(r) PROVE x \in Range(q) \ {q[i]}
    <2>1. PICK k \in DOMAIN r : x = r[k]
      BY DEF Range
    <2>2. from(k) \in DOMAIN q /\ from(k) # i /\ x = q[from(k)]
      BY <1>1, <1>3, <1>4, <2>1
    <2> QED BY <1>6, <2>2 DEF Range
  <1>8. ASSUME NEW x \in Range(q) \ {q[i]} PROVE x \in Range(r)
    <2>1. PICK k \in DOMAIN q : x = q[k]
      BY DEF Range
    <2>2. k # i
      BY <2>1
    <2>3. CASE k < i
      <3>1. k \in DOMAIN r /\ r[k] = q[k]
        BY <1>1, <1>3, <1>4, <2>3
      <3> QED BY <2>1, <3>1 DEF Range
    <2>4. CASE k > i
      <3>1. (k - 1) \in DOMAIN r /\ from(k - 1) = k
        BY <1>1, <1>4, <2>4
      <3>2. r[k - 1] = q[k]
        BY <1>3, <1>4, <3>1
      <3> QED BY <2>1, <3>1, <3>2 DEF Range
    <2> QED BY <1>1, <2>2, <2>3, <2>4
  <1> QED BY <1>5, <1>7, <1>8 DEF r

(* insertInOrder keeps the order, if the entry has an id of its own and its *)
(* user is not waiting yet.                                                 *)
LEMMA InsertKeepsOrder ==
    ASSUME NEW q \in Seq(EntryState), InOrder(q), NEW x \in EntryState,
           \A y \in Range(q) : y.id # x.id, ~IsWaiting(q, x.user)
    PROVE  /\ InOrder(InsertInOrder(q, x))
           /\ Range(InsertInOrder(q, x)) = Range(q) \cup {x}
  <1> DEFINE r == InsertInOrder(q, x)
  <1>1. Len(q) \in Nat /\ DOMAIN q = 1..Len(q)
        /\ \A k \in 1..Len(q) : q[k] \in EntryState
    OBVIOUS
  <1>2. r \in Seq(EntryState)
    BY InsertInOrderType
  <1>a. PICK at \in 1..(Len(q) + 1) : PutInAt(q, x, r, at)
    BY InsertElements
  <1> HIDE DEF r
  <1>3. /\ at \in 1..(Len(q) + 1)
        /\ \A k \in 1..(at - 1) : ~Before(x, q[k])
        /\ at <= Len(q) => Before(x, q[at])
        /\ Len(r) = Len(q) + 1
        /\ \A k \in 1..(Len(q) + 1) :
             r[k] = IF k < at THEN q[k] ELSE IF k = at THEN x ELSE q[k - 1]
    BY <1>a DEF PutInAt
  <1>4. DOMAIN r = 1..(Len(q) + 1)
    BY <1>1, <1>2, <1>3
  <1>5. \A k \in 1..Len(q) : q[k].id # x.id /\ q[k].user # x.user
    BY <1>1 DEF Range, IsWaiting
  <1>6. \A k \in 1..(at - 1) : Before(q[k], x)
    <2> TAKE k \in 1..(at - 1)
    <2>1. k \in 1..Len(q) /\ ~Before(x, q[k])
      BY <1>1, <1>3
    <2>2. q[k] \in EntryState /\ q[k].id # x.id
      BY <1>1, <1>5, <2>1
    <2> QED BY <2>1, <2>2, BeforeIsAnOrder
  <1>7. \A k \in at..Len(q) : Before(x, q[k])
    <2> TAKE k \in at..Len(q)
    <2>1. at \in 1..Len(q) /\ k \in 1..Len(q) /\ Before(x, q[at])
      BY <1>1, <1>3
    <2>2. k # at => Before(q[at], q[k])
      BY <1>1, <2>1 DEF InOrder
    <2> QED BY <1>1, <2>1, <2>2, BeforeIsAnOrder
  <1>8. InOrder(r)
    <2> SUFFICES ASSUME NEW j \in 1..(Len(q) + 1), NEW k \in 1..(Len(q) + 1), j < k
                 PROVE  Before(r[j], r[k]) /\ r[j].user # r[k].user
      BY <1>4 DEF InOrder
    <2> DEFINE from(m) == IF m < at THEN m ELSE m - 1
    <2>1. CASE j = at
      <3>1. (k - 1) \in at..Len(q) /\ (k - 1) \in 1..Len(q)
            /\ r[j] = x /\ r[k] = q[k - 1]
        BY <1>1, <1>3, <2>1
      <3> QED BY <1>5, <1>7, <3>1
    <2>2. CASE k = at
      <3>1. j \in 1..(at - 1) /\ j \in 1..Len(q) /\ r[k] = x /\ r[j] = q[j]
        BY <1>1, <1>3, <2>2
      <3> QED BY <1>5, <1>6, <3>1
    <2>3. CASE j # at /\ k # at
      <3>1. /\ from(j) \in 1..Len(q) /\ from(k) \in 1..Len(q)
            /\ from(j) < from(k)
        BY <1>1, <1>3, <2>3
      <3>2. r[j] = q[from(j)] /\ r[k] = q[from(k)]
        BY <1>1, <1>3, <2>3
      <3> QED BY <1>1, <3>1, <3>2 DEF InOrder
    <2> QED BY <2>1, <2>2, <2>3
  <1>9. ASSUME NEW y \in Range(r) PROVE y \in Range(q) \cup {x}
    <2>1. PICK k \in 1..(Len(q) + 1) : y = r[k]
      BY <1>4 DEF Range
    <2>2. y = x \/ \E m \in DOMAIN q : y = q[m]
      <3>1. CASE k < at
        BY <1>1, <1>3, <2>1, <3>1
      <3>2. CASE k = at
        BY <1>3, <2>1, <3>2
      <3>3. CASE k > at
        <4>1. (k - 1) \in DOMAIN q /\ y = q[k - 1]
          BY <1>1, <1>3, <2>1, <3>3
        <4> QED BY <4>1
      <3> QED BY <1>1, <1>3, <3>1, <3>2, <3>3
    <2> QED BY <2>2 DEF Range
  <1>10. ASSUME NEW y \in Range(q) \cup {x} PROVE y \in Range(r)
    <2>1. CASE y = x
      <3>1. at \in DOMAIN r /\ r[at] = x
        BY <1>1, <1>3, <1>4
      <3> QED BY <2>1, <3>1 DEF Range
    <2>2. CASE y \in Range(q)
      <3>1. PICK k \in 1..Len(q) : y = q[k]
        BY <1>1, <2>2 DEF Range
      <3>2. CASE k < at
        <4>1. k \in DOMAIN r /\ r[k] = q[k]
          BY <1>1, <1>3, <1>4, <3>2
        <4> QED BY <3>1, <4>1 DEF Range
      <3>3. CASE ~(k < at)
        <4>1. (k + 1) \in DOMAIN r /\ r[k + 1] = q[k]
          BY <1>1, <1>3, <1>4, <3>3
        <4> QED BY <3>1, <4>1 DEF Range
      <3> QED BY <3>2, <3>3
    <2> QED BY <2>1, <2>2
  <1> QED BY <1>8, <1>9, <1>10 DEF r

-----------------------------------------------------------------------------
(* Every step is a step of Reservation, or leaves its variables alone. *)

LEMMA RequestIsReservationStep ==
    ASSUME NEW t \in Threads, RequestStep(t)
    PROVE  Next
  BY DEF Next

LEMMA ClientIsReservationStep ==
    ASSUME NEW t \in Clients, ClientStep(t)
    PROVE  Next
  <1>0. t \in Threads
    BY HandoffAssumption
  <1>1. CASE PlainRequestStep(t) \/ ReleaseOffer(t)
    BY <1>0, <1>1, RequestIsReservationStep DEF PlainRequestStep, RequestStep
  <1>2. CASE \/ \E u \in Users, s \in Seats : BeginHold(t, u, s)
             \/ \E u \in Users, h \in 1..(nextID - 1) :
                  BeginConfirm(t, u, h) \/ BeginRelease(t, u, h)
    BY <1>0, <1>2 DEF Next
  <1> QED BY <1>1, <1>2 DEF ClientStep

LEMMA WorkerIsReservationStep ==
    ASSUME NEW w \in Workers, WorkersKnowTheirTask, WorkerStep(w)
    PROVE  [Next]_vars
  <1>0. w \in Threads
    BY HandoffAssumption
  <1>1. CASE PlainRequestStep(w)
    BY <1>0, <1>1, RequestIsReservationStep DEF PlainRequestStep
  <1>2. CASE WorkerBegin(w)
    <2>1. worker[w].entry \in EntryState /\ worker[w].seat \in Seats
      BY <1>2 DEF WorkerBegin, WorkersKnowTheirTask
    <2>2. worker[w].entry.user \in Users
      BY <2>1 DEF EntryState
    <2> QED BY <1>0, <1>2, <2>1, <2>2 DEF WorkerBegin, Next
  <1>3. CASE \/ WorkerReceive(w) \/ WorkerTake(w) \/ WorkerTakeNobody(w)
             \/ WorkerTakeFails(w) \/ WorkerDone(w) \/ WorkerRejoin(w)
             \/ WorkerRejoinFails(w) \/ WorkerStop(w)
    BY <1>3 DEF WorkerReceive, WorkerTake, WorkerTakeNobody, WorkerTakeFails,
                WorkerDone, WorkerRejoin, WorkerRejoinFails, WorkerStop
  <1> QED BY <1>1, <1>2, <1>3 DEF WorkerStep

LEMMA OtherIsReservationStep ==
    ASSUME \/ SweepStep \/ QueueStep \/ OtherStep
           \/ \E e \in Events : WithdrawStep(e)
    PROVE  [Next]_vars
  <1>1. CASE SweepStep
    BY <1>1 DEF SweepStep, Next, SweeperStep
  <1>2. CASE QueueStep
    BY <1>2 DEF QueueStep, BeginJoin, Leave, FinishJoin, JoinFails
  <1>3. CASE OtherStep
    BY <1>3 DEF OtherStep, Shutdown, HandoffCrash, Next, Environment
  <1>4. ASSUME NEW e \in Events, WithdrawStep(e)
        PROVE  [Next]_vars
    <2>1. CASE Withdraw(e)
      BY <2>1 DEF Withdraw, Next, Environment
    <2>2. CASE \/ WithdrawList(e) \/ WithdrawDrain(e) \/ WithdrawNotify(e)
               \/ WithdrawEnqueue(e) \/ WithdrawFails(e)
      BY <2>2 DEF WithdrawList, WithdrawDrain, WithdrawNotify, WithdrawEnqueue,
                  WithdrawFails
    <2> QED BY <1>4, <2>1, <2>2 DEF WithdrawStep
  <1> QED BY <1>1, <1>2, <1>3, <1>4

LEMMA StepIsReservationStep ==
    WorkersKnowTheirTask /\ [HandoffNext]_allVars => [Next]_vars
  <1> SUFFICES ASSUME WorkersKnowTheirTask, [HandoffNext]_allVars
               PROVE  [Next]_vars
    OBVIOUS
  <1>1. CASE \E t \in Clients : ClientStep(t)
    BY <1>1, ClientIsReservationStep
  <1>2. CASE \E w \in Workers : WorkerStep(w)
    BY <1>2, WorkerIsReservationStep
  <1>3. CASE \/ SweepStep \/ QueueStep \/ OtherStep
             \/ \E e \in Events : WithdrawStep(e)
    BY <1>3, OtherIsReservationStep
  <1>4. CASE UNCHANGED allVars
    BY <1>4 DEF allVars
  <1> QED BY <1>1, <1>2, <1>3, <1>4 DEF HandoffNext

-----------------------------------------------------------------------------
(* The invariant of the handoff's own state *)

(* An offered seat lands in the channel or nowhere. *)
LEMMA OfferKeepsTypes ==
    ASSUME HandoffTypeOK, WorkersKnowTheirTask, NEW s \in Seats, Offer(s)
    PROVE  HandoffTypeOK' /\ WorkersKnowTheirTask'
  <1>1. freed' \in Seq(Seats)
    BY DEF Offer, HandoffTypeOK
  <1> QED BY <1>1 DEF Offer, HandoffTypeOK, WorkersKnowTheirTask

LEMMA UnchangedKeepsTypes ==
    ASSUME HandoffTypeOK, WorkersKnowTheirTask, UNCHANGED handoffVars
    PROVE  HandoffTypeOK' /\ WorkersKnowTheirTask'
  BY DEF handoffVars, HandoffTypeOK, WorkersKnowTheirTask

LEMMA ClientKeepsTypes ==
    ASSUME HandoffInv, NEW t \in Clients, ClientStep(t)
    PROVE  HandoffTypeOK' /\ WorkersKnowTheirTask'
  <1>1. CASE ReleaseOffer(t) /\ Offer(thread[t].seat)
    <2>1. t \in Threads
      BY HandoffAssumption
    <2>2. thread[t].seat \in Seats
      BY <1>1, <2>1 DEF ReleaseOffer, HandoffInv, Inv, StoreInv, WritersKnowTheirSeat
    <2> QED BY <1>1, <2>2, OfferKeepsTypes DEF HandoffInv
  <1>2. CASE UNCHANGED handoffVars
    BY <1>2, UnchangedKeepsTypes DEF HandoffInv
  <1> QED BY <1>1, <1>2 DEF ClientStep, PlainRequestStep

(* The rows a worker may take are rows of the queue. *)
LEMMA WorkerKeepsTypes ==
    ASSUME HandoffInv, NEW w \in Workers, WorkerStep(w)
    PROVE  HandoffTypeOK' /\ WorkersKnowTheirTask'
  <1> DEFINE e == EventOf[worker[w].seat]
  <1>0. /\ HandoffTypeOK /\ WorkersKnowTheirTask
        /\ worker[w] \in WorkerState /\ IdleWorker \in WorkerState
    BY DEF HandoffInv, HandoffTypeOK, IdleWorker, WorkerState
  <1>1. ASSUME worker[w].pc \in {"take", "begin", "hold"}
        PROVE  e \in Events /\ queue[e] \in Seq(EntryState)
    BY <1>0, <1>1, ReservationAssumption DEF WorkersKnowTheirTask, HandoffTypeOK
  <1> HIDE DEF e
  <1>2. CASE WorkerReceive(w)
    <2>1. Head(freed) \in Seats /\ Tail(freed) \in Seq(Seats)
      BY <1>0, <1>2 DEF WorkerReceive, HandoffTypeOK
    <2>2. [IdleWorker EXCEPT !.pc = "take", !.seat = Head(freed)] \in WorkerState
      BY <1>0, <2>1 DEF WorkerState, IdleWorker
    <2> QED BY <1>0, <1>2, <2>1, <2>2
            DEF WorkerReceive, HandoffTypeOK, WorkersKnowTheirTask, IdleWorker
  <1>3. CASE WorkerTake(w)
    <2>1. PICK i \in Takeable(e) :
             /\ worker' = [worker EXCEPT ![w].pc = "begin",
                                         ![w].entry = queue[e][i]]
             /\ queue' = [queue EXCEPT ![e] = RemoveAt(@, i)]
      BY <1>3 DEF WorkerTake, e
    <2>2. e \in Events /\ queue[e] \in Seq(EntryState) /\ worker[w].pc = "take"
      BY <1>1, <1>3 DEF WorkerTake
    <2>3. i \in DOMAIN queue[e]
      BY <2>1 DEF Takeable
    <2>4. queue[e][i] \in EntryState
      BY <2>2, <2>3
    <2>5. RemoveAt(queue[e], i) \in Seq(EntryState)
      BY <2>2, <2>3, RemoveAtType
    <2>6. queue' \in [Events -> Seq(EntryState)]
      BY <1>0, <2>1, <2>2, <2>5 DEF HandoffTypeOK
    <2>7. worker'[w] \in WorkerState /\ worker'[w].seat = worker[w].seat
          /\ worker'[w].entry = queue[e][i]
      BY <1>0, <2>1, <2>4 DEF HandoffTypeOK, WorkerState
    <2>8. worker' \in [Workers -> WorkerState]
          /\ \A x \in Workers \ {w} : worker'[x] = worker[x]
      BY <1>0, <2>1, <2>7 DEF HandoffTypeOK
    <2>9. WorkersKnowTheirTask'
      BY <1>0, <2>2, <2>4, <2>7, <2>8 DEF WorkersKnowTheirTask
    <2> QED BY <1>0, <1>3, <2>6, <2>8, <2>9 DEF WorkerTake, HandoffTypeOK
  <1>4. ASSUME worker' = [worker EXCEPT ![w] = IdleWorker],
               queue' \in [Events -> Seq(EntryState)],
               standing' \in [Events -> SUBSET [user: Users, since: Nat]],
               UNCHANGED <<joining, freed, stopping, closing>>
        PROVE  HandoffTypeOK' /\ WorkersKnowTheirTask'
    BY <1>0, <1>4 DEF HandoffTypeOK, WorkersKnowTheirTask, IdleWorker
  <1>5. CASE WorkerTakeNobody(w)
    BY <1>0, <1>4, <1>5 DEF WorkerTakeNobody, HandoffTypeOK
  <1>6. CASE WorkerTakeFails(w)
    <2>1. e \in Events /\ queue[e] \in Seq(EntryState)
      BY <1>1, <1>6 DEF WorkerTakeFails
    <2>2. \A i \in Takeable(e) : RemoveAt(queue[e], i) \in Seq(EntryState)
      BY <2>1, RemoveAtType DEF Takeable
    <2>3. queue' \in [Events -> Seq(EntryState)]
      BY <1>0, <1>6, <2>1, <2>2 DEF WorkerTakeFails, HandoffTypeOK, e
    <2>4. standing' \in [Events -> SUBSET [user: Users, since: Nat]]
      <3>1. \/ standing' = standing
            \/ \E T \in SUBSET standing[e] : standing' = [standing EXCEPT ![e] = T]
        BY <1>6 DEF WorkerTakeFails, e
      <3> QED BY <1>0, <2>1, <3>1 DEF HandoffTypeOK
    <2> QED BY <1>0, <1>4, <1>6, <2>3, <2>4 DEF WorkerTakeFails, HandoffTypeOK
  <1>7. CASE WorkerBegin(w)
    <2>1. worker'[w] \in WorkerState /\ worker'[w].seat = worker[w].seat
          /\ worker'[w].entry = worker[w].entry /\ worker[w].pc = "begin"
      BY <1>0, <1>7 DEF WorkerBegin, HandoffTypeOK, WorkerState
    <2>2. worker' \in [Workers -> WorkerState]
          /\ \A x \in Workers \ {w} : worker'[x] = worker[x]
      BY <1>0, <1>7, <2>1 DEF WorkerBegin, HandoffTypeOK
    <2>3. WorkersKnowTheirTask'
      BY <1>0, <2>1, <2>2 DEF WorkersKnowTheirTask
    <2> QED BY <1>0, <1>7, <2>2, <2>3 DEF WorkerBegin, HandoffTypeOK
  <1>8. CASE WorkerDone(w) \/ WorkerRejoinFails(w)
    <2>1. e \in Events /\ queue[e] \in Seq(EntryState)
          /\ worker[w].entry \in EntryState
      BY <1>0, <1>1, <1>8
      DEF WorkerDone, WorkerRejoinFails, Answered, WorkersKnowTheirTask
    <2>2. \A k \in DOMAIN queue[e] :
            Standing(worker[w].entry.user, queue[e][k].joinedAt)
              \in [user: Users, since: Nat]
      <3> TAKE k \in DOMAIN queue[e]
      <3>1. queue[e][k] \in EntryState
        BY <2>1
      <3>2. worker[w].entry.user \in Users /\ queue[e][k].joinedAt \in Nat
        BY <2>1, <3>1 DEF EntryState
      <3> QED BY <3>2 DEF Standing
    <2>3. standing' \in [Events -> SUBSET [user: Users, since: Nat]]
      <3>1. TurnOver(e, worker[w].entry.user)
        BY <1>8 DEF WorkerDone, WorkerRejoinFails, e
      <3> QED BY <1>0, <2>1, <2>2, <3>1 DEF TurnOver, HandoffTypeOK
    <2> QED BY <1>0, <1>4, <1>8, <2>3
            DEF WorkerDone, WorkerRejoinFails, HandoffTypeOK
  <1>9. CASE WorkerRejoin(w)
    <2>1. e \in Events /\ queue[e] \in Seq(EntryState)
          /\ worker[w].entry \in EntryState
      BY <1>0, <1>1, <1>9 DEF WorkerRejoin, Answered, WorkersKnowTheirTask
    <2>2. RejoinQueue(queue[e], worker[w].entry) \in Seq(EntryState)
      BY <2>1, QueueOpsType
    <2>3. queue' \in [Events -> Seq(EntryState)]
      BY <1>0, <1>9, <2>1, <2>2 DEF WorkerRejoin, HandoffTypeOK, e
    <2> QED BY <1>0, <1>4, <1>9, <2>3 DEF WorkerRejoin, HandoffTypeOK
  <1>10. CASE WorkerStop(w)
    <2>1. worker'[w] \in WorkerState /\ worker'[w].pc = "stopped"
      BY <1>0, <1>10 DEF WorkerStop, HandoffTypeOK, WorkerState
    <2>2. worker' \in [Workers -> WorkerState]
          /\ \A x \in Workers \ {w} : worker'[x] = worker[x]
      BY <1>0, <1>10, <2>1 DEF WorkerStop, HandoffTypeOK
    <2>3. WorkersKnowTheirTask'
      BY <1>0, <2>1, <2>2 DEF WorkersKnowTheirTask
    <2> QED BY <1>0, <1>10, <2>2, <2>3 DEF WorkerStop, HandoffTypeOK
  <1>11. CASE PlainRequestStep(w)
    BY <1>0, <1>11, UnchangedKeepsTypes DEF PlainRequestStep
  <1> QED BY <1>2, <1>3, <1>5, <1>6, <1>7, <1>8, <1>9, <1>10, <1>11
          DEF WorkerStep

LEMMA QueueStepKeepsTypes ==
    ASSUME HandoffInv, QueueStep
    PROVE  HandoffTypeOK' /\ WorkersKnowTheirTask'
  <1>0. HandoffTypeOK /\ WorkersKnowTheirTask /\ now \in Nat
    BY DEF HandoffInv, Inv, StoreInv, TypeOK
  <1>1. ASSUME NEW e \in Events, NEW u \in Users, BeginJoin(e, u)
        PROVE  HandoffTypeOK' /\ WorkersKnowTheirTask'
    <2>1. PICK id \in FreshIDs :
            joining' = joining \cup {[event |-> e, entry |-> Entry(id, u, now)]}
      BY <1>1 DEF BeginJoin
    <2>2. Entry(id, u, now) \in EntryState
      BY <1>0, <2>1 DEF FreshIDs, Entry, EntryState
    <2> QED BY <1>0, <1>1, <2>1, <2>2
            DEF BeginJoin, HandoffTypeOK, WorkersKnowTheirTask
  <1>2. ASSUME NEW e \in Events, NEW u \in Users, Leave(e, u)
        PROVE  HandoffTypeOK' /\ WorkersKnowTheirTask'
    <2>1. PICK x : x \in Seq(EntryState) /\ x = queue[e]
      BY <1>0 DEF HandoffTypeOK
    <2>2. LeaveQueue(queue[e], u) \in Seq(EntryState)
      <3>1. IsWaiting(queue[e], u) => Position(queue[e], u) \in DOMAIN queue[e]
        BY DEF IsWaiting, Position
      <3> QED BY <2>1, <3>1, RemoveAtType DEF LeaveQueue
    <2> QED BY <1>0, <1>2, <2>2 DEF Leave, HandoffTypeOK, WorkersKnowTheirTask
  <1>3. ASSUME NEW j \in joining, FinishJoin(j)
        PROVE  HandoffTypeOK' /\ WorkersKnowTheirTask'
    <2>1. j.event \in Events /\ j.entry \in EntryState
          /\ queue[j.event] \in Seq(EntryState)
      BY <1>0 DEF HandoffTypeOK
    <2>2. JoinQueue(queue[j.event], j.entry) \in Seq(EntryState)
      BY <2>1, QueueOpsType
    <2>3. Standing(j.entry.user, j.entry.joinedAt) \in [user: Users, since: Nat]
      BY <2>1 DEF EntryState, Standing
    <2>4. standing' \in [Events -> SUBSET [user: Users, since: Nat]]
      BY <1>0, <1>3, <2>1, <2>3 DEF FinishJoin, HandoffTypeOK
    <2>5. queue' \in [Events -> Seq(EntryState)]
      BY <1>0, <1>3, <2>1, <2>2 DEF FinishJoin, HandoffTypeOK
    <2> QED BY <1>0, <1>3, <2>4, <2>5
            DEF FinishJoin, HandoffTypeOK, WorkersKnowTheirTask
  <1>4. ASSUME NEW j \in joining, JoinFails(j)
        PROVE  HandoffTypeOK' /\ WorkersKnowTheirTask'
    BY <1>0, <1>4 DEF JoinFails, HandoffTypeOK, WorkersKnowTheirTask
  <1> QED BY <1>1, <1>2, <1>3, <1>4 DEF QueueStep

(* The people a withdrawal concerns are users: a seat without a claim is    *)
(* skipped.                                                                 *)
LEMMA ClaimantsAreUsers ==
    ASSUME TypeOK, NEW e PROVE Claimants(e) \subseteq Users
  <1>1. \A s \in Seats : /\ seats[s].heldBy \in Users \cup {NoUser}
                         /\ seats[s].reservedBy \in Users \cup {NoUser}
    BY DEF TypeOK, SeatState
  <1> QED BY <1>1 DEF Claimants

LEMMA WithdrawKeepsTypes ==
    ASSUME HandoffInv, NEW e \in Events, WithdrawStep(e)
    PROVE  HandoffTypeOK' /\ WorkersKnowTheirTask'
  <1>0. /\ HandoffTypeOK /\ WorkersKnowTheirTask /\ TypeOK
        /\ closing[e] \in ClosingState /\ queue[e] \in Seq(EntryState)
    BY DEF HandoffInv, Inv, StoreInv, HandoffTypeOK
  <1>1. <<>> \in Seq(EntryState)
    OBVIOUS
  <1>2. Waiters(queue[e]) \subseteq Users
    <2>1. \A i \in DOMAIN queue[e] : queue[e][i] \in EntryState
      BY <1>0
    <2> QED BY <2>1 DEF Waiters, EntryState
  <1>3. Claimants(e) \subseteq Users
    BY <1>0, ClaimantsAreUsers
  <1>4. CASE Withdraw(e) \/ WithdrawNotify(e) \/ WithdrawEnqueue(e)
    <2>1. PICK end \in {"list", "enqueue", "done", "told"} :
            closing' = [closing EXCEPT ![e].pc = end]
      BY <1>4 DEF Withdraw, WithdrawNotify, WithdrawEnqueue
    <2>2. closing'[e] \in ClosingState
      BY <1>0, <2>1 DEF HandoffTypeOK, ClosingState
    <2>3. closing' \in [Events -> ClosingState]
      BY <1>0, <2>1, <2>2 DEF HandoffTypeOK
    <2> QED BY <1>0, <1>4, <2>3
            DEF Withdraw, WithdrawNotify, WithdrawEnqueue, HandoffTypeOK,
                WorkersKnowTheirTask
  <1>5. CASE WithdrawList(e)
    <2>1. [pc |-> "drain", stake |-> Claimants(e)] \in ClosingState
      BY <1>3 DEF ClosingState
    <2> QED BY <1>0, <1>5, <2>1
            DEF WithdrawList, HandoffTypeOK, WorkersKnowTheirTask
  <1>6. CASE WithdrawDrain(e)
    <2> DEFINE stake == closing[e].stake \cup Waiters(queue[e])
    <2>1. stake \subseteq Users
      BY <1>0, <1>2 DEF ClosingState
    <2>2. [pc |-> IF stake = {} THEN "done" ELSE "notify", stake |-> stake]
            \in ClosingState
      BY <2>1 DEF ClosingState
    <2>3. closing' \in [Events -> ClosingState]
      BY <1>0, <1>6, <2>2 DEF WithdrawDrain, HandoffTypeOK
    <2> QED BY <1>0, <1>1, <1>6, <2>3
            DEF WithdrawDrain, HandoffTypeOK, WorkersKnowTheirTask
  <1>7. CASE WithdrawFails(e)
    <2>1. closing'[e] \in ClosingState
      BY <1>0, <1>7 DEF WithdrawFails, HandoffTypeOK, ClosingState
    <2> QED BY <1>0, <1>1, <1>7, <2>1
            DEF WithdrawFails, HandoffTypeOK, WorkersKnowTheirTask
  <1> QED BY <1>4, <1>5, <1>6, <1>7 DEF WithdrawStep

LEMMA OtherKeepsTypes ==
    ASSUME HandoffInv, SweepStep \/ OtherStep
    PROVE  HandoffTypeOK' /\ WorkersKnowTheirTask'
  <1>0. HandoffTypeOK /\ WorkersKnowTheirTask
    BY DEF HandoffInv
  <1>1. CASE \E s \in Seats : SweepOffer(s) /\ Offer(s)
    BY <1>0, <1>1, OfferKeepsTypes
  <1>2. CASE UNCHANGED handoffVars
    BY <1>0, <1>2, UnchangedKeepsTypes
  <1>3. CASE Shutdown
    BY <1>0, <1>3 DEF Shutdown, HandoffTypeOK, WorkersKnowTheirTask
  <1>4. CASE HandoffCrash
    <2>1. <<>> \in Seq(Seats)
      OBVIOUS
    <2>2. closing' \in [Events -> ClosingState]
      BY <1>0, <1>4 DEF HandoffCrash, HandoffTypeOK, ClosingState
    <2>3. worker' \in [Workers -> WorkerState] /\ WorkersKnowTheirTask'
      BY <1>4 DEF HandoffCrash, IdleWorker, WorkerState, WorkersKnowTheirTask
    <2>4. standing' \in [Events -> SUBSET [user: Users, since: Nat]]
      BY <1>0, <1>4 DEF HandoffCrash, HandoffTypeOK
    <2> QED BY <1>0, <1>4, <2>1, <2>2, <2>3, <2>4 DEF HandoffCrash, HandoffTypeOK
  <1> QED BY <1>1, <1>2, <1>3, <1>4 DEF SweepStep, OtherStep

-----------------------------------------------------------------------------
(* The order of the queues and the people who are owed a turn *)

(* Whoever is owed a turn for e is in its queue or with a worker. *)
KeptIn(e) ==
    \A u \in Standers(e) : (\E x \in Queued(e) : x.user = u) \/ u \in InFlight(e)

(* What the invariant says of one event. *)
QueueSound(e) == InOrder(queue[e]) /\ ApartIn(e) /\ KeptIn(e)

LEMMA WaitingIsQueued ==
    ASSUME NEW e, NEW u
    PROVE  /\ IsWaiting(queue[e], u) <=> \E x \in Queued(e) : x.user = u
           /\ IsWaiting(queue[e], u)' <=> \E x \in Queued(e)' : x.user = u
  BY DEF IsWaiting, Queued, Range

LEMMA SoundIsEveryEvent ==
    /\ EntriesApart /\ QueueInOrder /\ NobodyLost
         <=> \A e \in Events : QueueSound(e)
    /\ (EntriesApart /\ QueueInOrder /\ NobodyLost)'
         <=> \A e \in Events : QueueSound(e)'
  <1>1. EntriesApart /\ QueueInOrder /\ NobodyLost
          <=> \A e \in Events : QueueSound(e)
    BY WaitingIsQueued DEF EntriesApart, QueueInOrder, NobodyLost, QueueSound, KeptIn
  <1>2. (EntriesApart /\ QueueInOrder /\ NobodyLost)'
          <=> \A e \in Events : QueueSound(e)'
    BY WaitingIsQueued DEF EntriesApart, QueueInOrder, NobodyLost, QueueSound, KeptIn
  <1> QED BY <1>1, <1>2

(* The workers serve whom they served before. *)
SameService(e) ==
    \A w \in Workers :
        /\ Serves(w, e)' <=> Serves(w, e)
        /\ Serves(w, e) => worker'[w].entry = worker[w].entry

(* What happens elsewhere, or takes a join away, leaves an event sound. *)
LEMMA UntouchedEvent ==
    ASSUME NEW e \in Events, QueueSound(e),
           queue'[e] = queue[e], standing'[e] = standing[e],
           \A j \in joining' : j.event = e => j \in joining,
           SameService(e)
    PROVE  QueueSound(e)'
  <1>1. Queued(e)' = Queued(e) /\ InOrder(queue[e])'
    BY DEF Queued, Range, QueueSound, InOrder
  <1>2. ApartIn(e)'
    BY <1>1 DEF ApartIn, QueueSound, SameService
  <1>3. InFlight(e)' = InFlight(e) /\ Standers(e)' = Standers(e)
    BY DEF InFlight, Standers, SameService
  <1>4. KeptIn(e)'
    BY <1>1, <1>3 DEF KeptIn, QueueSound
  <1> QED BY <1>1, <1>2, <1>4 DEF QueueSound

(* Worker w stops serving anybody, or goes on; the others do not move. *)
LEMMA OneWorkerMoves ==
    ASSUME HandoffTypeOK, NEW w \in Workers, NEW r,
           worker' = [worker EXCEPT ![w] = r]
    PROVE  /\ worker'[w] = r
           /\ \A v \in Workers \ {w} :
                /\ worker'[v] = worker[v]
                /\ \A e : Serves(v, e)' <=> Serves(v, e)
           /\ \A e : Serves(w, e)' <=> r.pc \in {"begin", "hold"}
                                       /\ EventOf[r.seat] = e
  BY DEF HandoffTypeOK, Serves

(* Worker w is done with u: u is owed nothing but a place in the queue. *)
LEMMA ServedEvent ==
    ASSUME HandoffInv, NEW e \in Events, NEW w \in Workers, NEW u,
           \A v \in Workers : Serves(v, e)' =>
             v # w /\ Serves(v, e) /\ worker'[v] = worker[v],
           \A v \in Workers \ {w} : Serves(v, e) => Serves(v, e)',
           Serves(w, e) => worker[w].entry.user = u,
           queue'[e] = queue[e], UNCHANGED joining,
           \A x \in standing'[e] :
             \/ x \in standing[e] /\ x.user # u
             \/ \E y \in Queued(e) : y.user = x.user
    PROVE  QueueSound(e)'
  <1>0. QueueSound(e)
    BY SoundIsEveryEvent DEF HandoffInv
  <1>1. Queued(e)' = Queued(e) /\ InOrder(queue[e])'
    BY <1>0 DEF Queued, Range, QueueSound, InOrder
  <1>2. ApartIn(e)'
    BY <1>0, <1>1 DEF ApartIn, QueueSound
  <1>3. KeptIn(e)'
    <2> SUFFICES ASSUME NEW x \in standing'[e]
                 PROVE  \/ \E y \in Queued(e)' : y.user = x.user
                        \/ x.user \in InFlight(e)'
      BY DEF KeptIn, Standers
    <2>1. CASE \E y \in Queued(e) : y.user = x.user
      BY <1>1, <2>1
    <2>2. CASE x \in standing[e] /\ x.user # u
               /\ ~\E y \in Queued(e) : y.user = x.user
      <3>1. x.user \in InFlight(e)
        BY <1>0, <2>2 DEF QueueSound, KeptIn, Standers
      <3>2. PICK v \in Workers : Serves(v, e) /\ worker[v].entry.user = x.user
        BY <3>1 DEF InFlight
      <3>3. v # w /\ Serves(v, e)' /\ worker'[v] = worker[v]
        BY <2>2, <3>2
      <3> QED BY <3>2, <3>3 DEF InFlight
    <2> QED BY <2>1, <2>2
  <1> QED BY <1>1, <1>2, <1>3 DEF QueueSound

(* An entry has left the queue of e: a worker has it now, or its user is    *)
(* owed nothing more.                                                       *)
LEMMA ShorterQueue ==
    ASSUME HandoffInv, NEW e \in Events, NEW x \in Queued(e),
           Queued(e)' = Queued(e) \ {x}, InOrder(queue[e])',
           \A j \in joining' : j \in joining,
           \A v \in Workers : Serves(v, e) =>
             Serves(v, e)' /\ worker'[v] = worker[v],
           \A v \in Workers : Serves(v, e)' /\ ~Serves(v, e) =>
             worker'[v].entry = x,
           \A v, u \in Workers : Serves(v, e)' /\ Serves(u, e)'
             /\ ~Serves(v, e) /\ ~Serves(u, e) => u = v,
           \A y \in standing'[e] : y \in standing[e],
           \/ \A y \in standing'[e] : y.user # x.user
           \/ \E v \in Workers : Serves(v, e)' /\ worker'[v].entry = x
    PROVE  QueueSound(e)'
  <1>0. QueueSound(e)
    BY SoundIsEveryEvent DEF HandoffInv
  <1>1. ApartIn(e)'
    BY <1>0 DEF ApartIn, QueueSound
  <1>2. InFlight(e) \subseteq InFlight(e)'
    BY DEF InFlight
  <1>3. KeptIn(e)'
    <2> SUFFICES ASSUME NEW y \in standing'[e]
                 PROVE  \/ \E z \in Queued(e)' : z.user = y.user
                        \/ y.user \in InFlight(e)'
      BY DEF KeptIn, Standers
    <2>1. CASE y.user \in InFlight(e)
      BY <1>2, <2>1
    <2>2. CASE y.user \notin InFlight(e)
      <3>1. PICK z \in Queued(e) : z.user = y.user
        BY <1>0, <2>2 DEF QueueSound, KeptIn, Standers
      <3>2. CASE z # x
        BY <3>1, <3>2
      <3>3. CASE z = x
        <4>1. PICK v \in Workers : Serves(v, e)' /\ worker'[v].entry = x
          BY <3>1, <3>3
        <4> QED BY <3>1, <3>3, <4>1 DEF InFlight
      <3> QED BY <3>2, <3>3
    <2> QED BY <2>1, <2>2
  <1> QED BY <1>1, <1>3 DEF QueueSound

(* An entry has come into the queue of e, unless its user was there already.*)
LEMMA LongerQueue ==
    ASSUME HandoffInv, NEW e \in Events, NEW x \in EntryState,
           queue'[e] = IF IsWaiting(queue[e], x.user) THEN queue[e]
                       ELSE InsertInOrder(queue[e], x),
           \A y \in Queued(e) : y.id # x.id,
           \A j \in joining' : j \in joining,
           \A j \in joining' : j.event = e => j.entry.id # x.id,
           \A v \in Workers : Serves(v, e)' =>
             /\ Serves(v, e) /\ worker'[v] = worker[v]
             /\ worker[v].entry.id # x.id,
           \A v \in Workers : Serves(v, e) =>
             \/ Serves(v, e)' /\ worker'[v] = worker[v]
             \/ worker[v].entry = x,
           \A y \in standing'[e] : y \in standing[e] \/ y.user = x.user
    PROVE  QueueSound(e)' /\ \E y \in Queued(e)' : y.user = x.user
  <1>0. QueueSound(e) /\ queue[e] \in Seq(EntryState)
    BY SoundIsEveryEvent DEF HandoffInv, HandoffTypeOK
  <1>1. /\ InOrder(queue'[e])
        /\ Queued(e)' = Queued(e) \/ Queued(e)' = Queued(e) \cup {x}
        /\ \E y \in Queued(e)' : y.user = x.user
    <2>1. CASE IsWaiting(queue[e], x.user)
      <3>1. queue'[e] = queue[e] /\ \E y \in Queued(e) : y.user = x.user
        BY <2>1, WaitingIsQueued
      <3> QED BY <1>0, <3>1 DEF Queued, QueueSound
    <2>2. CASE ~IsWaiting(queue[e], x.user)
      <3>1. PICK q : q = queue[e]
        OBVIOUS
      <3>2. /\ q \in Seq(EntryState) /\ InOrder(q) /\ ~IsWaiting(q, x.user)
            /\ \A y \in Range(q) : y.id # x.id
            /\ queue'[e] = InsertInOrder(q, x)
        BY <1>0, <2>2, <3>1 DEF QueueSound, Queued
      <3>3. /\ InOrder(InsertInOrder(q, x))
            /\ Range(InsertInOrder(q, x)) = Range(q) \cup {x}
        BY <3>2, InsertKeepsOrder
      <3>4. Queued(e)' = Queued(e) \cup {x} /\ InOrder(queue'[e])
        BY <3>1, <3>2, <3>3 DEF Queued
      <3> QED BY <3>4
    <2> QED BY <2>1, <2>2
  <1>2. ApartIn(e)'
    BY <1>0, <1>1 DEF ApartIn, QueueSound
  <1>3. KeptIn(e)'
    <2> SUFFICES ASSUME NEW y \in standing'[e]
                 PROVE  \/ \E z \in Queued(e)' : z.user = y.user
                        \/ y.user \in InFlight(e)'
      BY DEF KeptIn, Standers
    <2>1. CASE y.user = x.user \/ \E z \in Queued(e) : z.user = y.user
      BY <1>1, <2>1
    <2>2. CASE y \in standing[e] /\ y.user # x.user
               /\ ~\E z \in Queued(e) : z.user = y.user
      <3>1. y.user \in InFlight(e)
        BY <1>0, <2>2 DEF QueueSound, KeptIn, Standers
      <3>2. PICK v \in Workers : Serves(v, e) /\ worker[v].entry.user = y.user
        BY <3>1 DEF InFlight
      <3>3. Serves(v, e)' /\ worker'[v] = worker[v]
        BY <2>2, <3>2
      <3> QED BY <3>2, <3>3 DEF InFlight
    <2> QED BY <2>1, <2>2
  <1>4. InOrder(queue[e])'
    BY <1>1 DEF InOrder
  <1> QED BY <1>1, <1>2, <1>3, <1>4 DEF QueueSound

(* Taking the ith entry off the queue of e. *)
LEMMA EntryTaken ==
    ASSUME HandoffInv, NEW e \in Events, NEW i \in DOMAIN queue[e],
           queue'[e] = RemoveAt(queue[e], i)
    PROVE  /\ queue[e][i] \in Queued(e)
           /\ Queued(e)' = Queued(e) \ {queue[e][i]}
           /\ InOrder(queue[e])'
  <1>1. PICK q : q = queue[e]
    OBVIOUS
  <1>2. q \in Seq(EntryState) /\ InOrder(q) /\ i \in DOMAIN q
    BY <1>1, SoundIsEveryEvent DEF HandoffInv, HandoffTypeOK, QueueSound
  <1>3. InOrder(RemoveAt(q, i)) /\ Range(RemoveAt(q, i)) = Range(q) \ {q[i]}
    BY <1>2, RemoveKeepsOrder
  <1>4. queue[e][i] \in Queued(e)
    BY DEF Queued, Range
  <1>5. Queued(e)' = Queued(e) \ {queue[e][i]}
    BY <1>1, <1>3 DEF Queued
  <1>6. InOrder(queue'[e])
    BY <1>1, <1>3
  <1>7. InOrder(queue[e])'
    BY <1>6 DEF InOrder
  <1> QED BY <1>4, <1>5, <1>7

(* The queue of e is emptied, and those who stood in it are owed nothing. *)
LEMMA EmptiedQueue ==
    ASSUME HandoffInv, NEW e \in Events, queue'[e] = <<>>,
           UNCHANGED <<joining, worker>>,
           standing'[e] = {x \in standing[e] : ~IsWaiting(queue[e], x.user)}
    PROVE  QueueSound(e)'
  <1>0. QueueSound(e)
    BY SoundIsEveryEvent DEF HandoffInv
  <1>1. Queued(e)' = {} /\ InOrder(queue[e])'
    BY DEF Queued, Range, InOrder
  <1>2. SameService(e) /\ InFlight(e)' = InFlight(e)
    BY DEF SameService, Serves, InFlight
  <1>3. ApartIn(e)'
    BY <1>0, <1>1, <1>2 DEF ApartIn, QueueSound, SameService
  <1>4. \A x \in standing'[e] : x.user \in InFlight(e)
    BY <1>0, WaitingIsQueued DEF QueueSound, KeptIn, Standers
  <1>5. KeptIn(e)'
    BY <1>2, <1>4 DEF KeptIn, Standers
  <1> QED BY <1>1, <1>3, <1>5 DEF QueueSound

(* A step that moves no entry leaves every event sound. *)
LEMMA QuietStep ==
    ASSUME HandoffInv, UNCHANGED <<queue, standing>>, joining' \subseteq joining,
           \A e \in Events : SameService(e)
    PROVE  \A e \in Events : QueueSound(e)'
  <1>1. \A e \in Events : QueueSound(e)
    BY SoundIsEveryEvent DEF HandoffInv
  <1> QED BY <1>1, UntouchedEvent

LEMMA UnchangedService ==
    ASSUME UNCHANGED worker PROVE \A e \in Events : SameService(e)
  BY DEF SameService, Serves

(* A worker that serves nobody, before or after, is no part of any event. *)
LEMMA IdleService ==
    ASSUME HandoffTypeOK, NEW w \in Workers, NEW r,
           worker' = [worker EXCEPT ![w] = r],
           worker[w].pc \notin {"begin", "hold"}, r.pc \notin {"begin", "hold"}
    PROVE  \A e \in Events : SameService(e)
  BY OneWorkerMoves DEF SameService, Serves

(* A worker that takes an entry off the queue, or loses it. *)
LEMMA TakeKeepsOrder ==
    ASSUME HandoffInv, NEW w \in Workers, WorkerTake(w) \/ WorkerTakeFails(w)
    PROVE  \A e \in Events : QueueSound(e)'
  <1>0. /\ HandoffTypeOK /\ \A d \in Events : QueueSound(d)
        /\ worker[w].pc = "take" /\ worker[w].seat \in Seats
        /\ joining' = joining
    BY SoundIsEveryEvent
    DEF HandoffInv, WorkersKnowTheirTask, WorkerTake, WorkerTakeFails
  <1>e. PICK e \in Events : e = EventOf[worker[w].seat]
    BY <1>0, ReservationAssumption
  <1>1. \A d : ~Serves(w, d)
    BY <1>0 DEF Serves
  <1>2. CASE WorkerTake(w)
    <2>1. PICK i \in Takeable(e) :
             /\ worker' = [worker EXCEPT ![w].pc = "begin",
                                         ![w].entry = queue[e][i]]
             /\ queue' = [queue EXCEPT ![e] = RemoveAt(@, i)]
      BY <1>e, <1>2 DEF WorkerTake
    <2>2. i \in DOMAIN queue[e] /\ UNCHANGED standing
      BY <1>2, <2>1 DEF Takeable, WorkerTake
    <2>3. queue'[e] = RemoveAt(queue[e], i)
          /\ \A d \in Events \ {e} : queue'[d] = queue[d]
      BY <1>0, <2>1 DEF HandoffTypeOK
    <2>4. /\ queue[e][i] \in Queued(e)
          /\ Queued(e)' = Queued(e) \ {queue[e][i]} /\ InOrder(queue[e])'
      BY <1>0, <2>2, <2>3, EntryTaken
    <2>5. /\ worker'[w].pc = "begin" /\ worker'[w].entry = queue[e][i]
          /\ worker'[w].seat = worker[w].seat
          /\ \A v \in Workers \ {w} : worker'[v] = worker[v]
      BY <1>0, <2>1 DEF HandoffTypeOK, WorkerState
    <2>6. /\ \A d : Serves(w, d)' <=> d = e
          /\ \A d : \A v \in Workers \ {w} : Serves(v, d)' <=> Serves(v, d)
      BY <1>e, <2>5 DEF Serves
    <2>7. QueueSound(e)'
      <3>1. PICK y : y = queue[e][i]
        OBVIOUS
      <3>2. y \in Queued(e) /\ Queued(e)' = Queued(e) \ {y} /\ worker'[w].entry = y
        BY <2>4, <2>5, <3>1
      <3>3. /\ \A j \in joining' : j \in joining
            /\ \A v \in Workers : Serves(v, e) =>
                 Serves(v, e)' /\ worker'[v] = worker[v]
            /\ \A v \in Workers : Serves(v, e)' /\ ~Serves(v, e) =>
                 worker'[v].entry = y
            /\ \A v, u \in Workers : Serves(v, e)' /\ Serves(u, e)'
                 /\ ~Serves(v, e) /\ ~Serves(u, e) => u = v
            /\ \A z \in standing'[e] : z \in standing[e]
            /\ \E v \in Workers : Serves(v, e)' /\ worker'[v].entry = y
        BY <1>0, <1>1, <2>2, <2>5, <2>6, <3>2
      <3> QED BY <1>0, <2>4, <3>2, <3>3, ShorterQueue
    <2>8. ASSUME NEW d \in Events, d # e PROVE QueueSound(d)'
      <3>1. SameService(d)
        BY <1>1, <2>5, <2>6, <2>8 DEF SameService
      <3> QED BY <1>0, <2>2, <2>3, <2>8, <3>1, UntouchedEvent
    <2> QED BY <2>7, <2>8
  <1>3. CASE WorkerTakeFails(w)
    <2>1. \A d \in Events : SameService(d)
      <3>1. IdleWorker.pc = "idle"
        BY DEF IdleWorker
      <3> QED BY <1>0, <1>3, <3>1, IdleService DEF WorkerTakeFails
    <2>2. CASE UNCHANGED <<queue, standing>>
      BY <1>0, <2>1, <2>2, QuietStep
    <2>3. CASE ~UNCHANGED <<queue, standing>>
      <3>1. PICK i \in Takeable(EventOf[worker[w].seat]) :
               /\ queue' = [queue EXCEPT ![EventOf[worker[w].seat]] =
                              RemoveAt(@, i)]
               /\ standing' = [standing EXCEPT ![EventOf[worker[w].seat]] =
                    {x \in @ : x.user # queue[EventOf[worker[w].seat]][i].user}]
        BY <1>3, <2>3, Zenon DEF WorkerTakeFails
      <3>2. i \in DOMAIN queue[e]
        BY <1>e, <3>1 DEF Takeable
      <3>3. /\ queue'[e] = RemoveAt(queue[e], i)
            /\ standing'[e] = {x \in standing[e] : x.user # queue[e][i].user}
            /\ \A d \in Events \ {e} : queue'[d] = queue[d]
                                       /\ standing'[d] = standing[d]
        BY <1>0, <1>e, <3>1 DEF HandoffTypeOK
      <3>4. PICK y : y = queue[e][i]
        OBVIOUS
      <3>5. y \in Queued(e) /\ Queued(e)' = Queued(e) \ {y} /\ InOrder(queue[e])'
        BY <1>0, <3>2, <3>3, <3>4, EntryTaken
      <3>6. \A v \in Workers : Serves(v, e)' <=> Serves(v, e)
        BY <1>0, <2>1 DEF SameService
      <3>7. \A v \in Workers : Serves(v, e) => worker'[v] = worker[v]
        <4>1. \A v \in Workers \ {w} : worker'[v] = worker[v]
          BY <1>0, <1>3 DEF WorkerTakeFails, HandoffTypeOK
        <4> QED BY <1>1, <4>1
      <3>8. QueueSound(e)'
        <4>1. /\ \A j \in joining' : j \in joining
              /\ \A z \in standing'[e] : z \in standing[e]
              /\ \A z \in standing'[e] : z.user # y.user
          BY <1>0, <3>3, <3>4
        <4> QED BY <1>0, <3>5, <3>6, <3>7, <4>1, ShorterQueue
      <3>9. \A d \in Events \ {e} : QueueSound(d)'
        BY <1>0, <2>1, <3>3, UntouchedEvent
      <3> QED BY <3>8, <3>9
    <2> QED BY <2>2, <2>3
  <1> QED BY <1>2, <1>3

(* A worker that has its answer settles with the waiter. *)
LEMMA AnswerKeepsOrder ==
    ASSUME HandoffInv, NEW w \in Workers,
           WorkerDone(w) \/ WorkerRejoin(w) \/ WorkerRejoinFails(w)
    PROVE  \A e \in Events : QueueSound(e)'
  <1>0. /\ HandoffTypeOK /\ \A d \in Events : QueueSound(d)
        /\ worker[w].pc = "hold" /\ worker[w].seat \in Seats
        /\ worker[w].entry \in EntryState
        /\ joining' = joining /\ worker' = [worker EXCEPT ![w] = IdleWorker]
    BY SoundIsEveryEvent
    DEF HandoffInv, WorkersKnowTheirTask, WorkerDone, WorkerRejoin,
        WorkerRejoinFails, Answered
  <1>e. PICK e \in Events : e = EventOf[worker[w].seat]
    BY <1>0, ReservationAssumption
  <1>x. PICK x \in EntryState : x = worker[w].entry
    BY <1>0
  <1>1. \A d : Serves(w, d) <=> d = e
    BY <1>e, <1>0 DEF Serves
  <1>2. /\ \A d : ~Serves(w, d)'
        /\ \A v \in Workers \ {w} : worker'[v] = worker[v]
        /\ \A d : \A v \in Workers \ {w} : Serves(v, d)' <=> Serves(v, d)
    <2>1. IdleWorker.pc = "idle"
      BY DEF IdleWorker
    <2> QED BY <1>0, <2>1, OneWorkerMoves
  <1>3. \A d \in Events \ {e} : SameService(d)
    BY <1>1, <1>2 DEF SameService
  <1>4. CASE WorkerRejoin(w)
    <2>1. queue' = [queue EXCEPT ![e] = RejoinQueue(queue[e], x)]
          /\ UNCHANGED standing
      BY <1>e, <1>x, <1>4 DEF WorkerRejoin
    <2>2. /\ queue'[e] = IF IsWaiting(queue[e], x.user) THEN queue[e]
                         ELSE InsertInOrder(queue[e], x)
          /\ \A d \in Events \ {e} : queue'[d] = queue[d]
      BY <1>0, <2>1 DEF HandoffTypeOK, RejoinQueue
    <2>4. ApartIn(e)
      BY <1>0 DEF QueueSound
    <2>5. /\ \A z \in Queued(e) : z.id # x.id
          /\ \A j \in joining' : j.event = e => j.entry.id # x.id
          /\ \A v \in Workers : Serves(v, e)' =>
               /\ Serves(v, e) /\ worker'[v] = worker[v]
               /\ worker[v].entry.id # x.id
      BY <1>0, <1>1, <1>2, <1>x, <2>4 DEF ApartIn
    <2>6. /\ \A v \in Workers : Serves(v, e) =>
               \/ Serves(v, e)' /\ worker'[v] = worker[v]
               \/ worker[v].entry = x
          /\ \A z \in standing'[e] : z \in standing[e] \/ z.user = x.user
          /\ \A j \in joining' : j \in joining
      BY <1>0, <1>2, <1>x, <2>1
    <2>8. QueueSound(e)'
      BY <1>0, <2>2, <2>5, <2>6, LongerQueue
    <2>9. \A d \in Events \ {e} : QueueSound(d)'
      BY <1>0, <1>3, <2>1, <2>2, UntouchedEvent
    <2> QED BY <2>8, <2>9
  <1>5. CASE WorkerDone(w) \/ WorkerRejoinFails(w)
    <2>1. UNCHANGED queue /\ TurnOver(e, x.user)
      BY <1>e, <1>x, <1>5 DEF WorkerDone, WorkerRejoinFails
    <2>2. /\ standing'[e] =
               {z \in standing[e] : z.user # x.user} \cup
               {Standing(x.user, queue[e][i].joinedAt) :
                  i \in {k \in DOMAIN queue[e] : queue[e][k].user = x.user}}
          /\ \A d \in Events \ {e} : standing'[d] = standing[d]
      BY <1>0, <2>1 DEF TurnOver, HandoffTypeOK
    <2>3. PICK u : u = x.user
      OBVIOUS
    <2>4. \A z \in standing'[e] :
            \/ z \in standing[e] /\ z.user # u
            \/ \E y \in Queued(e) : y.user = z.user
      <3>1. \A i \in DOMAIN queue[e] : queue[e][i] \in Queued(e)
        BY DEF Queued, Range
      <3> QED BY <2>2, <2>3, <3>1 DEF Standing
    <2>5. QueueSound(e)'
      <3>1. /\ \A v \in Workers : Serves(v, e)' =>
                 v # w /\ Serves(v, e) /\ worker'[v] = worker[v]
            /\ \A v \in Workers \ {w} : Serves(v, e) => Serves(v, e)'
        BY <1>2
      <3>2. (Serves(w, e) => worker[w].entry.user = u)
            /\ queue'[e] = queue[e] /\ UNCHANGED joining
        BY <1>0, <1>x, <2>1, <2>3
      <3> QED BY <1>0, <2>4, <3>1, <3>2, ServedEvent
    <2>6. \A d \in Events \ {e} : QueueSound(d)'
      BY <1>0, <1>3, <2>1, <2>2, UntouchedEvent
    <2> QED BY <2>5, <2>6
  <1> QED BY <1>4, <1>5

LEMMA WorkerKeepsOrder ==
    ASSUME HandoffInv, NEW w \in Workers, WorkerStep(w)
    PROVE  \A e \in Events : QueueSound(e)'
  <1>0. HandoffTypeOK /\ IdleWorker.pc = "idle"
    BY DEF HandoffInv, IdleWorker
  <1>1. CASE WorkerReceive(w) \/ WorkerTakeNobody(w) \/ WorkerStop(w)
    <2>1. PICK r : /\ worker' = [worker EXCEPT ![w] = r]
                   /\ r.pc \notin {"begin", "hold"}
      <3>1. CASE WorkerReceive(w)
        <4>1. [IdleWorker EXCEPT !.pc = "take", !.seat = Head(freed)].pc = "take"
          BY DEF IdleWorker
        <4> QED BY <3>1, <4>1 DEF WorkerReceive
      <3>2. CASE WorkerTakeNobody(w)
        BY <1>0, <3>2 DEF WorkerTakeNobody
      <3>3. CASE WorkerStop(w)
        <4>1. [worker[w] EXCEPT !.pc = "stopped"].pc = "stopped"
          BY <1>0 DEF HandoffTypeOK, WorkerState
        <4> QED BY <3>3, <4>1 DEF WorkerStop
      <3> QED BY <1>1, <3>1, <3>2, <3>3
    <2>2. worker[w].pc \notin {"begin", "hold"} /\ UNCHANGED <<queue, standing, joining>>
      BY <1>1 DEF WorkerReceive, WorkerTakeNobody, WorkerStop
    <2>3. \A e \in Events : SameService(e)
      BY <1>0, <2>1, <2>2, IdleService
    <2> QED BY <2>2, <2>3, QuietStep
  <1>2. CASE WorkerBegin(w)
    <2>1. /\ worker[w].pc = "begin" /\ worker'[w].pc = "hold"
          /\ worker'[w].seat = worker[w].seat
          /\ worker'[w].entry = worker[w].entry
          /\ \A v \in Workers \ {w} : worker'[v] = worker[v]
      BY <1>0, <1>2 DEF WorkerBegin, HandoffTypeOK, WorkerState
    <2>2. \A e \in Events : SameService(e)
      BY <2>1 DEF SameService, Serves
    <2> QED BY <1>2, <2>2, QuietStep DEF WorkerBegin
  <1>3. CASE PlainRequestStep(w)
    BY <1>3, QuietStep, UnchangedService DEF PlainRequestStep, handoffVars
  <1> QED BY <1>1, <1>2, <1>3, TakeKeepsOrder, AnswerKeepsOrder DEF WorkerStep

LEMMA ClientKeepsOrder ==
    ASSUME HandoffInv, NEW t \in Clients, ClientStep(t)
    PROVE  \A e \in Events : QueueSound(e)'
  <1>1. UNCHANGED <<queue, standing, joining, worker>>
    BY DEF ClientStep, PlainRequestStep, Offer, handoffVars
  <1> QED BY <1>1, QuietStep, UnchangedService

(* A join draws an id nobody has, goes in at its place, or fails; and       *)
(* somebody who leaves is owed nothing.                                     *)
LEMMA QueueStepKeepsOrder ==
    ASSUME HandoffInv, QueueStep
    PROVE  \A e \in Events : QueueSound(e)'
  <1>0. HandoffTypeOK /\ \A d \in Events : QueueSound(d)
    BY SoundIsEveryEvent DEF HandoffInv
  <1>1. ASSUME NEW e \in Events, NEW u \in Users, BeginJoin(e, u)
        PROVE  \A d \in Events : QueueSound(d)'
    <2>1. PICK id \in FreshIDs :
            joining' = joining \cup {[event |-> e, entry |-> Entry(id, u, now)]}
      BY <1>1 DEF BeginJoin
    <2>2. UNCHANGED <<queue, standing, worker>>
      BY <1>1 DEF BeginJoin
    <2>3. PICK new : /\ new = [event |-> e, entry |-> Entry(id, u, now)]
      OBVIOUS
    <2>4. /\ joining' = joining \cup {new}
          /\ new.event = e /\ new.entry.id = id
      BY <2>1, <2>3 DEF Entry
    <2>5. /\ \A w \in Workers : worker[w].entry.id # id
          /\ \A j \in joining : j.entry.id # id
          /\ \A x \in Queued(e) : x.id # id
      <3>1. id \notin UsedIDs
        BY <2>1 DEF FreshIDs
      <3>2. \A i \in DOMAIN queue[e] : queue[e][i].id \in UsedIDs
        BY DEF UsedIDs
      <3>3. \A x \in Queued(e) : x.id \in UsedIDs
        BY <3>2 DEF Queued, Range
      <3> QED BY <3>1, <3>3 DEF UsedIDs
    <2>6. \A d \in Events : SameService(d)
      BY <2>2, UnchangedService
    <2>7. \A d \in Events \ {e} : QueueSound(d)'
      BY <1>0, <2>2, <2>4, <2>6, UntouchedEvent
    <2>8. /\ Queued(e)' = Queued(e) /\ InOrder(queue[e])'
          /\ InFlight(e)' = InFlight(e) /\ Standers(e)' = Standers(e)
      BY <1>0, <2>2 DEF Queued, Range, InOrder, QueueSound, InFlight, Standers, Serves
    <2>9. ApartIn(e)'
      <3>1. ApartIn(e)
        BY <1>0 DEF QueueSound
      <3>2. \A w \in Workers : Serves(w, e)' <=> Serves(w, e)
        BY <2>2 DEF Serves
      <3> QED BY <2>2, <2>4, <2>5, <2>8, <3>1, <3>2 DEF ApartIn
    <2>10. KeptIn(e)'
      BY <1>0, <2>8 DEF KeptIn, QueueSound
    <2> QED BY <2>7, <2>8, <2>9, <2>10 DEF QueueSound
  <1>2. ASSUME NEW e \in Events, NEW u \in Users, Leave(e, u)
        PROVE  \A d \in Events : QueueSound(d)'
    <2>1. /\ UNCHANGED <<joining, worker>>
          /\ queue'[e] = LeaveQueue(queue[e], u)
          /\ standing'[e] = {x \in standing[e] : x.user # u}
          /\ \A d \in Events \ {e} : queue'[d] = queue[d]
                                     /\ standing'[d] = standing[d]
      BY <1>0, <1>2 DEF Leave, HandoffTypeOK
    <2>2. \A d \in Events : SameService(d)
      BY <2>1, UnchangedService
    <2>3. \A d \in Events \ {e} : QueueSound(d)'
      BY <1>0, <2>1, <2>2, UntouchedEvent
    <2>4. CASE IsWaiting(queue[e], u)
      <3>1. PICK i : i \in DOMAIN queue[e] /\ queue[e][i].user = u
                     /\ queue'[e] = RemoveAt(queue[e], i)
        BY <2>1, <2>4 DEF IsWaiting, Position, LeaveQueue
      <3>2. PICK y : y = queue[e][i]
        OBVIOUS
      <3>3. y \in Queued(e) /\ Queued(e)' = Queued(e) \ {y} /\ InOrder(queue[e])'
        BY <3>1, <3>2, EntryTaken
      <3>4. /\ \A j \in joining' : j \in joining
            /\ \A v \in Workers : Serves(v, e)' <=> Serves(v, e)
            /\ \A v \in Workers : worker'[v] = worker[v]
            /\ \A z \in standing'[e] : z \in standing[e]
            /\ \A z \in standing'[e] : z.user # y.user
        BY <2>1, <3>1, <3>2 DEF Serves
      <3>5. QueueSound(e)'
        BY <3>3, <3>4, ShorterQueue
      <3> QED BY <2>3, <3>5
    <2>5. CASE ~IsWaiting(queue[e], u)
      <3>1. queue'[e] = queue[e]
        BY <2>1, <2>5 DEF LeaveQueue
      <3>2. Queued(e)' = Queued(e) /\ InOrder(queue[e])'
        BY <1>0, <3>1 DEF Queued, Range, InOrder, QueueSound
      <3>3. ApartIn(e)'
        BY <1>0, <2>1, <2>2, <3>2 DEF QueueSound, ApartIn, SameService
      <3>4. InFlight(e)' = InFlight(e) /\ Standers(e)' \subseteq Standers(e)
        BY <2>1 DEF InFlight, Serves, Standers
      <3>5. KeptIn(e)'
        BY <1>0, <3>2, <3>4 DEF KeptIn, QueueSound
      <3> QED BY <2>3, <3>2, <3>3, <3>5 DEF QueueSound
    <2> QED BY <2>4, <2>5
  <1>3. ASSUME NEW j \in joining, FinishJoin(j)
        PROVE  \A d \in Events : QueueSound(d)'
    <2>1. j.event \in Events /\ j.entry \in EntryState
      BY <1>0 DEF HandoffTypeOK
    <2>2. PICK e \in Events : e = j.event
      BY <2>1
    <2>3. PICK x \in EntryState : x = j.entry
      BY <2>1
    <2>4. /\ joining' = joining \ {j} /\ UNCHANGED worker
          /\ queue'[e] = JoinQueue(queue[e], x)
          /\ \A d \in Events \ {e} : queue'[d] = queue[d]
      BY <1>0, <1>3, <2>2, <2>3 DEF FinishJoin, HandoffTypeOK
    <2>5. /\ \A y \in standing'[e] : y \in standing[e] \/ y.user = x.user
          /\ \A d \in Events \ {e} : standing'[d] = standing[d]
      <3>1. \/ standing' = standing
            \/ standing' = [standing EXCEPT ![e] =
                              standing[e] \cup {Standing(x.user, x.joinedAt)}]
        BY <1>3, <2>2, <2>3 DEF FinishJoin
      <3> QED BY <1>0, <3>1 DEF HandoffTypeOK, Standing
    <2>6. \A d \in Events : SameService(d)
      BY <2>4, UnchangedService
    <2>7. \A d \in Events \ {e} : QueueSound(d)'
      BY <1>0, <2>4, <2>5, <2>6, UntouchedEvent
    <2>8. ApartIn(e)
      BY <1>0 DEF QueueSound
    <2>9. /\ \A y \in Queued(e) : y.id # x.id
          /\ \A k \in joining' : k \in joining
          /\ \A k \in joining' : k.event = e => k.entry.id # x.id
      BY <2>2, <2>3, <2>4, <2>8 DEF ApartIn
    <2>10. /\ \A v \in Workers : Serves(v, e)' =>
                /\ Serves(v, e) /\ worker'[v] = worker[v]
                /\ worker[v].entry.id # x.id
           /\ \A v \in Workers : Serves(v, e) =>
                \/ Serves(v, e)' /\ worker'[v] = worker[v]
                \/ worker[v].entry = x
      BY <2>2, <2>3, <2>4, <2>6, <2>8 DEF ApartIn, SameService
    <2>11. queue'[e] = IF IsWaiting(queue[e], x.user) THEN queue[e]
                       ELSE InsertInOrder(queue[e], x)
      BY <2>4 DEF JoinQueue
    <2>12. QueueSound(e)'
      BY <2>5, <2>9, <2>10, <2>11, LongerQueue
    <2> QED BY <2>7, <2>12
  <1>4. ASSUME NEW j \in joining, JoinFails(j)
        PROVE  \A d \in Events : QueueSound(d)'
    BY <1>4, QuietStep, UnchangedService DEF JoinFails
  <1> QED BY <1>1, <1>2, <1>3, <1>4 DEF QueueStep

LEMMA WithdrawKeepsOrder ==
    ASSUME HandoffInv, NEW e \in Events, WithdrawStep(e)
    PROVE  \A d \in Events : QueueSound(d)'
  <1>0. HandoffTypeOK /\ \A d \in Events : QueueSound(d)
    BY SoundIsEveryEvent DEF HandoffInv
  <1>1. UNCHANGED <<joining, worker>>
    BY DEF WithdrawStep, Withdraw, WithdrawList, WithdrawDrain, WithdrawNotify,
           WithdrawEnqueue, WithdrawFails
  <1>2. CASE UNCHANGED <<queue, standing>>
    BY <1>1, <1>2, QuietStep, UnchangedService
  <1>3. CASE /\ queue' = [queue EXCEPT ![e] = <<>>]
             /\ standing' = [standing EXCEPT ![e] =
                               {x \in standing[e] : ~IsWaiting(queue[e], x.user)}]
    <2>1. /\ queue'[e] = <<>>
          /\ standing'[e] = {x \in standing[e] : ~IsWaiting(queue[e], x.user)}
          /\ \A d \in Events \ {e} : queue'[d] = queue[d]
                                     /\ standing'[d] = standing[d]
      BY <1>0, <1>3 DEF HandoffTypeOK
    <2>2. QueueSound(e)'
      BY <1>1, <2>1, EmptiedQueue
    <2>3. \A d \in Events \ {e} : QueueSound(d)'
      BY <1>0, <1>1, <2>1, UnchangedService, UntouchedEvent
    <2> QED BY <2>2, <2>3
  <1> QED BY <1>2, <1>3
          DEF WithdrawStep, Withdraw, WithdrawList, WithdrawDrain,
              WithdrawNotify, WithdrawEnqueue, WithdrawFails

LEMMA OtherKeepsOrder ==
    ASSUME HandoffInv, SweepStep \/ OtherStep
    PROVE  \A e \in Events : QueueSound(e)'
  <1>1. CASE UNCHANGED <<queue, standing, joining, worker>>
    BY <1>1, QuietStep, UnchangedService
  <1>2. CASE HandoffCrash
    <2> TAKE e \in Events
    <2>0. HandoffTypeOK /\ QueueSound(e)
      BY SoundIsEveryEvent DEF HandoffInv
    <2>1. Queued(e)' = Queued(e) /\ InOrder(queue[e])'
      BY <1>2, <2>0 DEF HandoffCrash, Queued, Range, InOrder, QueueSound
    <2>2. \A w \in Workers : ~Serves(w, e)'
      BY <1>2 DEF HandoffCrash, Serves, IdleWorker
    <2>3. ApartIn(e)'
      BY <1>2, <2>0, <2>1, <2>2 DEF HandoffCrash, ApartIn, QueueSound
    <2>4. standing'[e] = {x \in standing[e] : IsWaiting(queue[e], x.user)}
      BY <1>2 DEF HandoffCrash
    <2>5. \A x \in standing'[e] : \E y \in Queued(e)' : y.user = x.user
      <3> TAKE x \in standing'[e]
      <3>1. PICK u : u = x.user
        OBVIOUS
      <3>2. IsWaiting(queue[e], u)
        BY <2>4, <3>1
      <3>3. \E y \in Queued(e) : y.user = u
        BY <3>2, WaitingIsQueued
      <3> QED BY <2>1, <3>1, <3>3
    <2>6. KeptIn(e)'
      BY <2>5 DEF KeptIn, Standers
    <2> QED BY <2>1, <2>3, <2>6 DEF QueueSound
  <1> QED BY <1>1, <1>2
          DEF SweepStep, OtherStep, Offer, Shutdown, handoffVars

-----------------------------------------------------------------------------
(* Theorems *)

LEMMA HandoffInitInv == HandoffInit => HandoffInv
  <1> SUFFICES ASSUME HandoffInit PROVE HandoffInv
    OBVIOUS
  <1>1. Inv
    BY InitInv DEF HandoffInit
  <1>2. EarlyEntries \subseteq EntryState
    BY HandoffAssumption DEF EarlyEntries, EntryState
  <1>3. queue \in [Events -> Seq(EntryState)]
    <2>1. \A x \in EarlyEntries : <<x>> \in Seq(EntryState)
      BY <1>2
    <2>2. <<>> \in Seq(EntryState)
      OBVIOUS
    <2> QED BY <2>1, <2>2 DEF HandoffInit
  <1>4. standing \in [Events -> SUBSET [user: Users, since: Nat]]
    <2>1. \A e \in Events : \A i \in DOMAIN queue[e] :
            queue[e][i].user \in Users
      <3> TAKE e \in Events
      <3> TAKE i \in DOMAIN queue[e]
      <3>1. queue[e][i] \in EntryState
        BY <1>3
      <3> QED BY <3>1 DEF EntryState
    <2> QED BY <2>1 DEF HandoffInit, Standing
  <1>5. WorkersKnowTheirTask /\ worker \in [Workers -> WorkerState]
    BY DEF HandoffInit, WorkersKnowTheirTask, IdleWorker, WorkerState
  <1>6. freed \in Seq(Seats) /\ closing \in [Events -> ClosingState]
    BY DEF HandoffInit, ClosingState
  <1>7. ASSUME NEW e \in Events PROVE QueueSound(e)
    <2>1. InOrder(queue[e]) /\ \A x, y \in Queued(e) : x = y
      <3>1. queue[e] = <<>> \/ \E x \in EarlyEntries : queue[e] = <<x>>
        BY DEF HandoffInit
      <3>2. \A i, k \in DOMAIN queue[e] : i = k
        BY <3>1
      <3> QED BY <1>3, <3>2 DEF InOrder, Queued, Range
    <2>2. joining = {} /\ \A w \in Workers : ~Serves(w, e)
      BY DEF HandoffInit, Serves, IdleWorker
    <2>3. ApartIn(e)
      BY <2>1, <2>2 DEF ApartIn
    <2>4. KeptIn(e)
      <3>1. standing[e] = {Standing(queue[e][i].user, 0) : i \in DOMAIN queue[e]}
        BY DEF HandoffInit
      <3> QED BY <3>1 DEF KeptIn, Standers, Standing, Queued, Range
    <2> QED BY <2>1, <2>3, <2>4 DEF QueueSound
  <1>8. HandoffTypeOK
    BY <1>3, <1>4, <1>5, <1>6 DEF HandoffTypeOK, HandoffInit
  <1> QED BY <1>1, <1>5, <1>7, <1>8, SoundIsEveryEvent DEF HandoffInv

LEMMA HandoffNextInv == HandoffInv /\ [HandoffNext]_allVars => HandoffInv'
  <1> SUFFICES ASSUME HandoffInv, [HandoffNext]_allVars PROVE HandoffInv'
    OBVIOUS
  <1>1. Inv'
    BY StepIsReservationStep, NextInv DEF HandoffInv
  <1>2. HandoffTypeOK' /\ WorkersKnowTheirTask'
    <2>1. CASE UNCHANGED allVars
      BY <2>1, UnchangedKeepsTypes DEF allVars, HandoffInv
    <2>2. CASE HandoffNext
      BY <2>2, ClientKeepsTypes, WorkerKeepsTypes, QueueStepKeepsTypes,
         WithdrawKeepsTypes, OtherKeepsTypes DEF HandoffNext
    <2> QED BY <2>1, <2>2
  <1>3. \A e \in Events : QueueSound(e)'
    <2>1. CASE UNCHANGED allVars
      BY <2>1, QuietStep, UnchangedService DEF allVars, handoffVars
    <2>2. CASE HandoffNext
      BY <2>2, ClientKeepsOrder, WorkerKeepsOrder, QueueStepKeepsOrder,
         WithdrawKeepsOrder, OtherKeepsOrder DEF HandoffNext
    <2> QED BY <2>1, <2>2
  <1> QED BY <1>1, <1>2, <1>3, SoundIsEveryEvent DEF HandoffInv

(* The invariant of the composition holds in every reachable state. *)
THEOREM HandoffInvHolds == HandoffSpec => []HandoffInv
  BY HandoffInitInv, HandoffNextInv, PTL DEF HandoffSpec

(* The variables of the waiting list, the workers and the withdrawals have  *)
(* their types: among others, a worker that calls HoldSeat has a seat and a *)
(* user to call it with, and every notice is for a user.                    *)
THEOREM HandoffTypeCorrect == HandoffSpec => []HandoffTypeOK
  BY HandoffInvHolds, PTL DEF HandoffInv

(* Every queue stands in the order people joined it, and nobody is in it    *)
(* twice: a waiter who is put back after a failed hold returns to the place *)
(* they had, however many people, events and workers there are and however  *)
(* joins, returns, failures and crashes interleave.                         *)
THEOREM QueuesStayInOrder == HandoffSpec => []QueueInOrder
  <1>1. HandoffInv => QueueInOrder
    BY DEF HandoffInv
  <1> QED BY <1>1, HandoffInvHolds, PTL

(* Nobody who is owed a turn is forgotten: they are in the queue or with a  *)
(* worker, through failed holds, withdrawals and a shutdown in the middle   *)
(* of an offer.                                                             *)
THEOREM NobodyIsLost == HandoffSpec => []NobodyLost
  <1>1. HandoffInv => NobodyLost
    BY DEF HandoffInv
  <1> QED BY <1>1, HandoffInvHolds, PTL

(* The handoff's workers, the waiting list and the withdrawal of events do  *)
(* nothing to seats that the requests, the sweeper and the administrator of *)
(* Reservation could not do.                                                *)
THEOREM HandoffImplementsReservation == HandoffSpec => Spec
  <1>1. HandoffInit => Init
    BY DEF HandoffInit
  <1>2. HandoffInv /\ [HandoffNext]_allVars => [Next]_vars
    BY StepIsReservationStep DEF HandoffInv
  <1> QED BY <1>1, <1>2, HandoffInvHolds, PTL DEF HandoffSpec, Spec

(* So a sold seat stays sold, a live hold is its holder's and a sale is     *)
(* earned with the handoff running too, a hold that ended never comes back, *)
(* the store keeps its schema and whoever was told of a sale owns the seat. *)
THEOREM HandoffKeepsPromises ==
    HandoffSpec =>
        /\ TicketIsForever /\ LiveHoldIsProtected
        /\ SaleIsEarned /\ SpentHoldsStaySpent
        /\ []SeatsWellFormed /\ []ConfirmedMeansOwned
  BY HandoffImplementsReservation, TicketsAreForever, LiveHoldsAreProtected,
     SalesAreEarned, SpentHoldsAreGone, StoreStaysWellFormed,
     ConfirmationsAreTrue, PTL
=============================================================================
