----------------------------- MODULE DataProofs -----------------------------
(***************************************************************************)
(* Theorems about the auction queue and about signatures.                  *)
(*                                                                         *)
(* AuctionHeap, for every set of RFQs and end times: as long as no push and *)
(* pop overlap, the slice that container/heap works on holds exactly the   *)
(* auctions that are open, and a pop returns the one that ends first.      *)
(* TxSigning: a signature verifies after any number of encodings.          *)
(***************************************************************************)
EXTENDS AuctionHeap, TxSigning, SequenceTheorems, FiniteSetTheorems, TLAPS

----------------------------------------------------------------------------
(* AuctionHeap: the queue between the steps of an operation *)

EndOf(q, k) == RFQEndTime[q[k]]

\* The first n cells of q hold the elements of S, each once.
Holds(q, n, S) ==
  /\ \A k \in 1..n : q[k] \in S
  /\ \A k, l \in 1..n : q[k] = q[l] => k = l
  /\ \A y \in S : \E k \in 1..n : q[k] = y

\* No element of the first n but j ends before its parent.
OrderedBut(q, n, j) == \A c \in 2..n : c # j => EndOf(q, Parent(c)) <= EndOf(q, c)

\* In up: the element j may have to move up, its children need not.
UpOrder(q, n, j) ==
  /\ j \in 1..n /\ OrderedBut(q, n, j)
  /\ j > 1 => \A c \in 2..n : Parent(c) = j => EndOf(q, Parent(j)) <= EndOf(q, c)

\* In down: the element i may have to move down, its children need not move up.
DownOrder(q, n, i) ==
  /\ i >= 1
  /\ \A c \in 2..n : Parent(c) # i => EndOf(q, Parent(c)) <= EndOf(q, c)
  /\ i > 1 => \A c \in 2..n : Parent(c) = i => EndOf(q, Parent(i)) <= EndOf(q, c)

\* The element k is due at time t, and no other of the first n ends earlier.
First(q, n, k, t) == EndOf(q, k) <= t /\ \A c \in 1..n : EndOf(q, k) <= EndOf(q, c)

PushPlace == {"idle", "append", "last", "up", "swap"}

PopPlace == {"idle", "first", "down", "swap", "take", "store"}

Goroutine(place) ==
  [at : place, i : Nat, n : Nat, old : [arr : Nat, len : Nat], x : RFQ \cup {Unset}]

HeapTypes ==
  /\ mem \in Seq(Seq(RFQ \cup {Unset}))
  /\ aq \in [arr : Nat, len : Nat] /\ aq.arr \in DOMAIN mem /\ aq.len <= Len(mem[aq.arr])
  /\ push \in Goroutine(PushPlace) /\ pop \in Goroutine(PopPlace)
  /\ clock \in Nat /\ pushed \subseteq RFQ /\ popped \in Seq(RFQ) /\ Popped \subseteq pushed

Queue == mem[aq.arr]

Left == pushed \ Popped

QueueContent ==
  IF push.at = "append" THEN push.x \in Left /\ Holds(Queue, aq.len, Left \ {push.x})
  ELSE Holds(Queue, aq.len, Left)

QueueOrder ==
  /\ push.at \in {"idle", "append"} /\ pop.at \in {"idle", "first"} => OrderedBut(Queue, aq.len, 1)
  /\ push.at = "append" => push.old = aq
  /\ push.at = "last" => aq.len >= 1 /\ OrderedBut(Queue, aq.len, aq.len)
  /\ push.at \in {"up", "swap"} => UpOrder(Queue, aq.len, push.i)
  /\ push.at = "swap" => push.i > 1 /\ EndOf(Queue, push.i) < EndOf(Queue, Parent(push.i))
  /\ pop.at # "idle" => aq.len >= 1
  /\ pop.at \in {"first", "down", "swap"} => pop.n = aq.len
  /\ pop.at = "first" => EndOf(Queue, 1) <= clock
  /\ pop.at \in {"down", "swap", "take", "store"} => First(Queue, aq.len, aq.len, clock)
  /\ pop.at \in {"down", "swap"} => DownOrder(Queue, aq.len - 1, pop.i)
  /\ pop.at = "swap" => /\ pop.old.len \in 2..(aq.len - 1) /\ Parent(pop.old.len) = pop.i
                        /\ EndOf(Queue, pop.old.len) < EndOf(Queue, pop.i)
                        /\ \A c \in 2..(aq.len - 1) :
                             Parent(c) = pop.i => EndOf(Queue, pop.old.len) <= EndOf(Queue, c)
  /\ pop.at \in {"take", "store"} => OrderedBut(Queue, aq.len - 1, 1)
  /\ pop.at = "store" => pop.old = aq /\ pop.x = Queue[aq.len]

\* While no push and pop have overlapped, one goroutine at a time is in the
\* queue and none has left its bounds.
QueueInv ==
  /\ HeapTypes /\ ~ panicked /\ (push.at = "idle" \/ pop.at = "idle")
  /\ QueueContent /\ QueueOrder

HeapInv == ~ overlapped => QueueInv

LEMMA ParentIsBefore == \A c \in Nat : c > 1 => Parent(c) \in Nat /\ 1 <= Parent(c) /\ Parent(c) < c
BY DEF Parent

LEMMA KeyType ==
  ASSUME NEW q, NEW n \in Nat, NEW S \in SUBSET RFQ, Holds(q, n, S)
  PROVE  \A k \in 1..n : q[k] \in RFQ /\ EndOf(q, k) \in Nat
BY EndTimeAssumption DEF Holds, EndOf, Time

\* q2 is q with two elements exchanged, as AuctionQueue.Swap leaves it.
Exchanged(q, q2, n, i, j) ==
  /\ q2[i] = q[j] /\ q2[j] = q[i]
  /\ \A k \in 1..n : k # i /\ k # j => q2[k] = q[k]

LEMMA ExchangeHolds ==
  ASSUME NEW q, NEW q2, NEW n \in Nat, NEW S, Holds(q, n, S),
         NEW i \in 1..n, NEW j \in 1..n, Exchanged(q, q2, n, i, j)
  PROVE  Holds(q2, n, S)
<1>1. \A k \in 1..n : q2[k] \in S
  BY DEF Holds, Exchanged
<1>2. \A k, l \in 1..n : q2[k] = q2[l] => k = l
  BY DEF Holds, Exchanged
<1>3. ASSUME NEW y \in S PROVE \E k \in 1..n : q2[k] = y
  <2>1. PICK k \in 1..n : q[k] = y
    BY DEF Holds
  <2>2. CASE k = i
    BY <2>1, <2>2 DEF Exchanged
  <2>3. CASE k = j
    BY <2>1, <2>3 DEF Exchanged
  <2>4. CASE k # i /\ k # j
    BY <2>1, <2>4 DEF Exchanged
  <2>5. QED
    BY <2>2, <2>3, <2>4
<1>4. QED
  BY <1>1, <1>2, <1>3 DEF Holds

LEMMA AppendHolds ==
  ASSUME NEW q, NEW q2, NEW n \in Nat, NEW S, NEW x \in S, Holds(q, n, S \ {x}),
         \A k \in 1..n : q2[k] = q[k], q2[n + 1] = x
  PROVE  Holds(q2, n + 1, S)
<1>1. \A k \in 1..(n + 1) : q2[k] \in S
  BY DEF Holds
<1>2. \A k, l \in 1..(n + 1) : q2[k] = q2[l] => k = l
  BY DEF Holds
<1>3. ASSUME NEW y \in S PROVE \E k \in 1..(n + 1) : q2[k] = y
  <2>1. CASE y = x
    BY <2>1
  <2>2. CASE y # x
    <3>1. PICK k \in 1..n : q[k] = y
      BY <2>2 DEF Holds
    <3>2. QED
      BY <3>1
  <2>3. QED
    BY <2>1, <2>2
<1>4. QED
  BY <1>1, <1>2, <1>3 DEF Holds

LEMMA CutHolds ==
  ASSUME NEW q, NEW n \in Nat, n >= 1, NEW S, Holds(q, n, S)
  PROVE  Holds(q, n - 1, S \ {q[n]})
<1>1. n - 1 \in Nat /\ 1..(n - 1) \subseteq 1..n /\ n \in 1..n /\ n \notin 1..(n - 1)
  OBVIOUS
<1>2. \A k \in 1..n : k = n \/ k \in 1..(n - 1)
  OBVIOUS
<1>3. QED
  BY <1>1, <1>2 DEF Holds

\* Between operations the first element ends first: the least index whose
\* element ends before it would have a parent that does, too.
LEMMA RootIsFirst ==
  ASSUME NEW q, NEW n \in Nat, NEW S \in SUBSET RFQ, Holds(q, n, S),
         OrderedBut(q, n, 1), NEW c \in 1..n
  PROVE  EndOf(q, 1) <= EndOf(q, c)
<1> DEFINE Bad == {k \in 1..n : EndOf(q, k) < EndOf(q, 1)}
<1>1. \A k \in 1..n : EndOf(q, k) \in Nat
  BY KeyType, Zenon
<1>2. SUFFICES ASSUME c \in Bad PROVE FALSE
  BY <1>1
<1>3. PICK k \in Bad : \A l \in Bad : k <= l
  <2>1. Bad \subseteq Nat /\ Bad # {}
    BY <1>2
  <2> HIDE DEF Bad
  <2>2. PICK k \in Bad : \A l \in Bad : ~ (<<l, k>> \in OpToRel(<, Nat))
    BY <2>1, NatLessThanWellFounded, WFMin, Zenon
  <2>3. \A l \in Bad : ~ (l < k)
    BY <2>1, <2>2, Zenon DEF OpToRel
  <2>4. QED
    BY <2>1, <2>3
<1>4. k \in 2..n
  BY <1>1, <1>3
<1>5. Parent(k) \in 1..n /\ Parent(k) < k
  BY <1>4, ParentIsBefore
<1>6. EndOf(q, Parent(k)) <= EndOf(q, k)
  BY <1>4 DEF OrderedBut
<1>7. Parent(k) \in Bad
  BY <1>1, <1>3, <1>4, <1>5, <1>6
<1>8. QED
  BY <1>3, <1>4, <1>5, <1>7

LEMMA UpExchange ==
  ASSUME NEW q, NEW q2, NEW n \in Nat, NEW S \in SUBSET RFQ, Holds(q, n, S),
         NEW j \in 2..n, UpOrder(q, n, j), EndOf(q, j) < EndOf(q, Parent(j)),
         Exchanged(q, q2, n, Parent(j), j)
  PROVE  UpOrder(q2, n, Parent(j))
<1>1. \A k \in 1..n : EndOf(q, k) \in Nat
  BY KeyType, Zenon
<1>2. PICK p \in 1..n : p = Parent(j) /\ p < j
  BY ParentIsBefore
<1>3. /\ EndOf(q2, p) = EndOf(q, j) /\ EndOf(q2, j) = EndOf(q, p)
      /\ \A k \in 1..n : k # p /\ k # j => EndOf(q2, k) = EndOf(q, k)
  BY <1>2 DEF EndOf, Exchanged
<1>4. \A c \in 2..n : c # j => EndOf(q, Parent(c)) <= EndOf(q, c)
  BY DEF UpOrder, OrderedBut
<1>5. \A c \in 2..n : Parent(c) = j => EndOf(q, p) <= EndOf(q, c)
  BY <1>2 DEF UpOrder
<1>6. \A c \in 2..n : Parent(c) \in 1..n /\ Parent(c) < c
  BY ParentIsBefore
<1>7. ASSUME NEW c \in 2..n, c # p PROVE EndOf(q2, Parent(c)) <= EndOf(q2, c)
  BY <1>1, <1>2, <1>3, <1>4, <1>5, <1>6, <1>7
<1>8. ASSUME p > 1, NEW c \in 2..n, Parent(c) = p PROVE EndOf(q2, Parent(p)) <= EndOf(q2, c)
  <2>1. EndOf(q2, Parent(p)) = EndOf(q, Parent(p)) /\ EndOf(q, Parent(p)) <= EndOf(q, p)
    BY <1>2, <1>3, <1>4, <1>6, <1>8
  <2>2. EndOf(q, p) <= EndOf(q2, c)
    BY <1>1, <1>2, <1>3, <1>4, <1>6, <1>8
  <2>3. EndOf(q, Parent(p)) \in Nat /\ EndOf(q, p) \in Nat /\ EndOf(q2, c) \in Nat
    BY <1>1, <1>2, <1>3, <1>6, <1>8
  <2>4. QED
    BY <2>1, <2>2, <2>3
<1>9. QED
  BY <1>2, <1>7, <1>8 DEF UpOrder, OrderedBut

LEMMA DownExchange ==
  ASSUME NEW q, NEW q2, NEW n \in Nat, NEW S \in SUBSET RFQ, Holds(q, n, S),
         NEW m \in Nat, m <= n, NEW i \in 1..m, NEW j \in 2..m, Parent(j) = i,
         DownOrder(q, m, i), EndOf(q, j) < EndOf(q, i),
         \A c \in 2..m : Parent(c) = i => EndOf(q, j) <= EndOf(q, c),
         Exchanged(q, q2, n, i, j)
  PROVE  DownOrder(q2, m, j)
<1>1. \A k \in 1..m : EndOf(q, k) \in Nat
  <2>1. \A k \in 1..n : EndOf(q, k) \in Nat
    BY KeyType, Zenon
  <2>2. QED
    BY <2>1
<1>2. /\ EndOf(q2, i) = EndOf(q, j) /\ EndOf(q2, j) = EndOf(q, i)
      /\ \A k \in 1..m : k # i /\ k # j => EndOf(q2, k) = EndOf(q, k)
  BY DEF EndOf, Exchanged
<1>3. \A c \in 2..m : Parent(c) # i => EndOf(q, Parent(c)) <= EndOf(q, c)
  BY DEF DownOrder
<1>4. i > 1 => EndOf(q, Parent(i)) <= EndOf(q, j)
  BY DEF DownOrder
<1>5. \A c \in 2..m : Parent(c) \in 1..m /\ Parent(c) < c
  BY ParentIsBefore
<1>6. ASSUME NEW c \in 2..m, Parent(c) # j PROVE EndOf(q2, Parent(c)) <= EndOf(q2, c)
  <2>1. CASE c = i
    BY <1>1, <1>2, <1>4, <1>5, <1>6, <2>1
  <2>2. CASE c # i /\ Parent(c) = i
    BY <1>1, <1>2, <1>5, <1>6, <2>2
  <2>3. CASE c # i /\ Parent(c) # i
    BY <1>1, <1>2, <1>3, <1>5, <1>6, <2>3
  <2>4. QED
    BY <2>1, <2>2, <2>3
<1>7. ASSUME NEW c \in 2..m, Parent(c) = j PROVE EndOf(q2, Parent(j)) <= EndOf(q2, c)
  BY <1>1, <1>2, <1>3, <1>5, <1>7
<1>8. QED
  BY <1>6, <1>7 DEF DownOrder

LEMMA InitQueueInv == HeapInit => QueueInv
<1> SUFFICES ASSUME HeapInit PROVE QueueInv
  OBVIOUS
<1>1. mem = << << >> >> /\ aq = [arr |-> 1, len |-> 0] /\ push = Idle /\ pop = Idle
  BY DEF HeapInit
<1>2. aq.arr = 1 /\ aq.len = 0 /\ Queue = << >> /\ push.at = "idle" /\ pop.at = "idle"
  BY <1>1 DEF Queue, Idle
<1>3. clock = 0 /\ pushed = {} /\ popped = << >> /\ Popped = {}
  BY DEF HeapInit, Popped
<1>4. ~ panicked
  BY Zenon DEF HeapInit
<1>5. HeapTypes
  <2>1. push \in Goroutine(PushPlace) /\ pop \in Goroutine(PopPlace)
    BY <1>1 DEF Idle, Goroutine, PushPlace, PopPlace
  <2>2. mem \in Seq(Seq(RFQ \cup {Unset})) /\ 1 \in DOMAIN mem /\ Len(mem[1]) = 0
    BY <1>1
  <2>3. aq \in [arr : Nat, len : Nat]
    BY <1>1
  <2>4. QED
    BY <2>1, <2>2, <2>3, <1>2, <1>3 DEF HeapTypes
<1>6. QueueContent
  BY <1>2, <1>3 DEF QueueContent, Holds, Left
<1>7. QueueOrder
  BY <1>2 DEF QueueOrder, OrderedBut
<1>8. QED
  BY <1>2, <1>4, <1>5, <1>6, <1>7 DEF QueueInv

\* Where a goroutine is, and what it keeps, after it has moved on.
LEMMA Places ==
  /\ "append" \in PushPlace /\ "last" \in PushPlace /\ "up" \in PushPlace /\ "swap" \in PushPlace
  /\ "first" \in PopPlace /\ "down" \in PopPlace /\ "swap" \in PopPlace
  /\ "take" \in PopPlace /\ "store" \in PopPlace
BY DEF PushPlace, PopPlace

LEMMA IdleType ==
  /\ Idle \in Goroutine(PushPlace) /\ Idle \in Goroutine(PopPlace) /\ Idle.at = "idle"
BY DEF Idle, Goroutine, PushPlace, PopPlace

\* A push that begins while no pop is under way.
LEMMA PushLoadStep ==
  ASSUME QueueInv, NEW x \in RFQ \ pushed, PushLoad(x), ~ overlapped'
  PROVE  QueueInv'
<1>1. /\ push.at = "idle" /\ pop' = pop /\ clock' = clock /\ popped' = popped
      /\ mem' = mem /\ aq' = aq /\ pushed' = pushed \cup {x}
      /\ push' = [Idle EXCEPT !.at = "append", !.old = aq, !.x = x]
  BY DEF PushLoad, PushStep
<1>2. ~ panicked'
  BY Zenon DEF PushLoad, QueueInv
<1>3. push'.at = "append" /\ push'.old = aq /\ push'.x = x
  BY <1>1 DEF Idle
<1>4. push' \in Goroutine(PushPlace)
  <2>1. aq \in [arr : Nat, len : Nat]
    BY DEF QueueInv, HeapTypes
  <2>2. QED
    BY <1>1, <2>1, Zenon DEF Idle, Goroutine, PushPlace
<1>5. pop'.at = "idle"
  BY <1>1, <1>3, Zenon DEF PushLoad, PushStep, Note
<1>6. Queue' = Queue /\ Popped' = Popped /\ Left' = Left \cup {x} /\ Left' \ {x} = Left /\ x \in Left'
  BY <1>1, Zenon DEF Queue, Popped, Left, QueueInv, HeapTypes
<1>7. HeapTypes'
  BY <1>1, <1>4, <1>6 DEF QueueInv, HeapTypes
<1>8. QueueContent'
  BY <1>1, <1>3, <1>6 DEF QueueInv, QueueContent
<1>9. QueueOrder'
  BY <1>1, <1>3, <1>5, <1>6 DEF QueueInv, QueueOrder
<1>10. QED
  BY <1>2, <1>5, <1>7, <1>8, <1>9 DEF QueueInv

\* append in a full array, and in one with room.
LEMMA GrownArray ==
  ASSUME NEW C, NEW cells \in Seq(C), NEW x \in C, NEW pad \in Seq(C)
  PROVE  \A r : r = cells \o <<x>> \o pad =>
           /\ r \in Seq(C) /\ Len(r) >= Len(cells) + 1 /\ r[Len(cells) + 1] = x
           /\ \A k \in 1..Len(cells) : r[k] = cells[k]
<1>1. PICK o \in Seq(C) : o = cells \o <<x>>
  <2>1. cells \o <<x>> \in Seq(C)
    OBVIOUS
  <2>2. QED
    BY <2>1, Zenon
<1>2. Len(o) = Len(cells) + 1 /\ o[Len(cells) + 1] = x /\ \A k \in 1..Len(cells) : o[k] = cells[k]
  BY <1>1
<1>3. o \o pad \in Seq(C) /\ Len(o \o pad) = Len(o) + Len(pad) /\ \A k \in 1..Len(o) : (o \o pad)[k] = o[k]
  OBVIOUS
<1>4. QED
  BY <1>1, <1>2, <1>3

LEMMA PaddingType ==
  ASSUME NEW C, NEW u \in C, NEW n \in Nat
  PROVE  [c \in 1..(n - 1) |-> u] \in Seq(C)
<1>1. CASE n = 0
  <2>1. 1..(n - 1) = 1..0
    BY <1>1
  <2>2. [c \in 1..(n - 1) |-> u] = [c \in 1..0 |-> u]
    BY <2>1, Zenon
  <2>3. QED
    BY <2>2
<1>2. CASE n # 0
  BY <1>2
<1>3. QED
  BY <1>1, <1>2

LEMMA WrittenArray ==
  ASSUME NEW C, NEW m \in Seq(Seq(C)), NEW a \in DOMAIN m, NEW i \in 1..Len(m[a]), NEW x \in C,
         NEW r, r = [m EXCEPT ![a][i] = x]
  PROVE  /\ r \in Seq(Seq(C)) /\ r[a] = [m[a] EXCEPT ![i] = x]
         /\ Len(r[a]) = Len(m[a]) /\ DOMAIN r = DOMAIN m
<1>1. m[a] \in Seq(C)
  OBVIOUS
<1>2. PICK q : q = [m[a] EXCEPT ![i] = x]
  BY Zenon
<1>3. q \in Seq(C) /\ Len(q) = Len(m[a])
  BY <1>1, <1>2
<1>4. r = [m EXCEPT ![a] = q]
  BY <1>2, Zenon
<1>5. r \in Seq(Seq(C)) /\ r[a] = q /\ DOMAIN r = DOMAIN m
  BY <1>3, <1>4
<1>6. QED
  BY <1>2, <1>3, <1>5, Zenon

\* The array that AuctionQueue.Push leaves.
LEMMA StoredArray ==
  ASSUME QueueInv, PushStore
  PROVE  /\ mem' \in Seq(Seq(RFQ \cup {Unset})) /\ aq' \in [arr : Nat, len : Nat]
         /\ aq'.arr \in DOMAIN mem' /\ aq'.len = aq.len + 1 /\ aq'.len <= Len(Queue')
         /\ \A k \in 1..aq.len : Queue'[k] = Queue[k]
         /\ Queue'[aq.len + 1] = push.x
<1> DEFINE C == RFQ \cup {Unset}
<1>1. /\ mem \in Seq(Seq(C)) /\ aq.arr \in DOMAIN mem /\ aq.arr \in Nat /\ aq.len \in Nat
      /\ aq.len <= Len(mem[aq.arr])
  BY DEF QueueInv, HeapTypes
<1>2. push.old = aq /\ push.x \in C
  BY DEF QueueInv, QueueOrder, PushStore, PushStep, HeapTypes, Goroutine
<1>3. PICK cells \in Seq(C) : cells = mem[aq.arr]
  BY <1>1
<1>4. CASE aq.len = Len(cells)
  <2>1. PICK r : r = cells \o <<push.x>> \o [c \in 1..(Len(cells) - 1) |-> Unset]
    BY Zenon
  <2>2. /\ r \in Seq(C) /\ Len(r) >= Len(cells) + 1 /\ r[Len(cells) + 1] = push.x
        /\ \A k \in 1..Len(cells) : r[k] = cells[k]
    <3>1. Unset \in C /\ push.x \in C /\ Len(cells) \in Nat
      BY <1>2, <1>3
    <3> HIDE DEF C
    <3>2. PICK x \in C, pad \in Seq(C) : x = push.x /\ pad = [c \in 1..(Len(cells) - 1) |-> Unset]
      BY <3>1, PaddingType, Zenon
    <3>3. r = cells \o <<x>> \o pad
      BY <2>1, <3>2, Zenon
    <3>4. /\ r \in Seq(C) /\ Len(r) >= Len(cells) + 1 /\ r[Len(cells) + 1] = x
          /\ \A k \in 1..Len(cells) : r[k] = cells[k]
      BY <3>3, GrownArray
    <3>5. QED
      BY <3>2, <3>4, Zenon
  <2>3. mem' = Append(mem, r) /\ aq' = [arr |-> Len(mem) + 1, len |-> aq.len + 1]
    BY <1>2, <1>3, <1>4, <2>1 DEF PushStore
  <2>4. /\ mem' \in Seq(Seq(C)) /\ Len(mem) + 1 \in DOMAIN mem' /\ mem'[Len(mem) + 1] = r
    BY <1>1, <2>2, <2>3
  <2>5. aq'.arr = Len(mem) + 1 /\ aq'.len = aq.len + 1 /\ aq' \in [arr : Nat, len : Nat]
    BY <1>1, <2>3
  <2>6. Queue' = r /\ Queue = cells
    BY <1>3, <2>4, <2>5 DEF Queue
  <2>7. QED
    BY <1>4, <2>2, <2>4, <2>5, <2>6
<1>5. CASE aq.len # Len(cells)
  <2>1. mem' = [mem EXCEPT ![aq.arr][aq.len + 1] = push.x] /\ aq' = [arr |-> aq.arr, len |-> aq.len + 1]
    BY <1>2, <1>3, <1>5 DEF PushStore
  <2>2. aq.len + 1 \in 1..Len(mem[aq.arr])
    BY <1>1, <1>3, <1>5
  <2>3. /\ mem' \in Seq(Seq(C)) /\ mem'[aq.arr] = [cells EXCEPT ![aq.len + 1] = push.x]
        /\ Len(mem'[aq.arr]) = Len(cells) /\ DOMAIN mem' = DOMAIN mem
    <3>1. PICK m, m2, a, n : m = mem /\ m2 = mem' /\ a = aq.arr /\ n = aq.len + 1
      BY Zenon
    <3> HIDE DEF C
    <3>2. m2 = [m EXCEPT ![a][n] = push.x]
      BY <2>1, <3>1, Zenon
    <3>3. QED
      BY <1>1, <1>2, <1>3, <2>2, <3>1, <3>2, WrittenArray
  <2>4. aq'.arr = aq.arr /\ aq'.len = aq.len + 1 /\ aq' \in [arr : Nat, len : Nat]
    BY <1>1, <2>1
  <2>5. Queue' = [cells EXCEPT ![aq.len + 1] = push.x] /\ Queue = cells
    BY <1>3, <2>3, <2>4 DEF Queue
  <2>6. QED
    BY <1>1, <1>3, <2>2, <2>3, <2>4, <2>5
<1>6. QED
  BY <1>4, <1>5

LEMMA PushStoreStep == ASSUME QueueInv, PushStore, ~ overlapped' PROVE QueueInv'
<1>1. /\ push.at = "append" /\ pop' = pop /\ clock' = clock /\ popped' = popped
      /\ pushed' = pushed /\ push' = [push EXCEPT !.at = "last"]
  BY DEF PushStore, PushStep
<1>2. ~ panicked'
  BY Zenon DEF PushStore, QueueInv
<1>3. push \in Goroutine(PushPlace) /\ pop.at = "idle" /\ aq.len \in Nat
  BY <1>1 DEF QueueInv, HeapTypes
<1>4. push' \in Goroutine(PushPlace) /\ push'.at = "last" /\ pop'.at = "idle"
  BY <1>1, <1>3, Places, Zenon DEF Goroutine
<1>5. Popped' = Popped /\ Left' = Left
  BY <1>1, Zenon DEF Popped, Left
<1>6. HeapTypes'
  BY <1>1, <1>4, <1>5, StoredArray DEF QueueInv, HeapTypes, Queue
<1>7. QueueContent'
  <2>1. push.x \in Left /\ Holds(Queue, aq.len, Left \ {push.x})
    BY <1>1 DEF QueueInv, QueueContent
  <2>2. Holds(Queue', aq.len + 1, Left)
    BY <1>3, <2>1, StoredArray, AppendHolds, Zenon
  <2>3. QED
    BY <1>4, <1>5, <2>2, StoredArray DEF QueueContent
<1>8. QueueOrder'
  <2>1. OrderedBut(Queue, aq.len, 1)
    BY <1>1, <1>3 DEF QueueInv, QueueOrder
  <2>2. ASSUME NEW c \in 2..(aq.len + 1), c # aq.len + 1
        PROVE  EndOf(Queue', Parent(c)) <= EndOf(Queue', c)
    <3>1. c \in 2..aq.len /\ c \in Nat
      BY <1>3, <2>2
    <3>2. Parent(c) \in 1..aq.len
      BY <1>3, <3>1, ParentIsBefore
    <3>3. EndOf(Queue', Parent(c)) = EndOf(Queue, Parent(c)) /\ EndOf(Queue', c) = EndOf(Queue, c)
      BY <1>3, <3>1, <3>2, StoredArray DEF EndOf
    <3>4. QED
      BY <2>1, <3>1, <3>3 DEF OrderedBut
  <2>3. aq'.len = aq.len + 1 /\ OrderedBut(Queue', aq.len + 1, aq.len + 1)
    BY <2>2, StoredArray DEF OrderedBut
  <2>4. QED
    BY <1>3, <1>4, <2>3 DEF QueueOrder
<1>9. QED
  BY <1>2, <1>4, <1>6, <1>7, <1>8 DEF QueueInv

LEMMA PushLastStep == ASSUME QueueInv, PushLast, ~ overlapped' PROVE QueueInv'
<1>1. /\ push.at = "last" /\ pop' = pop /\ clock' = clock /\ popped' = popped
      /\ pushed' = pushed /\ mem' = mem /\ aq' = aq /\ push' = [push EXCEPT !.at = "up", !.i = aq.len]
  BY DEF PushLast, PushStep
<1>2. ~ panicked'
  BY Zenon DEF PushLast, QueueInv
<1>3. push \in Goroutine(PushPlace) /\ pop.at = "idle" /\ aq.len \in Nat
  BY <1>1 DEF QueueInv, HeapTypes
<1>4. push' \in Goroutine(PushPlace) /\ push'.at = "up" /\ push'.i = aq.len /\ pop'.at = "idle"
  BY <1>1, <1>3, Places, Zenon DEF Goroutine
<1>5. Popped' = Popped /\ Left' = Left /\ Queue' = Queue
  BY <1>1, Zenon DEF Popped, Left, Queue
<1>6. HeapTypes'
  BY <1>1, <1>4, <1>5 DEF QueueInv, HeapTypes
<1>7. QueueContent'
  BY <1>1, <1>4, <1>5 DEF QueueInv, QueueContent
<1>8. QueueOrder'
  <2>1. aq.len >= 1 /\ OrderedBut(Queue, aq.len, aq.len)
    BY <1>1 DEF QueueInv, QueueOrder
  <2>2. \A c \in 2..aq.len : Parent(c) # aq.len
    BY <1>3, ParentIsBefore
  <2>3. UpOrder(Queue, aq.len, aq.len)
    BY <1>3, <2>1, <2>2 DEF UpOrder
  <2>4. QED
    BY <1>1, <1>4, <1>5, <2>3 DEF QueueOrder
<1>9. QED
  BY <1>2, <1>4, <1>6, <1>7, <1>8 DEF QueueInv

\* A step that only moves a goroutine on.
LEMMA SameQueue ==
  ASSUME QueueInv, mem' = mem, aq' = aq, pushed' = pushed, popped' = popped, clock' = clock,
         push' \in Goroutine(PushPlace), pop' \in Goroutine(PopPlace),
         push.at # "append", push'.at # "append"
  PROVE  HeapTypes' /\ QueueContent' /\ Queue' = Queue
<1>1. Popped' = Popped /\ Left' = Left /\ Queue' = Queue
  BY Zenon DEF Popped, Left, Queue
<1>2. HeapTypes'
  BY <1>1 DEF QueueInv, HeapTypes
<1>3. QueueContent'
  BY <1>1 DEF QueueInv, QueueContent
<1>4. QED
  BY <1>1, <1>2, <1>3

\* AuctionQueue.Swap within the bounds of the slice.
LEMMA SwappedQueue ==
  ASSUME QueueInv, NEW i \in 1..aq.len, NEW j \in 1..aq.len, mem' = Swapped(i, j), aq' = aq,
         pushed' = pushed, popped' = popped, clock' = clock,
         push' \in Goroutine(PushPlace), pop' \in Goroutine(PopPlace),
         push.at # "append", push'.at # "append"
  PROVE  HeapTypes' /\ QueueContent' /\ Exchanged(Queue, Queue', aq.len, i, j)
<1> DEFINE C == RFQ \cup {Unset}
<1>1. /\ mem \in Seq(Seq(C)) /\ aq.arr \in DOMAIN mem /\ aq.len \in Nat
      /\ aq.len <= Len(mem[aq.arr])
  BY DEF QueueInv, HeapTypes
<1>2. PICK a : a = aq.arr
  BY Zenon
<1>3. PICK q \in Seq(C) : q = mem[a]
  BY <1>1, <1>2
<1>4. i \in 1..Len(q) /\ j \in 1..Len(q)
  BY <1>1, <1>2, <1>3
<1>5. q[i] \in C /\ q[j] \in C
  BY <1>4
<1>6. PICK m0, m : m0 = mem /\ m = [m0 EXCEPT ![a][i] = q[j]]
  BY Zenon
<1> HIDE DEF C
<1>7. m \in Seq(Seq(C)) /\ m[a] = [q EXCEPT ![i] = q[j]] /\ Len(m[a]) = Len(q) /\ DOMAIN m = DOMAIN mem
  BY <1>1, <1>2, <1>3, <1>4, <1>5, <1>6, WrittenArray
<1>8. mem' = [m EXCEPT ![a][j] = q[i]]
  BY <1>2, <1>3, <1>6, Zenon DEF Swapped
<1>9. /\ mem' \in Seq(Seq(C)) /\ mem'[a] = [m[a] EXCEPT ![j] = q[i]]
      /\ Len(mem'[a]) = Len(q) /\ DOMAIN mem' = DOMAIN mem
  <2>1. PICK v, m2 : v \in C /\ v = q[i] /\ m2 = [m EXCEPT ![a][j] = v]
    BY <1>5, Zenon
  <2>2. m \in Seq(Seq(C)) /\ a \in DOMAIN m /\ j \in 1..Len(m[a])
    BY <1>1, <1>2, <1>4, <1>7
  <2>3. /\ m2 \in Seq(Seq(C)) /\ m2[a] = [m[a] EXCEPT ![j] = v]
        /\ Len(m2[a]) = Len(m[a]) /\ DOMAIN m2 = DOMAIN m
    BY <2>1, <2>2, WrittenArray
  <2>4. QED
    BY <1>7, <1>8, <2>1, <2>3, Zenon
<1>10. Queue = q /\ Queue' = mem'[a]
  BY <1>2, <1>3, Zenon DEF Queue
<1>11. Exchanged(Queue, Queue', aq.len, i, j)
  <2>1. Queue' = [[q EXCEPT ![i] = q[j]] EXCEPT ![j] = q[i]]
    BY <1>7, <1>9, <1>10, Zenon
  <2>2. \A k \in 1..aq.len : k \in DOMAIN q
    BY <1>1, <1>2, <1>3
  <2>3. QED
    BY <1>4, <1>10, <2>1, <2>2 DEF Exchanged
<1>12. Popped' = Popped /\ Left' = Left
  BY Zenon DEF Popped, Left
<1>13. HeapTypes'
  <2>1. mem' \in Seq(Seq(RFQ \cup {Unset})) /\ aq'.arr \in DOMAIN mem' /\ aq'.len <= Len(mem'[aq'.arr])
    BY <1>1, <1>2, <1>3, <1>9 DEF C
  <2>2. QED
    BY <1>12, <2>1 DEF QueueInv, HeapTypes
<1>14. QueueContent'
  <2>1. Holds(Queue, aq.len, Left)
    BY DEF QueueInv, QueueContent
  <2>2. PICK n, q1, q2, S : n \in Nat /\ n = aq.len /\ q1 = Queue /\ q2 = Queue' /\ S = Left
    BY <1>1, Zenon
  <2>3. Holds(q2, n, S)
    BY <1>11, <2>1, <2>2, ExchangeHolds
  <2>4. QED
    BY <1>12, <2>2, <2>3 DEF QueueContent
<1>15. QED
  BY <1>11, <1>13, <1>14

LEMMA PushUpStep == ASSUME QueueInv, PushUp, ~ overlapped' PROVE QueueInv'
<1>1. /\ push.at = "up" /\ pop' = pop /\ clock' = clock /\ popped' = popped
      /\ pushed' = pushed /\ mem' = mem /\ aq' = aq
  BY DEF PushUp, PushStep
<1>2. /\ push \in Goroutine(PushPlace) /\ pop \in Goroutine(PopPlace) /\ pop.at = "idle"
      /\ aq.len \in Nat /\ UpOrder(Queue, aq.len, push.i)
  BY <1>1 DEF QueueInv, HeapTypes, QueueOrder
<1>3. push.i \in 1..aq.len
  BY <1>2 DEF UpOrder
<1>4. push.i = 1 => Parent(push.i) = 1
  BY DEF Parent
<1>5. push.i > 1 => Parent(push.i) \in 1..aq.len /\ Parent(push.i) # push.i
  BY <1>2, <1>3, ParentIsBefore
<1>6. \A k \in 1..aq.len : EndOf(Queue, k) \in Nat
  <2>1. Holds(Queue, aq.len, Left) /\ Left \in SUBSET RFQ
    BY <1>1 DEF QueueInv, QueueContent, HeapTypes, Left
  <2>2. QED
    BY <1>2, <2>1, KeyType, Zenon
<1>7. CASE push.i = 1
  <2>1. push' = Idle /\ UNCHANGED panicked
    BY <1>4, <1>7 DEF PushUp
  <2>2. push' \in Goroutine(PushPlace) /\ push'.at = "idle"
    BY <2>1, IdleType
  <2>3. HeapTypes' /\ QueueContent' /\ Queue' = Queue
    BY <1>1, <1>2, <2>2, SameQueue
  <2>4. OrderedBut(Queue, aq.len, 1)
    BY <1>2, <1>7 DEF UpOrder
  <2>5. QueueOrder'
    BY <1>1, <1>2, <2>2, <2>3, <2>4 DEF QueueOrder
  <2>6. ~ panicked'
    BY <2>1, Zenon DEF QueueInv
  <2>7. QED
    BY <2>2, <2>3, <2>5, <2>6 DEF QueueInv
<1>8. CASE push.i > 1 /\ Less(push.i, Parent(push.i))
  <2>1. push' = [push EXCEPT !.at = "swap"] /\ UNCHANGED panicked
    BY <1>3, <1>5, <1>8 DEF PushUp, Within
  <2>2. push' \in Goroutine(PushPlace) /\ push'.at = "swap" /\ push'.i = push.i
    BY <1>2, <2>1, Places, Zenon DEF Goroutine
  <2>3. HeapTypes' /\ QueueContent' /\ Queue' = Queue
    BY <1>1, <1>2, <2>2, SameQueue
  <2>4. EndOf(Queue, push.i) < EndOf(Queue, Parent(push.i))
    BY <1>8 DEF Less, EndOf, Queue
  <2>5. QueueOrder'
    BY <1>1, <1>2, <1>8, <2>2, <2>3, <2>4 DEF QueueOrder
  <2>6. ~ panicked'
    BY <2>1, Zenon DEF QueueInv
  <2>7. QED
    BY <1>1, <1>2, <2>3, <2>5, <2>6 DEF QueueInv
<1>9. CASE push.i > 1 /\ ~ Less(push.i, Parent(push.i))
  <2>1. push' = Idle /\ UNCHANGED panicked
    BY <1>3, <1>5, <1>9 DEF PushUp, Within
  <2>2. push' \in Goroutine(PushPlace) /\ push'.at = "idle"
    BY <2>1, IdleType
  <2>3. HeapTypes' /\ QueueContent' /\ Queue' = Queue
    BY <1>1, <1>2, <2>2, SameQueue
  <2>4. EndOf(Queue, Parent(push.i)) <= EndOf(Queue, push.i)
    BY <1>3, <1>5, <1>6, <1>9 DEF Less, EndOf, Queue
  <2>5. OrderedBut(Queue, aq.len, 1)
    BY <1>2, <2>4 DEF UpOrder, OrderedBut
  <2>6. QueueOrder'
    BY <1>1, <1>2, <2>2, <2>3, <2>5 DEF QueueOrder
  <2>7. ~ panicked'
    BY <2>1, Zenon DEF QueueInv
  <2>8. QED
    BY <2>2, <2>3, <2>6, <2>7 DEF QueueInv
<1>10. QED
  BY <1>3, <1>7, <1>8, <1>9

\* What the heap lemmas need of the queue when nothing is being appended.
LEMMA QueueFacts ==
  ASSUME QueueInv, push.at # "append"
  PROVE  /\ aq.len \in Nat /\ Holds(Queue, aq.len, Left) /\ Left \in SUBSET RFQ
         /\ \A k \in 1..aq.len : Queue[k] \in RFQ /\ EndOf(Queue, k) \in Nat
<1>1. aq.len \in Nat /\ Holds(Queue, aq.len, Left) /\ Left \in SUBSET RFQ
  BY DEF QueueInv, QueueContent, HeapTypes, Left
<1>2. QED
  BY <1>1, KeyType, Zenon

LEMMA PushSwapStep == ASSUME QueueInv, PushSwap, ~ overlapped' PROVE QueueInv'
<1>1. /\ push.at = "swap" /\ pop' = pop /\ clock' = clock /\ popped' = popped
      /\ pushed' = pushed /\ aq' = aq
  BY DEF PushSwap, PushStep
<1>2. /\ push \in Goroutine(PushPlace) /\ pop \in Goroutine(PopPlace) /\ pop.at = "idle"
      /\ aq.len \in Nat /\ UpOrder(Queue, aq.len, push.i)
      /\ push.i > 1 /\ EndOf(Queue, push.i) < EndOf(Queue, Parent(push.i))
  BY <1>1 DEF QueueInv, HeapTypes, QueueOrder
<1>3. PICK n \in Nat, j \in Nat : n = aq.len /\ j = push.i /\ j \in 2..n
  <2>1. push.i \in 2..aq.len
    BY <1>2 DEF UpOrder
  <2>2. QED
    BY <1>2, <2>1
<1>4. PICK p \in 1..n : p = Parent(j)
  BY <1>3, ParentIsBefore
<1>5. j \in 1..n
  BY <1>3
<1>6. mem' = Swapped(p, j) /\ push' = [push EXCEPT !.at = "up", !.i = p] /\ UNCHANGED panicked
  BY <1>3, <1>4, <1>5 DEF PushSwap, Within
<1>7. push' \in Goroutine(PushPlace) /\ push'.at = "up" /\ push'.i = p
  <2>1. p \in Nat
    OBVIOUS
  <2>2. QED
    BY <1>2, <1>6, <2>1, Places, Zenon DEF Goroutine
<1>8. HeapTypes' /\ QueueContent' /\ Exchanged(Queue, Queue', n, p, j)
  BY <1>1, <1>2, <1>3, <1>5, <1>6, <1>7, SwappedQueue
<1>9. UpOrder(Queue', n, p)
  <2>1. PICK q, q2 : q = Queue /\ q2 = Queue'
    BY Zenon
  <2>2. PICK S \in SUBSET RFQ : Holds(q, n, S)
    BY <1>1, <1>3, <2>1, QueueFacts
  <2>3. UpOrder(q2, n, p)
    BY <1>2, <1>3, <1>4, <1>8, <2>1, <2>2, UpExchange
  <2>4. QED
    BY <2>1, <2>3
<1>10. QueueOrder'
  BY <1>1, <1>2, <1>3, <1>7, <1>9 DEF QueueOrder
<1>11. ~ panicked'
  BY <1>6, Zenon DEF QueueInv
<1>12. QED
  BY <1>1, <1>2, <1>8, <1>10, <1>11 DEF QueueInv

\* A pop that begins while no push is under way.
LEMMA PopDueStep == ASSUME QueueInv, PopDue, ~ overlapped' PROVE QueueInv'
<1>1. /\ pop.at = "idle" /\ push' = push /\ clock' = clock /\ popped' = popped
      /\ pushed' = pushed /\ mem' = mem /\ aq' = aq
      /\ aq.len > 0 /\ EndOf(Queue, 1) <= clock
      /\ pop' = [Idle EXCEPT !.at = "first", !.n = aq.len]
  BY DEF PopDue, PopStep, EndOf, Queue
<1>2. ~ panicked'
  BY Zenon DEF PopDue, QueueInv
<1>3. aq.len \in Nat /\ push \in Goroutine(PushPlace)
  BY DEF QueueInv, HeapTypes
<1>4. pop' \in Goroutine(PopPlace) /\ pop'.at = "first" /\ pop'.n = aq.len
  <2>1. Idle \in Goroutine(PopPlace)
    BY IdleType
  <2>2. QED
    BY <1>1, <1>3, <2>1, Places, Zenon DEF Goroutine
<1>5. push.at = "idle" /\ push'.at = "idle"
  BY <1>1, <1>4, Zenon DEF PopDue, PopStep, Note
<1>6. HeapTypes' /\ QueueContent' /\ Queue' = Queue
  BY <1>1, <1>3, <1>4, <1>5, SameQueue
<1>7. QueueOrder'
  BY <1>1, <1>3, <1>4, <1>5, <1>6 DEF QueueInv, QueueOrder
<1>8. QED
  BY <1>2, <1>5, <1>6, <1>7 DEF QueueInv

LEMMA PopFirstStep == ASSUME QueueInv, PopFirst, ~ overlapped' PROVE QueueInv'
<1>1. /\ pop.at = "first" /\ push' = push /\ clock' = clock /\ popped' = popped
      /\ pushed' = pushed /\ aq' = aq
  BY DEF PopFirst, PopStep
<1>2. /\ push \in Goroutine(PushPlace) /\ pop \in Goroutine(PopPlace) /\ push.at = "idle"
      /\ clock \in Nat /\ aq.len >= 1 /\ pop.n = aq.len
      /\ OrderedBut(Queue, aq.len, 1) /\ EndOf(Queue, 1) <= clock
  BY <1>1 DEF QueueInv, HeapTypes, QueueOrder
<1>3. PICK n \in Nat : n = aq.len /\ n >= 1 /\ 1 \in 1..n /\ n \in 1..n
  BY <1>2, QueueFacts
<1>4. mem' = Swapped(1, n) /\ pop' = [pop EXCEPT !.at = "down", !.i = 1] /\ UNCHANGED panicked
  BY <1>2, <1>3 DEF PopFirst, Within
<1>5. pop' \in Goroutine(PopPlace) /\ pop'.at = "down" /\ pop'.i = 1 /\ pop'.n = n
  BY <1>2, <1>3, <1>4, Places, Zenon DEF Goroutine
<1>6. HeapTypes' /\ QueueContent' /\ Exchanged(Queue, Queue', n, 1, n)
  BY <1>1, <1>2, <1>3, <1>4, <1>5, SwappedQueue
<1>7. PICK q, q2 : q = Queue /\ q2 = Queue'
  BY Zenon
<1>8. PICK S \in SUBSET RFQ : Holds(q, n, S) /\ \A k \in 1..n : EndOf(q, k) \in Nat
  BY <1>2, <1>3, <1>7, QueueFacts
<1>9. \A c \in 1..n : EndOf(q, 1) <= EndOf(q, c)
  BY <1>2, <1>3, <1>7, <1>8, RootIsFirst
<1>10. /\ EndOf(q2, 1) = EndOf(q, n) /\ EndOf(q2, n) = EndOf(q, 1)
       /\ \A k \in 1..n : k # 1 /\ k # n => EndOf(q2, k) = EndOf(q, k)
  BY <1>6, <1>7 DEF Exchanged, EndOf
<1>11. First(q2, n, n, clock)
  <2>1. \A c \in 1..n : EndOf(q2, n) <= EndOf(q2, c)
    BY <1>3, <1>8, <1>9, <1>10
  <2>2. QED
    BY <1>2, <1>7, <1>10, <2>1 DEF First
<1>12. DownOrder(q2, n - 1, 1)
  <2>1. ASSUME NEW c \in 2..(n - 1), Parent(c) # 1 PROVE EndOf(q2, Parent(c)) <= EndOf(q2, c)
    <3>1. c \in 2..n /\ c # n /\ c # 1 /\ Parent(c) \in 1..n /\ Parent(c) # n
      BY <1>3, <2>1, ParentIsBefore
    <3>2. EndOf(q, Parent(c)) <= EndOf(q, c)
      BY <1>2, <1>3, <1>7, <3>1 DEF OrderedBut
    <3>3. c \in 1..n
      BY <3>1
    <3>4. QED
      BY <1>10, <2>1, <3>1, <3>2, <3>3
  <2>2. QED
    BY <2>1 DEF DownOrder
<1>13. QueueOrder'
  BY <1>1, <1>2, <1>3, <1>5, <1>7, <1>11, <1>12 DEF QueueOrder
<1>14. ~ panicked'
  BY <1>4, Zenon DEF QueueInv
<1>15. QED
  BY <1>1, <1>2, <1>6, <1>13, <1>14 DEF QueueInv

LEMMA ChildrenOf ==
  \A c, i \in Nat : c > 1 /\ i >= 1 => (Parent(c) = i <=> c = 2 * i \/ c = 2 * i + 1)
BY DEF Parent

\* The child that down looks at is the lesser one.
LEMMA LesserChild ==
  ASSUME QueueInv, push.at # "append", NEW i \in Nat, i >= 1, NEW m \in Nat, m <= aq.len, 2 * i <= m
  PROVE  /\ Child(i, m) \in 2..m /\ Parent(Child(i, m)) = i
         /\ \A c \in 2..m : Parent(c) = i => EndOf(Queue, Child(i, m)) <= EndOf(Queue, c)
<1>1. \A k \in 1..m : EndOf(Queue, k) \in Nat
  BY QueueFacts
<1>2. \A c \in 2..m : Parent(c) = i => c = 2 * i \/ c = 2 * i + 1
  BY ChildrenOf
<1>3. Parent(2 * i) = i /\ Parent(2 * i + 1) = i
  BY ChildrenOf
<1>4. Less(2 * i + 1, 2 * i) <=> EndOf(Queue, 2 * i + 1) < EndOf(Queue, 2 * i)
  BY DEF Less, EndOf, Queue
<1>5. CASE 2 * i + 1 <= m /\ EndOf(Queue, 2 * i + 1) < EndOf(Queue, 2 * i)
  <2>1. Child(i, m) = 2 * i + 1
    BY <1>4, <1>5 DEF Child
  <2>2. 2 * i \in 1..m /\ 2 * i + 1 \in 2..m /\ 2 * i + 1 \in 1..m
    BY <1>5
  <2>3. QED
    BY <1>1, <1>2, <1>3, <1>5, <2>1, <2>2
<1>6. CASE ~ (2 * i + 1 <= m /\ EndOf(Queue, 2 * i + 1) < EndOf(Queue, 2 * i))
  <2>1. Child(i, m) = 2 * i
    BY <1>4, <1>6 DEF Child
  <2>2. 2 * i \in 2..m /\ 2 * i \in 1..m
    OBVIOUS
  <2>3. QED
    BY <1>1, <1>2, <1>3, <1>6, <2>1, <2>2
<1>7. QED
  BY <1>5, <1>6

LEMMA PopDownStep == ASSUME QueueInv, PopDown, ~ overlapped' PROVE QueueInv'
<1>1. /\ pop.at = "down" /\ push' = push /\ clock' = clock /\ popped' = popped
      /\ pushed' = pushed /\ aq' = aq /\ mem' = mem
  BY DEF PopDown, PopStep
<1>2. /\ push \in Goroutine(PushPlace) /\ pop \in Goroutine(PopPlace) /\ push.at = "idle"
      /\ aq.len >= 1 /\ pop.n = aq.len
      /\ First(Queue, aq.len, aq.len, clock) /\ DownOrder(Queue, aq.len - 1, pop.i)
  BY <1>1 DEF QueueInv, HeapTypes, QueueOrder
<1>3. PICK m \in Nat, i \in Nat : m = aq.len - 1 /\ i = pop.i /\ i >= 1 /\ m <= aq.len
  <2>1. pop.i \in Nat /\ aq.len \in Nat /\ pop.i >= 1
    BY <1>2, QueueFacts DEF Goroutine, DownOrder
  <2>2. QED
    BY <1>2, <2>1
<1>4. \A k \in 1..m : EndOf(Queue, k) \in Nat
  BY <1>2, <1>3, QueueFacts
<1>5. \A c \in 2..m : Parent(c) # i => EndOf(Queue, Parent(c)) <= EndOf(Queue, c)
  BY <1>2, <1>3 DEF DownOrder
<1>6. CASE 2 * i > m
  <2>1. pop' = [pop EXCEPT !.at = "take"] /\ UNCHANGED panicked
    BY <1>2, <1>3, <1>6 DEF PopDown
  <2>2. pop' \in Goroutine(PopPlace) /\ pop'.at = "take"
    BY <1>2, <2>1, Places, Zenon DEF Goroutine
  <2>3. HeapTypes' /\ QueueContent' /\ Queue' = Queue
    BY <1>1, <1>2, <2>2, SameQueue
  <2>4. \A c \in 2..m : Parent(c) # i
    BY <1>3, <1>6, ChildrenOf
  <2>5. OrderedBut(Queue, m, 1)
    BY <1>5, <2>4 DEF OrderedBut
  <2>6. QueueOrder'
    BY <1>1, <1>2, <1>3, <2>2, <2>3, <2>5 DEF QueueOrder
  <2>7. ~ panicked'
    BY <2>1, Zenon DEF QueueInv
  <2>8. QED
    BY <1>1, <1>2, <2>3, <2>6, <2>7 DEF QueueInv
<1>7. CASE 2 * i <= m
  <2>1. PICK j : j = Child(i, m)
    BY Zenon
  <2>2. /\ j \in 2..m /\ Parent(j) = i
        /\ \A c \in 2..m : Parent(c) = i => EndOf(Queue, j) <= EndOf(Queue, c)
    BY <1>2, <1>3, <1>7, <2>1, LesserChild
  <2>3. Within(i, m)
    <3>1. i \in 1..aq.len /\ m \in 1..aq.len
      BY <1>2, <1>3, <1>7, QueueFacts
    <3>2. QED
      BY <3>1, Zenon DEF Within
  <2>4. PICK place \in {"swap", "take"} : place = IF Less(j, i) THEN "swap" ELSE "take"
    BY Zenon
  <2>5. pop' = [pop EXCEPT !.at = place, !.old = [@ EXCEPT !.len = j]] /\ UNCHANGED panicked
    BY <1>2, <1>3, <1>7, <2>1, <2>3, <2>4 DEF PopDown
  <2>6. pop' \in Goroutine(PopPlace) /\ pop'.at = place /\ pop'.i = i /\ pop'.n = pop.n /\ pop'.old.len = j
    <3>1. place \in PopPlace /\ j \in Nat
      BY <2>2 DEF PopPlace
    <3>2. PICK old : old = [pop.old EXCEPT !.len = j]
      BY Zenon
    <3>3. pop.old \in [arr : Nat, len : Nat]
      BY <1>2, Zenon DEF Goroutine
    <3>4. old \in [arr : Nat, len : Nat] /\ old.len = j
      BY <3>1, <3>2, <3>3
    <3>5. pop' = [pop EXCEPT !.at = place, !.old = old]
      BY <2>5, <3>2, Zenon
    <3>6. QED
      BY <1>2, <1>3, <3>1, <3>4, <3>5, Zenon DEF Goroutine
  <2>7. HeapTypes' /\ QueueContent' /\ Queue' = Queue
    BY <1>1, <1>2, <2>6, SameQueue
  <2>8. Less(j, i) <=> EndOf(Queue, j) < EndOf(Queue, i)
    BY DEF Less, EndOf, Queue
  <2>9. place = "take" => OrderedBut(Queue, m, 1)
    <3>1. SUFFICES ASSUME place = "take", NEW c \in 2..m PROVE EndOf(Queue, Parent(c)) <= EndOf(Queue, c)
      BY DEF OrderedBut
    <3>2. EndOf(Queue, i) <= EndOf(Queue, j)
      <4>1. ~ (EndOf(Queue, j) < EndOf(Queue, i))
        BY <2>4, <2>8, <3>1
      <4>2. i \in 1..m /\ j \in 1..m
        BY <1>3, <1>7, <2>2
      <4>3. QED
        BY <1>4, <4>1, <4>2
    <3>3. CASE Parent(c) = i
      <4>1. i \in 1..m /\ j \in 1..m /\ c \in 1..m
        BY <1>3, <1>7, <2>2
      <4>2. EndOf(Queue, j) <= EndOf(Queue, c)
        BY <2>2, <3>3
      <4>3. QED
        BY <1>4, <3>2, <3>3, <4>1, <4>2
    <3>4. CASE Parent(c) # i
      BY <1>5, <3>4
    <3>5. QED
      BY <3>3, <3>4
  <2>10. place = "swap" => EndOf(Queue, j) < EndOf(Queue, i)
    BY <2>4, <2>8
  <2>11. QueueOrder'
    <3>1. CASE place = "take"
      BY <1>1, <1>2, <1>3, <2>6, <2>7, <2>9, <3>1 DEF QueueOrder
    <3>2. CASE place = "swap"
      BY <1>1, <1>2, <1>3, <2>2, <2>6, <2>7, <2>10, <3>2 DEF QueueOrder
    <3>3. QED
      BY <3>1, <3>2
  <2>12. ~ panicked'
    BY <2>5, Zenon DEF QueueInv
  <2>13. QED
    BY <1>1, <1>2, <2>7, <2>11, <2>12 DEF QueueInv
<1>8. QED
  BY <1>3, <1>6, <1>7

LEMMA PopSwapStep == ASSUME QueueInv, PopSwap, ~ overlapped' PROVE QueueInv'
<1>1. /\ pop.at = "swap" /\ push' = push /\ clock' = clock /\ popped' = popped
      /\ pushed' = pushed /\ aq' = aq
  BY DEF PopSwap, PopStep
<1>2. /\ push \in Goroutine(PushPlace) /\ pop \in Goroutine(PopPlace) /\ push.at = "idle"
      /\ aq.len >= 1 /\ pop.n = aq.len
      /\ First(Queue, aq.len, aq.len, clock) /\ DownOrder(Queue, aq.len - 1, pop.i)
      /\ pop.old.len \in 2..(aq.len - 1) /\ Parent(pop.old.len) = pop.i
      /\ EndOf(Queue, pop.old.len) < EndOf(Queue, pop.i)
      /\ \A c \in 2..(aq.len - 1) :
           Parent(c) = pop.i => EndOf(Queue, pop.old.len) <= EndOf(Queue, c)
  BY <1>1 DEF QueueInv, HeapTypes, QueueOrder
<1>3. PICK n \in Nat, m \in Nat, i \in Nat, j \in Nat :
        n = aq.len /\ m = n - 1 /\ i = pop.i /\ j = pop.old.len
  <2>1. pop.i \in Nat /\ aq.len \in Nat
    BY <1>2, QueueFacts DEF Goroutine
  <2>2. QED
    BY <1>2, <2>1
<1>4. j \in 2..m /\ i \in 1..m /\ m <= n /\ i # n /\ j # n /\ i \in 1..n /\ j \in 1..n /\ n \in 1..n
  BY <1>2, <1>3, ParentIsBefore
<1>5. mem' = Swapped(i, j) /\ pop' = [pop EXCEPT !.at = "down", !.i = j] /\ UNCHANGED panicked
  BY <1>3, <1>4 DEF PopSwap, Within
<1>6. pop' \in Goroutine(PopPlace) /\ pop'.at = "down" /\ pop'.i = j /\ pop'.n = pop.n
  BY <1>2, <1>5, Places, Zenon DEF Goroutine
<1>7. HeapTypes' /\ QueueContent' /\ Exchanged(Queue, Queue', n, i, j)
  BY <1>1, <1>2, <1>3, <1>4, <1>5, <1>6, SwappedQueue
<1>8. PICK q, q2 : q = Queue /\ q2 = Queue'
  BY Zenon
<1>9. PICK S \in SUBSET RFQ : Holds(q, n, S)
  BY <1>2, <1>3, <1>8, QueueFacts
<1>10. DownOrder(q2, m, j)
  BY <1>2, <1>3, <1>4, <1>7, <1>8, <1>9, DownExchange
<1>11. First(q2, n, n, clock)
  <2>1. /\ EndOf(q2, i) = EndOf(q, j) /\ EndOf(q2, j) = EndOf(q, i)
        /\ \A k \in 1..n : k # i /\ k # j => EndOf(q2, k) = EndOf(q, k)
    BY <1>7, <1>8 DEF Exchanged, EndOf
  <2>2. QED
    BY <1>2, <1>3, <1>4, <1>8, <2>1 DEF First
<1>12. QueueOrder'
  BY <1>1, <1>2, <1>3, <1>6, <1>8, <1>10, <1>11 DEF QueueOrder
<1>13. ~ panicked'
  BY <1>5, Zenon DEF QueueInv
<1>14. QED
  BY <1>1, <1>2, <1>7, <1>12, <1>13 DEF QueueInv

LEMMA PopTakeStep == ASSUME QueueInv, PopTake, ~ overlapped' PROVE QueueInv'
<1>1. /\ pop.at = "take" /\ push' = push /\ clock' = clock /\ popped' = popped
      /\ pushed' = pushed /\ aq' = aq /\ mem' = mem
  BY DEF PopTake, PopStep
<1>2. /\ push \in Goroutine(PushPlace) /\ pop \in Goroutine(PopPlace) /\ push.at = "idle"
      /\ aq.len >= 1 /\ First(Queue, aq.len, aq.len, clock) /\ OrderedBut(Queue, aq.len - 1, 1)
  BY <1>1 DEF QueueInv, HeapTypes, QueueOrder
<1>3. aq.len \in Nat /\ Queue[aq.len] \in RFQ
  BY <1>2, QueueFacts
<1>4. pop' = [pop EXCEPT !.at = "store", !.old = aq, !.x = Queue[aq.len]] /\ UNCHANGED panicked
  BY <1>2, <1>3 DEF PopTake, Queue
<1>5. pop' \in Goroutine(PopPlace) /\ pop'.at = "store" /\ pop'.old = aq /\ pop'.x = Queue[aq.len]
  <2>1. Queue[aq.len] \in RFQ \cup {Unset} /\ aq \in [arr : Nat, len : Nat]
    BY <1>3 DEF QueueInv, HeapTypes
  <2>2. QED
    BY <1>2, <1>4, <2>1, Places, Zenon DEF Goroutine
<1>6. HeapTypes' /\ QueueContent' /\ Queue' = Queue
  BY <1>1, <1>2, <1>5, SameQueue
<1>7. QueueOrder'
  BY <1>1, <1>2, <1>5, <1>6 DEF QueueOrder
<1>8. ~ panicked'
  BY <1>4, Zenon DEF QueueInv
<1>9. QED
  BY <1>1, <1>2, <1>6, <1>7, <1>8 DEF QueueInv

LEMMA PopStoreStep == ASSUME QueueInv, PopStore, ~ overlapped' PROVE QueueInv'
<1>1. /\ pop.at = "store" /\ push' = push /\ clock' = clock /\ pushed' = pushed /\ mem' = mem
      /\ pop' = Idle /\ aq' = [pop.old EXCEPT !.len = @ - 1] /\ popped' = Append(popped, pop.x)
  BY DEF PopStore, PopStep
<1>2. /\ push \in Goroutine(PushPlace) /\ push.at = "idle" /\ aq.len >= 1
      /\ OrderedBut(Queue, aq.len - 1, 1) /\ pop.old = aq /\ pop.x = Queue[aq.len]
  BY <1>1 DEF QueueInv, HeapTypes, QueueOrder
<1>3. /\ aq.len \in Nat /\ Queue[aq.len] \in Left /\ Left \in SUBSET RFQ
      /\ Holds(Queue, aq.len, Left)
  BY <1>2, QueueFacts DEF Holds
<1>4. aq \in [arr : Nat, len : Nat]
  BY DEF QueueInv, HeapTypes
<1>5. aq'.arr = aq.arr /\ aq'.len = aq.len - 1 /\ aq' \in [arr : Nat, len : Nat]
  BY <1>1, <1>2, <1>3, <1>4
<1>6. Queue' = Queue
  BY <1>1, <1>5 DEF Queue
<1>7. popped \in Seq(RFQ) /\ Popped \subseteq pushed
  BY DEF QueueInv, HeapTypes
<1>8. popped' \in Seq(RFQ) /\ Popped' = Popped \cup {pop.x}
  <2>1. PICK x \in RFQ : x = pop.x
    BY <1>2, <1>3
  <2>2. popped' \in Seq(RFQ)
    BY <1>1, <1>7, <2>1
  <2>3. /\ DOMAIN popped' = 1..(Len(popped) + 1) /\ DOMAIN popped = 1..Len(popped) /\ Len(popped) \in Nat
        /\ \A k \in 1..Len(popped) : popped'[k] = popped[k] /\ popped'[Len(popped) + 1] = x
    BY <1>1, <1>7, <2>1
  <2>4. popped'[Len(popped) + 1] = x
    BY <1>1, <1>7, <2>1
  <2>5. \A k : k \in 1..(Len(popped) + 1) <=> k \in 1..Len(popped) \/ k = Len(popped) + 1
    BY <2>3
  <2>6. QED
    BY <2>1, <2>2, <2>3, <2>4, <2>5, Zenon DEF Popped
<1>9. Left' = Left \ {Queue[aq.len]}
  BY <1>1, <1>2, <1>8, Zenon DEF Left
<1>10. pop' \in Goroutine(PopPlace) /\ pop'.at = "idle" /\ push'.at = "idle"
  BY <1>1, <1>2, IdleType
<1>11. HeapTypes'
  <2>1. Popped' \subseteq pushed'
    BY <1>1, <1>2, <1>3, <1>7, <1>8 DEF Left
  <2>2. aq'.arr \in DOMAIN mem' /\ aq'.len <= Len(mem'[aq'.arr])
    BY <1>1, <1>3, <1>5 DEF QueueInv, HeapTypes
  <2>3. QED
    BY <1>1, <1>2, <1>5, <1>8, <1>10, <2>1, <2>2 DEF QueueInv, HeapTypes
<1>12. QueueContent'
  <2>1. Holds(Queue, aq.len - 1, Left \ {Queue[aq.len]})
    BY <1>2, <1>3, CutHolds
  <2>2. QED
    BY <1>5, <1>6, <1>9, <1>10, <2>1 DEF QueueContent
<1>13. QueueOrder'
  BY <1>2, <1>5, <1>6, <1>10 DEF QueueOrder
<1>14. ~ panicked'
  BY Zenon DEF PopStore, QueueInv
<1>15. QED
  BY <1>10, <1>11, <1>12, <1>13, <1>14 DEF QueueInv

LEMMA RestingStep ==
  ASSUME QueueInv, TimePasses \/ UNCHANGED heapVars
  PROVE  QueueInv'
<1>1. /\ mem' = mem /\ aq' = aq /\ push' = push /\ pop' = pop /\ pushed' = pushed /\ popped' = popped
      /\ clock \in Nat /\ clock' \in Nat /\ clock <= clock'
  BY DEF TimePasses, heapVars, QueueInv, HeapTypes
<1>2. ~ panicked'
  BY Zenon DEF TimePasses, heapVars, QueueInv
<1>3. Popped' = Popped /\ Left' = Left /\ Queue' = Queue
  BY <1>1, Zenon DEF Popped, Left, Queue
<1>4. HeapTypes' /\ QueueContent'
  BY <1>1, <1>3 DEF QueueInv, HeapTypes, QueueContent
<1>5. QueueOrder'
  <2>1. pop.at = "first" => EndOf(Queue, 1) <= clock'
    <3>1. SUFFICES ASSUME pop.at = "first" PROVE EndOf(Queue, 1) <= clock'
      OBVIOUS
    <3>2. push.at = "idle" /\ aq.len >= 1 /\ EndOf(Queue, 1) <= clock
      BY <3>1 DEF QueueInv, QueueOrder
    <3>3. EndOf(Queue, 1) \in Nat
      BY <3>2, QueueFacts
    <3>4. QED
      BY <1>1, <3>2, <3>3
  <2>2. pop.at \in {"down", "swap", "take", "store"} => First(Queue, aq.len, aq.len, clock')
    <3>1. SUFFICES ASSUME pop.at \in {"down", "swap", "take", "store"}
                   PROVE  First(Queue, aq.len, aq.len, clock')
      OBVIOUS
    <3>2. push.at = "idle" /\ aq.len >= 1 /\ First(Queue, aq.len, aq.len, clock)
      BY <3>1 DEF QueueInv, QueueOrder
    <3>3. EndOf(Queue, aq.len) \in Nat
      BY <3>2, QueueFacts
    <3>4. QED
      BY <1>1, <3>2, <3>3 DEF First
  <2>3. QED
    BY <1>1, <1>3, <2>1, <2>2 DEF QueueInv, QueueOrder
<1>6. QED
  BY <1>1, <1>2, <1>4, <1>5 DEF QueueInv

\* Every step that leaves the goroutines apart keeps the queue in order.
LEMMA NextHeapInv == HeapInv /\ [HeapNext]_heapVars => HeapInv'
<1> SUFFICES ASSUME HeapInv, [HeapNext]_heapVars, ~ overlapped' PROVE QueueInv'
  BY DEF HeapInv
<1>1. ~ overlapped
  <2>1. CASE TimePasses \/ UNCHANGED heapVars
    BY <2>1, Zenon DEF TimePasses, heapVars
  <2>2. CASE Push \/ Pop
    <3>1. Note
      BY <2>2, Zenon DEF Push, Pop, PushLoad, PushStore, PushLast, PushUp, PushSwap, PopDue,
         PopFirst, PopDown, PopSwap, PopTake, PopStore, PushStep, PopStep
    <3>2. QED
      BY <3>1, Zenon DEF Note
  <2>3. QED
    BY <2>1, <2>2 DEF HeapNext
<1>2. QueueInv
  BY <1>1, Zenon DEF HeapInv
<1>3. CASE Push
  <2>1. ASSUME NEW x \in RFQ \ pushed, PushLoad(x) PROVE QueueInv'
    BY <1>2, <2>1, PushLoadStep
  <2>2. QED
    BY <1>2, <1>3, <2>1, PushStoreStep, PushLastStep, PushUpStep, PushSwapStep DEF Push
<1>4. CASE Pop
  BY <1>2, <1>4, PopDueStep, PopFirstStep, PopDownStep, PopSwapStep, PopTakeStep, PopStoreStep DEF Pop
<1>5. CASE TimePasses \/ UNCHANGED heapVars
  BY <1>2, <1>5, RestingStep
<1>6. QED
  BY <1>3, <1>4, <1>5 DEF HeapNext

LEMMA QueueIsKept == HeapSpec => []HeapInv
<1>1. HeapInit => HeapInv
  BY InitQueueInv DEF HeapInv
<1>2. QED
  BY <1>1, NextHeapInv, PTL DEF HeapSpec

\* As many cells as elements: the queue of n cells is a bijection.
LEMMA HeldCardinality ==
  ASSUME NEW q, NEW n \in Nat, NEW S, Holds(q, n, S)
  PROVE  n = Cardinality(S) /\ S = {q[k] : k \in 1..n}
<1>1. [k \in 1..n |-> q[k]] \in Bijection(1..n, S)
  BY DEF Holds, Bijection, Injection, Surjection, IsInjective
<1>2. IsFiniteSet(1..n) /\ Cardinality(1..n) = n
  BY FS_Interval
<1>3. Cardinality(S) = Cardinality(1..n)
  <2>1. ExistsBijection(1..n, S)
    BY <1>1, Zenon DEF ExistsBijection
  <2>2. QED
    BY <1>2, <2>1, FS_Bijection, Zenon
<1>4. S = {q[k] : k \in 1..n}
  <2>1. /\ \A k \in 1..n : q[k] \in S
        /\ \A y \in S : \E k \in 1..n : q[k] = y
    BY DEF Holds
  <2>2. QED
    BY <2>1
<1>5. QED
  BY <1>2, <1>3, <1>4

\* Whatever pushes and pops came before, and however often append moved the
\* elements to a larger array, the queue of WriteRFQTxs and processAuctionQueue
\* holds every pushed RFQ that was not popped, once, unless a push and a pop
\* overlapped.
THEOREM QueueIsExact == HeapSpec => []ExactUnlessOverlapped
<1>1. HeapInv => ExactUnlessOverlapped
  <2> SUFFICES ASSUME HeapInv, AtRest, ~ overlapped
               PROVE  /\ {Contents[i] : i \in 1..aq.len} = pushed \ Popped
                      /\ aq.len = Cardinality(pushed \ Popped)
    BY DEF ExactUnlessOverlapped
  <2>1. QueueInv /\ push.at # "append"
    BY DEF HeapInv, AtRest
  <2>2. aq.len \in Nat /\ Holds(Queue, aq.len, Left)
    BY <2>1, QueueFacts
  <2>3. aq.len = Cardinality(Left) /\ Left = {Queue[k] : k \in 1..aq.len}
    BY <2>2, HeldCardinality
  <2>4. \A k \in 1..aq.len : Contents[k] = Queue[k]
    <3>1. mem[aq.arr] \in Seq(RFQ \cup {Unset}) /\ aq.len <= Len(mem[aq.arr])
      BY <2>1 DEF QueueInv, HeapTypes
    <3>2. QED
      BY <2>2, <3>1 DEF Contents, Queue
  <2>5. {Contents[k] : k \in 1..aq.len} = {Queue[k] : k \in 1..aq.len}
    BY <2>4, Zenon
  <2>6. QED
    BY <2>3, <2>5, Zenon DEF Left
<1>2. QED
  BY <1>1, QueueIsKept, PTL

\* An RFQ that processAuctionQueue takes from the queue is due, and none that is
\* left ends earlier, unless a push and a pop overlapped.
THEOREM EarliestIsPopped == HeapSpec => PopsEarliestUnlessOverlapped
<1> DEFINE A == popped' # popped /\ ~ overlapped' =>
                  LET x == popped'[Len(popped')] IN
                  /\ RFQEndTime[x] <= clock
                  /\ \A y \in pushed \ (Popped \cup {x}) : RFQEndTime[x] <= RFQEndTime[y]
<1>1. HeapInv /\ [HeapNext]_heapVars => [A]_heapVars
  <2> SUFFICES ASSUME HeapInv, HeapNext, popped' # popped, ~ overlapped'
               PROVE  LET x == popped'[Len(popped')] IN
                      /\ RFQEndTime[x] <= clock
                      /\ \A y \in pushed \ (Popped \cup {x}) : RFQEndTime[x] <= RFQEndTime[y]
    OBVIOUS
  <2>1. PopStore
    BY Zenon DEF HeapNext, Push, Pop, PushLoad, PushStore, PushLast, PushUp, PushSwap, PopDue,
       PopFirst, PopDown, PopSwap, PopTake, PushStep, TimePasses
  <2>2. ~ overlapped
    BY <2>1, Zenon DEF PopStore, PopStep, Note
  <2>3. QueueInv /\ push.at = "idle" /\ popped' = Append(popped, pop.x)
    BY <2>1, <2>2 DEF HeapInv, QueueInv, PopStore, PopStep
  <2>4. /\ aq.len >= 1 /\ pop.x = Queue[aq.len] /\ First(Queue, aq.len, aq.len, clock)
        /\ popped \in Seq(RFQ)
    BY <2>1, <2>3 DEF QueueInv, QueueOrder, HeapTypes, PopStore, PopStep
  <2>5. popped'[Len(popped')] = pop.x
    BY <2>3, <2>4
  <2>6. RFQEndTime[pop.x] <= clock
    BY <2>4 DEF First, EndOf
  <2>7. ASSUME NEW y \in pushed \ (Popped \cup {pop.x}) PROVE RFQEndTime[pop.x] <= RFQEndTime[y]
    <3>1. PICK k \in 1..aq.len : Queue[k] = y
      BY <2>3, QueueFacts DEF Holds, Left
    <3>2. QED
      BY <2>4, <3>1 DEF First, EndOf
  <2>8. QED
    BY <2>5, <2>6, <2>7
<1>2. HeapSpec => [][A]_heapVars
  BY <1>1, QueueIsKept, PTL DEF HeapSpec
<1>3. QED
  BY <1>2 DEF PopsEarliestUnlessOverlapped

\* No call of Less, Swap or Pop leaves the bounds of the slice, unless a push
\* and a pop overlapped.
THEOREM QueueStaysInBounds == HeapSpec => [](~ overlapped => ~ panicked)
<1>1. HeapInv => (~ overlapped => ~ panicked)
  BY Zenon DEF HeapInv, QueueInv
<1>2. QED
  BY <1>1, QueueIsKept, PTL

----------------------------------------------------------------------------
(* TxSigning: signatures that verify *)

ValidSignature == [V : {0, 1}, R : Nat \ {0}, S : Nat \ {0}]

\* What Transaction.Sign or a client signed is the transaction's hash, and the
\* values are those of a signature.  Before that, and after it, nothing ends the
\* transaction but its type, in JSON, and Sender.
SigningInv ==
  /\ origin = "none" => sig = Unsigned
  /\ origin \in {"Sign", "client"} => sig \in ValidSignature /\ over = "tx"
  /\ origin \in {"none", "Sign", "client"} =>
       /\ outcome \in {"ok", "ErrTxTypeNotSupported", "panic"}
       /\ type = RFQRequestTxType => outcome # "ErrTxTypeNotSupported"

\* A signature is read from its bytes as it was.
LEMMA BytesReadBack ==
  ASSUME NEW s \in ValidSignature PROVE SignatureValues(ToBytes(s)) = s /\ s # Fail
<1>1. /\ ToBytes(s).r = Str(s.R, HashLength) /\ ToBytes(s).s = Str(s.S, HashLength)
      /\ ToBytes(s).v = Str(s.V, 1)
  BY DEF ToBytes
<1>2. LengthOf(ToBytes(s)) = HashLength + HashLength + 1
  BY <1>1 DEF LengthOf, Str
<1>3. LengthOf(ToBytes(s)) = SignatureLength
  BY <1>2, SigningAssumption DEF SignatureLength
<1>4. SignatureValues(ToBytes(s)) = [V |-> s.V, R |-> s.R, S |-> s.S]
  BY <1>1, <1>3 DEF SignatureValues, Str
<1>5. s = [V |-> s.V, R |-> s.R, S |-> s.S]
  BY DEF ValidSignature
<1>6. s # Fail
  <2>1. "fail" \in DOMAIN Fail /\ "fail" \notin DOMAIN s
    BY DEF Fail, ValidSignature
  <2>2. QED
    BY <2>1, Zenon
<1>7. QED
  BY <1>4, <1>5, <1>6

\* A number is read from its RLP as it was.
LEMMA BigReadBack ==
  ASSUME NEW n \in Nat PROVE IsBig(Big(n)) /\ Big(n).val = n
BY DEF IsBig, Big, NilInt, Uint, Str, IsStr

\* An encoding that the type allows leaves the signature as it was.
LEMMA TripsKeep ==
  ASSUME sig = Unsigned \/ sig \in ValidSignature, Trip
  PROVE  /\ sig' = sig /\ UNCHANGED <<type, over, origin>> /\ outcome = "ok"
         /\ outcome' = "ok" \/ (outcome' = "ErrTxTypeNotSupported" /\ type # RFQRequestTxType)
<1>1. /\ sig.V \in Nat /\ sig.R \in Nat /\ sig.S \in Nat
      /\ sig = [V |-> sig.V, R |-> sig.R, S |-> sig.S]
  BY DEF ValidSignature, Unsigned
<1>2. CASE RLPTrip
  <2>1. IsBig(Big(sig.V)) /\ IsBig(Big(sig.R)) /\ IsBig(Big(sig.S))
    BY <1>1, BigReadBack
  <2>2. sig' = [V |-> Big(sig.V).val, R |-> Big(sig.R).val, S |-> Big(sig.S).val]
        /\ outcome' = outcome /\ UNCHANGED <<type, over, origin>>
    BY <1>2, <2>1 DEF RLPTrip
  <2>3. sig' = sig
    BY <1>1, <2>2, BigReadBack
  <2>4. QED
    BY <2>2, <2>3 DEF Trip
<1>3. CASE JSONTrip
  <2>1. outcome = "ok" /\ UNCHANGED <<type, over, origin>>
    BY <1>3 DEF Trip, JSONTrip
  <2>2. sig = Unsigned \/ sanityCheckSignature(sig)
    BY DEF sanityCheckSignature, ValidateSignatureValues, ValidSignature
  <2>3. CASE type = RFQRequestTxType
    <3>1. MarshalJSON = sig
      BY <2>3 DEF MarshalJSON
    <3>2. outcome' = "ok" /\ sig' = sig
      BY <1>3, <2>1, <2>2, <2>3, <3>1 DEF JSONTrip
    <3>3. QED
      BY <2>1, <3>2
  <2>4. CASE type # RFQRequestTxType
    <3>1. outcome' = "ErrTxTypeNotSupported" /\ sig' = sig
      BY <1>3, <2>4 DEF JSONTrip
    <3>2. QED
      BY <2>1, <2>4, <3>1
  <2>5. QED
    BY <2>3, <2>4
<1>4. QED
  BY <1>2, <1>3 DEF Trip

\* recoverPlain: 27 less than a V of 0 or 1, as a byte, is neither.
LEMMA Minus27 ==
  ASSUME NEW v \in {0, 1} PROVE (v - 27) % 256 \notin {0, 1}
<1>1. PICK x : x = v - 27
  BY Zenon
<1>2. PICK r, q : r = x % 256 /\ q = x \div 256
  BY Zenon
<1>3. x \in Int /\ x < 0 /\ x > -100
  BY <1>1
<1>4. r \in 0..255 /\ q \in Int /\ x = 256 * q + r
  BY <1>2, <1>3
<1>5. r # 0 /\ r # 1
  BY <1>3, <1>4
<1>6. QED
  BY <1>1, <1>2, <1>5, Zenon

\* Every step keeps it.
LEMMA NextSigningInv == SigningInv /\ [Next]_vars => SigningInv'
<1> SUFFICES ASSUME SigningInv, [Next]_vars PROVE SigningInv'
  OBVIOUS
<1>1. ASSUME NEW s \in Signature, Sign(s) PROVE SigningInv'
  BY <1>1, SigningAssumption DEF Sign, SigningInv, ValidSignature
<1>2. ASSUME NEW s \in Signature, ClientSignature(s) PROVE SigningInv'
  <2>1. s \in ValidSignature
    BY SigningAssumption DEF ValidSignature
  <2>2. SignatureValues(ToBytes(s)) = s /\ s # Fail
    BY <2>1, BytesReadBack
  <2>3. WithSignature(ToBytes(s), "tx", "client")
    BY <1>2, <2>2 DEF ClientSignature
  <2>4. /\ sig' = s /\ over' = "tx" /\ origin = "none" /\ origin' = "client"
        /\ UNCHANGED <<outcome, type>>
    BY <2>2, <2>3 DEF WithSignature
  <2>5. QED
    BY <2>1, <2>4 DEF SigningInv
<1>3. ASSUME NEW s \in Signature, SignTx(s) \/ SignNewTx(s) PROVE SigningInv'
  <2>1. origin' \in {"SignTx", "SignNewTx"}
    BY <1>3 DEF SignTx, SignNewTx, WithSignature
  <2>2. QED
    BY <2>1 DEF SigningInv
<1>4. CASE Trip
  <2>1. origin' = origin /\ type' = type
    BY <1>4 DEF Trip, RLPTrip, JSONTrip
  <2>2. CASE origin \in {"none", "Sign", "client"}
    BY <1>4, <2>2, TripsKeep DEF SigningInv
  <2>3. CASE origin \notin {"none", "Sign", "client"}
    BY <2>1, <2>3 DEF SigningInv
  <2>4. QED
    BY <2>2, <2>3
<1>5. CASE Sender
  <2>1. /\ UNCHANGED <<type, sig, over, origin>>
        /\ sig.V \in {0, 1} => outcome' = "panic"
    <3>1. sig.V \in {0, 1} => ~ ValidateSignatureValues((sig.V - 27) % 256, sig)
      BY Minus27, Zenon DEF ValidateSignatureValues
    <3>2. QED
      BY <1>5, <3>1, Zenon DEF Sender
  <2>2. origin \in {"none", "Sign", "client"} => sig.V \in {0, 1}
    BY DEF SigningInv, ValidSignature, Unsigned
  <2>3. QED
    BY <2>1, <2>2 DEF SigningInv
<1>6. CASE UNCHANGED vars
  BY <1>6 DEF vars, SigningInv
<1>7. QED
  BY <1>1, <1>2, <1>3, <1>4, <1>5, <1>6 DEF Next

\* Every transaction that Transaction.Sign or a client signed verifies, and goes
\* on verifying through any number of encodings, for signatures of any length.
THEOREM SignaturesVerify == Spec => []SignedVerifies
<1>1. Init => SigningInv
  BY DEF Init, SigningInv
<1>2. SigningInv => SignedVerifies
  BY DEF SigningInv, SignedVerifies, Verify, ValidateSignatureValues, ValidSignature
<1>3. QED
  BY <1>1, <1>2, NextSigningInv, PTL DEF Spec
=============================================================================
