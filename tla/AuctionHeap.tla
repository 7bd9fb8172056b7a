---------------------------- MODULE AuctionHeap ----------------------------
(***************************************************************************)
(* The auction queue as the slice that it is: WriteRFQTxs pushes an opened *)
(* RFQ with container/heap while it holds the chain's lock, and            *)
(* processAuctionQueue pops the RFQs that are due without it.  Every call  *)
(* of Less, Swap, Push and Pop loads the slice anew; append moves the      *)
(* elements to a larger array when the old one is full.                    *)
(*                                                                         *)
(* RFQAuction treats a push and a pop as one step each; this module shows  *)
(* what that rests on.  Indices start at 1.                                *)
(***************************************************************************)
EXTENDS Integers, Sequences, FiniteSets

CONSTANTS RFQ, RFQEndTime, LastTime, Unset

Time == 0..LastTime

ASSUME EndTimeAssumption == LastTime \in Nat /\ RFQEndTime \in [RFQ -> Time]

VARIABLES
  mem,        \* the arrays: sequences of pointers to RFQs
  aq,         \* the slice: its array and its length
  push, pop,  \* the goroutines: where they are, and the indices they use
  clock,
  panicked,
  pushed,     \* history: RFQs whose push has begun
  popped,     \* history: RFQs in the order of their return
  overlapped  \* history: a push and a pop were under way together

heapVars == <<mem, aq, push, pop, clock, panicked, pushed, popped, overlapped>>

Idle == [at |-> "idle", i |-> 0, n |-> 0, old |-> [arr |-> 1, len |-> 0], x |-> Unset]

HeapInit ==
  /\ mem = <<<<>>>> /\ aq = [arr |-> 1, len |-> 0]
  /\ push = Idle /\ pop = Idle
  /\ clock = 0 /\ panicked = FALSE
  /\ pushed = {} /\ popped = <<>> /\ overlapped = FALSE

Contents == SubSeq(mem[aq.arr], 1, aq.len)

----------------------------------------------------------------------------
(* AuctionQueue *)

Within(i, j) == {i, j} \subseteq 1..aq.len

Less(i, j) == RFQEndTime[mem[aq.arr][i]] < RFQEndTime[mem[aq.arr][j]]

Swapped(i, j) == [mem EXCEPT ![aq.arr][i] = mem[aq.arr][j], ![aq.arr][j] = mem[aq.arr][i]]

\* container/heap: the parent of an element is its own at the root.
Parent(j) == IF j = 1 THEN 1 ELSE j \div 2

\* Mutant of Child: only the left child is looked at.
ChildLeft(i, n) == 2 * i

\* The lesser child of i among the first n elements.
Child(i, n) == IF 2 * i + 1 <= n /\ Less(2 * i + 1, 2 * i) THEN 2 * i + 1 ELSE 2 * i

----------------------------------------------------------------------------
(* The goroutines.  Both note whether the other is in the middle. *)

Note == overlapped' = (overlapped \/ (push'.at # "idle" /\ pop'.at # "idle"))

PushStep(place) == ~ panicked /\ push.at = place /\ UNCHANGED <<pop, clock, popped>> /\ Note

PopStep(place) == ~ panicked /\ pop.at = place /\ UNCHANGED <<push, clock, pushed>> /\ Note

\* heap.Push: append loads the slice ...
PushLoad(x) ==
  /\ push' = [Idle EXCEPT !.at = "append", !.old = aq, !.x = x]
  /\ pushed' = pushed \cup {x}
  /\ PushStep("idle")
  /\ UNCHANGED <<mem, aq, panicked>>

\* ... and stores the longer one, in a new array if the old one is full.
PushStore ==
  LET old == push.old
      cells == mem[old.arr]
      full == old.len = Len(cells)
  IN  /\ mem' = IF full THEN Append(mem, cells \o <<push.x>> \o [c \in 1..(old.len - 1) |-> Unset])
                ELSE [mem EXCEPT ![old.arr][old.len + 1] = push.x]
      /\ aq' = [arr |-> IF full THEN Len(mem) + 1 ELSE old.arr, len |-> old.len + 1]
      /\ push' = [push EXCEPT !.at = "last"]
      /\ PushStep("append")
      /\ UNCHANGED <<panicked, pushed>>

\* up starts at the last element.
PushLast ==
  /\ push' = [push EXCEPT !.at = "up", !.i = aq.len]
  /\ PushStep("last")
  /\ UNCHANGED <<mem, aq, panicked, pushed>>

\* One comparison of up.
PushUp ==
  LET j == push.i
      i == Parent(j)
  IN  /\ IF j < 1 \/ i = j
         THEN push' = Idle /\ UNCHANGED panicked
         ELSE IF ~ Within(i, j)
         THEN panicked' = TRUE /\ UNCHANGED push
         ELSE push' = (IF Less(j, i) THEN [push EXCEPT !.at = "swap"] ELSE Idle) /\ UNCHANGED panicked
      /\ PushStep("up")
      /\ UNCHANGED <<mem, aq, pushed>>

PushSwap ==
  LET i == Parent(push.i) IN
  /\ IF ~ Within(i, push.i)
     THEN panicked' = TRUE /\ UNCHANGED <<mem, push>>
     ELSE /\ mem' = Swapped(i, push.i)
          /\ push' = [push EXCEPT !.at = "up", !.i = i]
          /\ UNCHANGED panicked
  /\ PushStep("swap")
  /\ UNCHANGED <<aq, pushed>>

\* processAuctionQueue finds the first element due; heap.Pop notes the length.
PopDue ==
  /\ aq.len > 0 /\ RFQEndTime[mem[aq.arr][1]] <= clock
  /\ pop' = [Idle EXCEPT !.at = "first", !.n = aq.len]
  /\ PopStep("idle")
  /\ UNCHANGED <<mem, aq, panicked, popped>>

\* The first element changes places with the last.
PopFirst ==
  /\ IF ~ Within(1, pop.n)
     THEN panicked' = TRUE /\ UNCHANGED <<mem, pop>>
     ELSE /\ mem' = Swapped(1, pop.n)
          /\ pop' = [pop EXCEPT !.at = "down", !.i = 1]
          /\ UNCHANGED panicked
  /\ PopStep("first")
  /\ UNCHANGED <<aq, popped>>

\* One level of down, over all but the last element: its comparisons ...
PopDown ==
  LET i == pop.i
      n == pop.n - 1
  IN  /\ IF 2 * i > n
         THEN pop' = [pop EXCEPT !.at = "take"] /\ UNCHANGED panicked
         ELSE IF ~ Within(i, n)
         THEN panicked' = TRUE /\ UNCHANGED pop
         ELSE /\ pop' = [pop EXCEPT !.at = IF Less(Child(i, n), i) THEN "swap" ELSE "take",
                                    !.old = [@ EXCEPT !.len = Child(i, n)]]
              /\ UNCHANGED panicked
      /\ PopStep("down")
      /\ UNCHANGED <<mem, aq, popped>>

\* ... and the change of places with the child they chose.
PopSwap ==
  LET j == pop.old.len IN
  /\ IF ~ Within(pop.i, j)
     THEN panicked' = TRUE /\ UNCHANGED <<mem, pop>>
     ELSE /\ mem' = Swapped(pop.i, j)
          /\ pop' = [pop EXCEPT !.at = "down", !.i = j]
          /\ UNCHANGED panicked
  /\ PopStep("swap")
  /\ UNCHANGED <<aq, popped>>

\* AuctionQueue.Pop loads the slice and its last element ...
PopTake ==
  /\ IF aq.len = 0 THEN panicked' = TRUE /\ UNCHANGED pop
     ELSE /\ pop' = [pop EXCEPT !.at = "store", !.old = aq, !.x = mem[aq.arr][aq.len]]
          /\ UNCHANGED panicked
  /\ PopStep("take")
  /\ UNCHANGED <<mem, aq, popped>>

\* Mutant of PopStore: the first element is cut off, not the last.
PopStoreStale ==
  /\ aq' = [pop.old EXCEPT !.len = @ - 1]
  /\ mem' = [mem EXCEPT ![pop.old.arr] = [i \in DOMAIN @ |-> IF i < Len(@) THEN @[i + 1] ELSE @[i]]]
  /\ popped' = Append(popped, pop.x)
  /\ pop' = Idle
  /\ PopStep("store")
  /\ UNCHANGED panicked

\* ... and stores the shorter one.
PopStore ==
  /\ aq' = [pop.old EXCEPT !.len = @ - 1]
  /\ popped' = Append(popped, pop.x)
  /\ pop' = Idle
  /\ PopStep("store")
  /\ UNCHANGED <<mem, panicked>>

TimePasses ==
  /\ ~ panicked /\ clock < LastTime
  /\ clock' = clock + 1
  /\ UNCHANGED <<mem, aq, push, pop, panicked, pushed, popped, overlapped>>

Push ==
  \/ \E x \in RFQ \ pushed : PushLoad(x)
  \/ PushStore \/ PushLast \/ PushUp \/ PushSwap

Pop == PopDue \/ PopFirst \/ PopDown \/ PopSwap \/ PopTake \/ PopStore

HeapNext == Push \/ Pop \/ TimePasses

HeapSpec == HeapInit /\ [][HeapNext]_heapVars

----------------------------------------------------------------------------
(* Properties *)

AtRest == push.at = "idle" /\ pop.at = "idle"

Popped == {popped[i] : i \in DOMAIN popped}

\* Between operations the queue holds every RFQ that was pushed and not popped,
\* once, provided that no push and pop have overlapped: neither append's move to
\* a larger array nor the shortening of the slice loses or repeats an element.
ExactUnlessOverlapped ==
  AtRest /\ ~ overlapped =>
    /\ {Contents[i] : i \in 1..aq.len} = pushed \ Popped
    /\ aq.len = Cardinality(pushed \ Popped)

\* A pop returns an auction that is due, and none that is left ends earlier,
\* whatever pushes and pops came before.
PopsEarliestUnlessOverlapped ==
  [][popped' # popped /\ ~ overlapped' =>
       LET x == popped'[Len(popped')] IN
       /\ RFQEndTime[x] <= clock
       /\ \A y \in pushed \ (Popped \cup {x}) : RFQEndTime[x] <= RFQEndTime[y]]_heapVars

----------------------------------------------------------------------------
(* What the documents say and the code does not do: TLC refutes these. *)

\* No auction is lost or closed twice.  A comment in processAuctionQueue says
\* "remember to use your lock to prevent data races" above a lock that is
\* commented out.
AuctionsAreKept ==
  ~ panicked /\ (AtRest => /\ pushed = Popped \cup {Contents[i] : i \in 1..aq.len}
                           /\ Len(popped) = Cardinality(Popped))
=============================================================================
