--------------------------- MODULE SlotPoolProofs ---------------------------
(***************************************************************************)
(* Proofs about SlotPool, for every number of slots and every ring that    *)
(* has room for them: type correctness, that the queue of released slots   *)
(* implements HandOver even after "free" has been corrupted, and that      *)
(* slots are conserved while the returns to "free" do not overlap.         *)
(***************************************************************************)
EXTENDS SlotPool, FiniteSetTheorems, SequenceTheorems, TLAPS

\* Which thread does what, and where it can be in it.
JobsOK ==
    /\ job["wal"] \in {"idle", "acquire", "release", "discard", "refuse"}
    /\ job["flush"] \in {"idle", "collect", "reclaim"}
    /\ \A th \in Threads :
        /\ job[th] = "idle" => pc[th] = "load"
        /\ job[th] \in PopJobs => pc[th] \in {"load", "read", "store"}
        /\ job[th] \in PushJobs => pc[th] # "read" /\ held[th] # <<>>

TypeInv == TypeOK /\ JobsOK

\* What a pushing thread has loaded is still so, and the slot it is about to
\* publish is in its cell.
PushView(th) ==
    job[th] \in PushJobs /\ pc[th] # "load" =>
        /\ at[th] = write_index[QueueOf(th)]
        /\ pc[th] \in {"write", "store"} => ~IsFull(at[th], read_index[QueueOf(th)])
        /\ pc[th] = "store" => buffer[QueueOf(th)][at[th]] = Pushed(th)

\* What a popping thread has loaded is still so, and the slot it has read is
\* the oldest one.
PopView(th) ==
    job[th] \in PopJobs /\ pc[th] # "load" =>
        /\ at[th] = read_index[QueueOf(th)]
        /\ ~IsEmpty(QueueOf(th))
        /\ pc[th] = "store" => item[th] = buffer[QueueOf(th)][at[th]]

\* "pending" always has one producer, "free" as long as no returns overlapped.
Serial(q) == q = "pending" \/ ~raced

ViewsOK == \A th \in Threads : Serial(QueueOf(th)) => PushView(th) /\ PopView(th)

OneReturns == ~raced => ~(InFreePush("wal") /\ InFreePush("flush"))

RingInv == TypeInv /\ ViewsOK /\ OneReturns

\* No cell that was never written is ever taken for a slot.
OnlySlots ==
    ~raced => /\ \A q \in Queues : Content(q) \in Seq(Slots)
              /\ \A th \in Threads : held[th] \in Seq(Slots)

-----------------------------------------------------------------------------
\* A ring by its cells b and its two indices w and r.
Room(w, r)     == IF w >= r THEN w - r ELSE Capacity - r + w
Place(r, k)    == IF r + k - 1 >= Capacity THEN r + k - 1 - Capacity ELSE r + k - 1
Ring(b, w, r)  == [k \in 1..Room(w, r) |-> b[Place(r, k)]]

Cells == [Indices -> Slots \cup {NoSlot}]

LEMMA Arithmetic ==
    Capacity \in Nat \ {0} /\ EventCount \in Nat \ {0} /\ Indices = 0..(Capacity - 1)
BY SlotPoolAssumption DEF Indices

\* How many slots a ring holds, and what its two tests mean by it.
LEMMA RoomBounds ==
    ASSUME NEW w \in Indices, NEW r \in Indices
    PROVE  /\ Room(w, r) \in Nat /\ Room(w, r) < Capacity
           /\ (r = w <=> Room(w, r) = 0)
           /\ (IsFull(w, r) <=> Room(w, r) = Capacity - 1)
           /\ NextIndex(w) \in Indices
BY Arithmetic DEF Room, IsFull, NextIndex

\* The content of a queue is that of its ring.
RingTypes == write_index \in [Queues -> Indices] /\ read_index \in [Queues -> Indices]

LEMMA ContentIsRing ==
    RingTypes => \A q \in Queues : Content(q) = Ring(buffer[q], write_index[q], read_index[q])
<1> SUFFICES ASSUME RingTypes, NEW q \in Queues
             PROVE  Content(q) = Ring(buffer[q], write_index[q], read_index[q])
  OBVIOUS
<1>0. write_index[q] \in Indices /\ read_index[q] \in Indices
  BY DEF RingTypes
<1>1. Used(q) = Room(write_index[q], read_index[q])
  BY DEF Used, Room
<1>2. \A k \in Int : Cell(q, k) = buffer[q][Place(read_index[q], k)]
  BY <1>0, Arithmetic DEF Cell, Place
<1>3. Used(q) \in Nat
  BY <1>0, <1>1, RoomBounds
<1> QED
  BY <1>1, <1>2, <1>3 DEF Content, Ring

LEMMA ContentIsRingNext ==
    RingTypes' => \A q \in Queues : Content(q)' = Ring(buffer'[q], write_index'[q], read_index'[q])
<1>1. (RingTypes => \A q \in Queues : Content(q) = Ring(buffer[q], write_index[q], read_index[q]))'
  BY ContentIsRing, PTL
<1> QED
  BY <1>1

\* The k-th oldest slot is at its place, which is not where the next one goes.
LEMMA PlaceOfSlot ==
    ASSUME NEW w \in Indices, NEW r \in Indices, NEW k \in 1..Room(w, r)
    PROVE  Place(r, k) \in Indices /\ Place(r, k) # w
BY Arithmetic DEF Room, Place

\* What a ring holds, as a sequence.
LEMMA RingIsSeq ==
    ASSUME NEW b \in Cells, NEW w \in Indices, NEW r \in Indices
    PROVE  /\ Ring(b, w, r) \in Seq(Slots \cup {NoSlot})
           /\ Len(Ring(b, w, r)) = Room(w, r)
           /\ \A k \in 1..Room(w, r) : Ring(b, w, r)[k] = b[Place(r, k)]
<1>1. Room(w, r) \in Nat
  BY RoomBounds, SlotPoolAssumption
<1>2. \A k \in 1..Room(w, r) : b[Place(r, k)] \in Slots \cup {NoSlot}
  BY PlaceOfSlot DEF Cells
<1> HIDE DEF Slots, NoSlot
<1> QED
  BY <1>1, <1>2 DEF Ring

\* Writing the cell where the next slot goes changes nothing yet.
LEMMA WriteHidden ==
    ASSUME NEW b \in Cells, NEW c \in Cells, NEW w \in Indices, NEW r \in Indices,
           \A i \in Indices : i # w => c[i] = b[i]
    PROVE  Ring(c, w, r) = Ring(b, w, r)
BY PlaceOfSlot DEF Ring

\* Moving the write index past a cell appends the slot in it.
LEMMA PushAppends ==
    ASSUME NEW b \in Cells, NEW w \in Indices, NEW r \in Indices, ~IsFull(w, r)
    PROVE  /\ Ring(b, NextIndex(w), r) = Append(Ring(b, w, r), b[w])
           /\ Len(Ring(b, w, r)) < Capacity - 1
<1> DEFINE n == Room(w, r)
           v == NextIndex(w)
<1>1. n \in 0..(Capacity - 2) /\ v \in Indices
  BY RoomBounds, SlotPoolAssumption
<1>2. Room(v, r) = n + 1 /\ Place(r, n + 1) = w
  BY Arithmetic DEF Room, IsFull, NextIndex, Place
<1>3. b[w] \in Slots \cup {NoSlot}
  BY DEF Cells
<1>4. /\ Ring(b, w, r) \in Seq(Slots \cup {NoSlot}) /\ Len(Ring(b, w, r)) = n
      /\ \A k \in 1..n : Ring(b, w, r)[k] = b[Place(r, k)]
  BY RingIsSeq
<1>5. /\ Ring(b, v, r) \in Seq(Slots \cup {NoSlot}) /\ Len(Ring(b, v, r)) = n + 1
      /\ \A k \in 1..(n + 1) : Ring(b, v, r)[k] = b[Place(r, k)]
  <2> HIDE DEF v
  <2>1. /\ Ring(b, v, r) \in Seq(Slots \cup {NoSlot}) /\ Len(Ring(b, v, r)) = Room(v, r)
        /\ \A k \in 1..Room(v, r) : Ring(b, v, r)[k] = b[Place(r, k)]
    BY RingIsSeq, <1>1
  <2> HIDE DEF n, Slots, NoSlot
  <2> QED BY <1>2, <2>1
<1> HIDE DEF n, v, Slots, NoSlot
<1>6. /\ Append(Ring(b, w, r), b[w]) \in Seq(Slots \cup {NoSlot})
      /\ Len(Append(Ring(b, w, r), b[w])) = n + 1
      /\ \A k \in 1..(n + 1) : Append(Ring(b, w, r), b[w])[k] = b[Place(r, k)]
  BY <1>1, <1>2, <1>3, <1>4
<1>7. Ring(b, v, r) = Append(Ring(b, w, r), b[w])
  BY <1>1, <1>5, <1>6, SeqEqual
<1> QED
  BY <1>1, <1>4, <1>7, Arithmetic DEF v

\* Moving the read index takes the oldest slot away.
LEMMA PopTakesOldest ==
    ASSUME NEW b \in Cells, NEW w \in Indices, NEW r \in Indices, r # w
    PROVE  /\ Ring(b, w, r) # <<>> /\ Head(Ring(b, w, r)) = b[r]
           /\ Ring(b, w, NextIndex(r)) = Tail(Ring(b, w, r))
<1> DEFINE n == Room(w, r)
           s == NextIndex(r)
<1>1. n \in 1..(Capacity - 1) /\ s \in Indices
  BY RoomBounds, SlotPoolAssumption
<1>2. /\ Room(w, s) = n - 1 /\ Place(r, 1) = r
      /\ \A k \in 1..(n - 1) : Place(s, k) = Place(r, k + 1)
  BY Arithmetic DEF Room, NextIndex, Place
<1>4. /\ Ring(b, w, r) \in Seq(Slots \cup {NoSlot}) /\ Len(Ring(b, w, r)) = n
      /\ \A k \in 1..n : Ring(b, w, r)[k] = b[Place(r, k)]
  BY RingIsSeq
<1>5. /\ Ring(b, w, s) \in Seq(Slots \cup {NoSlot}) /\ Len(Ring(b, w, s)) = n - 1
      /\ \A k \in 1..(n - 1) : Ring(b, w, s)[k] = b[Place(s, k)]
  <2> HIDE DEF s
  <2>1. /\ Ring(b, w, s) \in Seq(Slots \cup {NoSlot}) /\ Len(Ring(b, w, s)) = Room(w, s)
        /\ \A k \in 1..Room(w, s) : Ring(b, w, s)[k] = b[Place(s, k)]
    BY RingIsSeq, <1>1
  <2> HIDE DEF n, Slots, NoSlot
  <2> QED BY <1>2, <2>1
<1> HIDE DEF n, s, Slots, NoSlot
<1>6. /\ Ring(b, w, r) # <<>> /\ Head(Ring(b, w, r)) = b[r]
      /\ Tail(Ring(b, w, r)) \in Seq(Slots \cup {NoSlot})
      /\ Len(Tail(Ring(b, w, r))) = n - 1
      /\ \A k \in 1..(n - 1) : Tail(Ring(b, w, r))[k] = b[Place(s, k)]
  BY <1>1, <1>2, <1>4
<1>7. Ring(b, w, s) = Tail(Ring(b, w, r))
  BY <1>1, <1>5, <1>6, SeqEqual
<1> QED
  BY <1>6, <1>7 DEF s

-----------------------------------------------------------------------------
(* Type correctness.                                                       *)

LEMMA TypeInit == Init => TypeInv
<1> SUFFICES ASSUME Init PROVE TypeInv
  OBVIOUS
<1>1. EventCount \in Indices /\ 0 \in Indices /\ Slots \subseteq Indices
  BY SlotPoolAssumption DEF Indices, Slots
<1>2. TypeOK
  <2>1. buffer \in [Queues -> [Indices -> Slots \cup {NoSlot}]]
    BY DEF Init
  <2>2. <<>> \in Seq(Slots \cup {NoSlot})
    OBVIOUS
  <2>3. NoSlot \in Slots \cup {NoSlot} /\ 0 \in 0..MaxDiscards
    BY SlotPoolAssumption
  <2> HIDE DEF Slots, NoSlot, Indices
  <2> QED
    BY <1>1, <2>1, <2>2, <2>3 DEF Init, TypeOK, Queues
<1>3. JobsOK
  BY DEF Init, JobsOK, Threads, PopJobs, PushJobs, FreeJobs
<1> QED
  BY <1>2, <1>3 DEF TypeInv

\* A slot that is no longer needed leaves the thread's sequence well formed.
LEMMA LeavingTypes ==
    ASSUME TypeInv, NEW th \in Threads, job[th] \in PushJobs, SlotLeaves(th)
    PROVE  /\ held' \in [Threads -> Seq(Slots \cup {NoSlot})]
           /\ job' \in [Threads -> PopJobs \cup PushJobs \cup {"idle"}]
           /\ pc' \in [Threads -> {"load", "check", "write", "store", "read"}]
           /\ JobsOK'
<1> DEFINE C == Slots \cup {NoSlot}
<1>1. held[th] \in Seq(C) /\ held[th] # <<>>
  BY DEF TypeInv, TypeOK, JobsOK
<1>2. Rest(th) \in Seq(C)
  <2> HIDE DEF C
  <2>1. Tail(held[th]) \in Seq(C)
    BY <1>1
  <2>2. Len(held[th]) \in Nat \ {0}
    BY <1>1
  <2>3. SubSeq(held[th], 1, Len(held[th]) - 1) \in Seq(C)
    BY <1>1, <2>2, SubSeqProperties, ElementOfSeq
  <2> QED
    BY <2>1, <2>3 DEF Rest, Front
<1>3. /\ held' = [held EXCEPT ![th] = Rest(th)]
      /\ pc' = [pc EXCEPT ![th] = "load"]
      /\ \/ Rest(th) # <<>> /\ job' = job
         \/ job' = [job EXCEPT ![th] = "idle"]
  BY DEF SlotLeaves
<1> HIDE DEF C
<1>4. /\ held \in [Threads -> Seq(C)]
      /\ job \in [Threads -> PopJobs \cup PushJobs \cup {"idle"}]
      /\ pc \in [Threads -> {"load", "check", "write", "store", "read"}]
      /\ JobsOK
  BY DEF TypeInv, TypeOK, C
<1>5. held' \in [Threads -> Seq(C)]
  BY <1>2, <1>3, <1>4
<1>6. JobsOK'
  BY <1>3, <1>4 DEF JobsOK, Threads, PopJobs, PushJobs, FreeJobs
<1> QED
  BY <1>3, <1>4, <1>5, <1>6 DEF C

LEMMA TypeStep == TypeInv /\ [Next]_vars => TypeInv'
<1> SUFFICES ASSUME TypeInv, [Next]_vars PROVE TypeInv'
  OBVIOUS
<1> USE DEF TypeInv
<1>1. CASE UNCHANGED vars
  BY <1>1 DEF vars, TypeOK, JobsOK
<1>2. CASE Acquire \/ Release \/ Discard \/ Refuse \/ Collect \/ Reclaim
  <2>1. JobsOK'
    BY <1>2 DEF Acquire, Release, Discard, Refuse, Collect, Reclaim, Starts, TypeOK, JobsOK,
                Threads, PopJobs, PushJobs, FreeJobs
  <2>2. TypeOK'
    BY <1>2, SlotPoolAssumption DEF Acquire, Release, Discard, Refuse, Collect, Reclaim, Starts,
                TypeOK, Threads, PopJobs, PushJobs, FreeJobs
  <2> QED
    BY <2>1, <2>2
<1>3. ASSUME NEW th \in Threads, Step(th) PROVE TypeInv'
  <2>0. QueueOf(th) \in Queues
    BY DEF QueueOf, Queues
  <2>1. CASE PushLoad(th)
    BY <2>0, <2>1 DEF PushLoad, TypeOK, JobsOK, PopJobs, PushJobs, FreeJobs
  <2>2. CASE PushCheck(th)
    <3>1. CASE pc' = [pc EXCEPT ![th] = "write"] /\ UNCHANGED <<held, job>>
      BY <2>2, <3>1 DEF PushCheck, TypeOK, JobsOK, PopJobs, PushJobs, FreeJobs
    <3>2. CASE pc' = [pc EXCEPT ![th] = "load"] /\ UNCHANGED <<held, job>>
      BY <2>2, <3>2 DEF PushCheck, TypeOK, JobsOK, PopJobs, PushJobs, FreeJobs
    <3>3. CASE SlotLeaves(th)
      BY <2>2, <3>3, LeavingTypes DEF PushCheck, TypeOK
    <3> QED
      BY <2>2, <3>1, <3>2, <3>3 DEF PushCheck
  <2>3. CASE PushWrite(th)
    <3>1. Pushed(th) \in Slots \cup {NoSlot}
      <4>1. held[th] \in Seq(Slots \cup {NoSlot}) /\ held[th] # <<>>
        BY <2>3 DEF PushWrite, TypeOK, JobsOK
      <4> HIDE DEF Slots, NoSlot
      <4> QED
        BY <4>1 DEF Pushed, Last
    <3>2. buffer' \in [Queues -> [Indices -> Slots \cup {NoSlot}]]
      BY <2>0, <2>3, <3>1 DEF PushWrite, TypeOK
    <3> QED
      BY <2>3, <3>2 DEF PushWrite, TypeOK, JobsOK, PopJobs, PushJobs, FreeJobs
  <2>4. CASE PushStore(th)
    <3>1. write_index' \in [Queues -> Indices]
      BY <2>0, <2>4, RoomBounds DEF PushStore, TypeOK
    <3> QED
      BY <2>4, <3>1, LeavingTypes DEF PushStore, TypeOK
  <2>5. CASE PopCheck(th)
    <3>1. CASE job' = [job EXCEPT ![th] = "idle"] /\ UNCHANGED <<pc, at>>
      BY <2>5, <3>1 DEF PopCheck, TypeOK, JobsOK, PopJobs, PushJobs, FreeJobs
    <3>2. CASE /\ at' = [at EXCEPT ![th] = read_index[QueueOf(th)]]
               /\ pc' = [pc EXCEPT ![th] = "read"] /\ UNCHANGED job
      BY <2>0, <2>5, <3>2 DEF PopCheck, TypeOK, JobsOK, PopJobs, PushJobs, FreeJobs
    <3> QED
      BY <2>5, <3>1, <3>2 DEF PopCheck
  <2>6. CASE PopRead(th)
    BY <2>0, <2>6 DEF PopRead, TypeOK, JobsOK, PopJobs, PushJobs, FreeJobs
  <2>7. CASE PopStore(th)
    <3>1. read_index' \in [Queues -> Indices]
      BY <2>0, <2>7, RoomBounds DEF PopStore, TypeOK
    <3>2. held' \in [Threads -> Seq(Slots \cup {NoSlot})]
      <4>1. /\ held \in [Threads -> Seq(Slots \cup {NoSlot})] /\ item[th] \in Slots \cup {NoSlot}
            /\ held' = [held EXCEPT ![th] = Append(held[th], item[th])]
        BY <2>7 DEF PopStore, TypeOK
      <4> HIDE DEF Slots, NoSlot
      <4> QED
        BY <4>1
    <3> QED
      BY <2>7, <3>1, <3>2 DEF PopStore, TypeOK, JobsOK, PopJobs, PushJobs, FreeJobs
  <2> QED
    BY <1>3, <2>1, <2>2, <2>3, <2>4, <2>5, <2>6, <2>7 DEF Step
<1> QED
  BY <1>1, <1>2, <1>3 DEF Next

-----------------------------------------------------------------------------
(* The threads' views of the rings.                                        *)

LEMMA OnePusher ==
    ASSUME RingInv, NEW th \in Threads, NEW u \in Threads \ {th},
           QueueOf(u) = QueueOf(th), Serial(QueueOf(th)),
           job[th] \in PushJobs, pc[th] # "load", job[u] \in PushJobs, pc[u] # "load"
    PROVE  FALSE
BY DEF RingInv, TypeInv, JobsOK, OneReturns, InFreePush, QueueOf, Serial, Threads,
       PushJobs, FreeJobs

LEMMA OnePopper ==
    ASSUME RingInv, NEW th \in Threads, NEW u \in Threads \ {th},
           QueueOf(u) = QueueOf(th), job[th] \in PopJobs
    PROVE  job[u] \notin PopJobs
BY DEF RingInv, TypeInv, JobsOK, QueueOf, Threads, PopJobs

\* A thread that does not step keeps its part of the state.
Idles(u) == /\ job'[u] = job[u] /\ pc'[u] = pc[u] /\ at'[u] = at[u]
            /\ item'[u] = item[u] /\ held'[u] = held[u]

LEMMA OthersIdle ==
    ASSUME TypeInv, NEW th \in Threads, Step(th), NEW u \in Threads \ {th}
    PROVE  Idles(u)
<1> USE DEF TypeInv, TypeOK, Idles
<1>1. ASSUME SlotLeaves(th) PROVE job'[u] = job[u] /\ pc'[u] = pc[u] /\ held'[u] = held[u]
  BY <1>1 DEF SlotLeaves
<1>2. CASE PushLoad(th) \/ PushWrite(th) \/ PopCheck(th) \/ PopRead(th) \/ PopStore(th)
  BY <1>2 DEF PushLoad, PushWrite, PopCheck, PopRead, PopStore
<1>3. CASE PushCheck(th)
  BY <1>1, <1>3 DEF PushCheck
<1>4. CASE PushStore(th)
  BY <1>1, <1>4 DEF PushStore
<1> QED
  BY <1>2, <1>3, <1>4 DEF Step

\* A thread that has just finished one operation has no view to keep.
LEMMA NoView ==
    \A th \in Threads : pc'[th] = "load" => PushView(th)' /\ PopView(th)'
BY DEF PushView, PopView

\* The view of a thread whose queue is not touched.
LEMMA ViewStays ==
    ASSUME RingInv, NEW u \in Threads, Idles(u), raced \in BOOLEAN, raced => raced',
           write_index'[QueueOf(u)] = write_index[QueueOf(u)],
           read_index'[QueueOf(u)] = read_index[QueueOf(u)],
           buffer'[QueueOf(u)] = buffer[QueueOf(u)], Serial(QueueOf(u))'
    PROVE  PushView(u)' /\ PopView(u)'
<1>1. QueueOf(u)' = QueueOf(u) /\ Pushed(u)' = Pushed(u)
  BY DEF QueueOf, Pushed, Idles
<1>2. Serial(QueueOf(u))
  BY <1>1 DEF Serial
<1>3. PushView(u) /\ PopView(u)
  BY <1>2 DEF RingInv, ViewsOK
<1> QED
  BY <1>1, <1>3 DEF PushView, PopView, Idles, IsEmpty

LEMMA ViewsStep ==
    ASSUME RingInv, TypeInv', NEW th \in Threads, Step(th)
    PROVE  ViewsOK' /\ OneReturns'
<1> USE DEF RingInv
<1> DEFINE Q == QueueOf(th)
<1>1. /\ Q \in Queues /\ th \in Threads /\ th \in DOMAIN pc /\ th \in DOMAIN job
      /\ raced \in BOOLEAN /\ (raced => raced')
      /\ \A u \in Threads \ {th} : Idles(u) /\ QueueOf(u)' = QueueOf(u)
  <2>1. raced \in BOOLEAN
    BY DEF TypeInv, TypeOK
  <2>2. raced => raced'
    BY <2>1 DEF Step, PushLoad, PushCheck, PushWrite, PushStore, PopCheck, PopRead, PopStore
  <2> QED
    BY <2>1, <2>2, OthersIdle DEF QueueOf, Queues, Idles, TypeInv, TypeOK
<1>2. /\ pc \in [Threads -> {"load", "check", "write", "store", "read"}]
      /\ job \in [Threads -> PopJobs \cup PushJobs \cup {"idle"}]
      /\ write_index \in [Queues -> Indices] /\ read_index \in [Queues -> Indices]
      /\ at \in [Threads -> Indices] /\ buffer \in [Queues -> [Indices -> Slots \cup {NoSlot}]]
      /\ item \in [Threads -> Slots \cup {NoSlot}]
  BY DEF TypeInv, TypeOK
<1>3. ASSUME pc'[th] = "load" \/ ~(job'[th] \in FreeJobs) \/ (InFreePush(th) /\ raced' = raced)
      PROVE  OneReturns'
  BY <1>1, <1>3 DEF OneReturns, InFreePush, Idles, Threads
<1>4. ASSUME NEW u \in Threads \ {th}, buffer' = buffer, write_index' = write_index,
             read_index' = read_index, Serial(QueueOf(u))'
      PROVE  PushView(u)' /\ PopView(u)'
  BY <1>1, <1>4, ViewStays
<1>5. CASE PushLoad(th)
  <2> USE <1>5 DEF PushLoad
  <2>1. OneReturns'
    <3> SUFFICES ASSUME ~raced', InFreePush("wal")', InFreePush("flush")' PROVE FALSE
      BY DEF OneReturns
    <3>1. job' = job /\ job[th] \in FreeJobs
      BY DEF InFreePush, Threads
    <3>2. \A o \in Threads \ {th} : InFreePush(o)
      BY <1>1, <3>1 DEF InFreePush, Threads, Idles
    <3> QED
      BY <3>1, <3>2 DEF Threads
  <2>2. PushView(th)' /\ PopView(th)'
    BY <1>1, <1>2 DEF PushView, PopView, PushJobs, PopJobs, FreeJobs, QueueOf
  <2> QED
    BY <1>4, <2>1, <2>2 DEF ViewsOK
<1>6. CASE PushCheck(th)
  <2> USE <1>6
  <2>1. CASE ~IsFull(at[th], read_index[Q])
    <3> USE <2>1 DEF PushCheck
    <3>1. OneReturns'
      BY <1>1, <1>3 DEF InFreePush
    <3>2. Serial(Q)' => PushView(th)' /\ PopView(th)'
      <4>1. Serial(Q)' => Serial(Q)
        BY <1>1 DEF Serial, QueueOf
      <4> QED
        BY <1>1, <1>2, <4>1 DEF PushView, PopView, PushJobs, PopJobs, FreeJobs, QueueOf, ViewsOK
    <3> QED
      BY <1>4, <3>1, <3>2 DEF ViewsOK
  <2>2. CASE pc'[th] = "load"
    <3>1. buffer' = buffer /\ write_index' = write_index /\ read_index' = read_index
      BY DEF PushCheck
    <3> QED
      BY <1>3, <1>4, <2>2, <3>1, NoView DEF ViewsOK
  <2> QED
    BY <1>2, <2>1, <2>2 DEF PushCheck, SlotLeaves
<1>7. CASE PushWrite(th)
  <2> USE <1>7 DEF PushWrite
  <2>1. OneReturns'
    BY <1>1, <1>3 DEF InFreePush
  <2>2. \A q \in Queues \ {Q} : buffer'[q] = buffer[q]
    BY <1>2
  <2>3. ASSUME Serial(Q)' PROVE PushView(th)' /\ PopView(th)'
    <3>1. Serial(Q) /\ Q' = Q /\ Pushed(th)' = Pushed(th)
      BY <1>1, <2>3 DEF Serial, QueueOf, Pushed
    <3>2. buffer'[Q][at[th]] = Pushed(th)
      BY <1>1, <1>2
    <3> QED
      BY <1>1, <1>2, <3>1, <3>2 DEF PushView, PopView, PushJobs, PopJobs, FreeJobs, ViewsOK
  <2>4. ASSUME NEW u \in Threads \ {th}, Serial(QueueOf(u))'
        PROVE  PushView(u)' /\ PopView(u)'
    <3>1. CASE QueueOf(u) # Q
      BY <1>1, <2>2, <2>4, <3>1, ViewStays DEF QueueOf, Queues
    <3>2. CASE QueueOf(u) = Q
      <4>1. Serial(Q)
        BY <1>1, <2>4, <3>2 DEF Serial
      <4>2. PushView(u)'
        BY <1>1, <3>2, <4>1, OnePusher DEF PushView, Idles
      <4>3. at[th] = write_index[Q]
        BY <4>1 DEF ViewsOK, PushView
      <4>4. PopView(u)
        BY <3>2, <4>1 DEF ViewsOK
      <4>5. PopView(u)'
        <5>1. \A i \in Indices \ {at[th]} : buffer'[Q][i] = buffer[Q][i]
          BY <1>1, <1>2
        <5> QED
          BY <1>1, <1>2, <3>2, <4>3, <4>4, <5>1 DEF PopView, Idles, IsEmpty
      <4> QED
        BY <4>2, <4>5
    <3> QED
      BY <3>1, <3>2
  <2> QED
    BY <2>1, <2>3, <2>4 DEF ViewsOK
<1>8. CASE PushStore(th)
  <2> USE <1>8 DEF PushStore
  <2>0. pc'[th] = "load"
    BY <1>2 DEF SlotLeaves
  <2>2. \A q \in Queues \ {Q} : write_index'[q] = write_index[q]
    BY <1>2
  <2>4. ASSUME NEW u \in Threads \ {th}, Serial(QueueOf(u))'
        PROVE  PushView(u)' /\ PopView(u)'
    <3>1. CASE QueueOf(u) # Q
      BY <1>1, <2>2, <2>4, <3>1, ViewStays DEF QueueOf, Queues
    <3>2. CASE QueueOf(u) = Q
      <4>1. Serial(Q)
        BY <1>1, <2>4, <3>2 DEF Serial
      <4>2. PushView(u)'
        BY <1>1, <3>2, <4>1, OnePusher DEF PushView, Idles
      <4>3. at[th] = write_index[Q] /\ ~IsFull(at[th], read_index[Q])
        BY <4>1 DEF ViewsOK, PushView
      <4>4. PopView(u)
        BY <3>2, <4>1 DEF ViewsOK
      <4>5. write_index'[Q] = NextIndex(at[th])
        BY <1>1, <1>2
      <4>6. PopView(u)'
        BY <1>1, <1>2, <3>2, <4>3, <4>4, <4>5 DEF PopView, Idles, IsEmpty, IsFull
      <4> QED
        BY <4>2, <4>6
    <3> QED
      BY <3>1, <3>2
  <2> QED
    BY <1>3, <2>0, <2>4, NoView DEF ViewsOK
<1>9. CASE PopCheck(th)
  <2> USE <1>9
  <2>1. OneReturns'
    BY <1>2, <1>3 DEF PopCheck, PopJobs, FreeJobs
  <2>2. CASE IsEmpty(Q)
    BY <1>2, <1>4, <2>1, <2>2, NoView DEF PopCheck, ViewsOK
  <2>3. CASE ~IsEmpty(Q)
    <3>1. PushView(th)' /\ PopView(th)'
      BY <1>1, <1>2, <2>3 DEF PopCheck, PushView, PopView, PushJobs, PopJobs, FreeJobs, QueueOf,
                              IsEmpty
    <3> QED
      BY <1>4, <2>1, <2>3, <3>1 DEF PopCheck, ViewsOK
  <2> QED
    BY <2>2, <2>3
<1>10. CASE PopRead(th)
  <2> USE <1>10 DEF PopRead
  <2>1. OneReturns'
    BY <1>2, <1>3 DEF PopJobs, FreeJobs
  <2>2. Serial(Q)' => PushView(th)' /\ PopView(th)'
    <3>1. Serial(Q)' => Serial(Q)
      BY <1>1 DEF Serial, QueueOf
    <3> QED
      BY <1>1, <1>2, <3>1 DEF PushView, PopView, PushJobs, PopJobs, FreeJobs, QueueOf, ViewsOK,
                              IsEmpty
  <2> QED
    BY <1>4, <2>1, <2>2 DEF ViewsOK
<1>11. CASE PopStore(th)
  <2> USE <1>11 DEF PopStore
  <2>0. pc'[th] = "load"
    BY <1>2
  <2>2. \A q \in Queues \ {Q} : read_index'[q] = read_index[q]
    BY <1>2
  <2>4. ASSUME NEW u \in Threads \ {th}, Serial(QueueOf(u))'
        PROVE  PushView(u)' /\ PopView(u)'
    <3>1. CASE QueueOf(u) # Q
      BY <1>1, <2>2, <2>4, <3>1, ViewStays DEF QueueOf, Queues
    <3>2. CASE QueueOf(u) = Q
      <4>1. Serial(Q)
        BY <1>1, <2>4, <3>2 DEF Serial
      <4>2. PopView(u)'
        BY <1>1, <3>2, OnePopper DEF PopView, Idles
      <4>3. at[th] = read_index[Q] /\ read_index[Q] # write_index[Q]
        BY <4>1 DEF ViewsOK, PopView, IsEmpty
      <4>4. PushView(u)
        BY <3>2, <4>1 DEF ViewsOK
      <4>5. read_index'[Q] = NextIndex(at[th])
        BY <1>1, <1>2
      <4>6. \A w, r \in Indices : w # r => ~IsFull(w, NextIndex(r))
        BY Arithmetic DEF IsFull, NextIndex
      <4>7. Pushed(u)' = Pushed(u)
        BY <1>1 DEF Pushed, Idles
      <4>8. PushView(u)'
        BY <1>1, <1>2, <3>2, <4>3, <4>4, <4>5, <4>6, <4>7 DEF PushView, Idles
      <4> QED
        BY <4>2, <4>8
    <3> QED
      BY <3>1, <3>2
  <2> QED
    BY <1>3, <2>0, <2>4, NoView DEF ViewsOK
<1> QED
  BY <1>5, <1>6, <1>7, <1>8, <1>9, <1>10, <1>11 DEF Step

LEMMA RingInit == Init => RingInv
<1> SUFFICES ASSUME Init PROVE RingInv
  OBVIOUS
<1>1. ViewsOK /\ OneReturns
  BY DEF Init, ViewsOK, OneReturns, PushView, PopView, InFreePush, Threads
<1> QED
  BY <1>1, TypeInit DEF RingInv

LEMMA RingStep == RingInv /\ [Next]_vars => RingInv'
<1> SUFFICES ASSUME RingInv, [Next]_vars PROVE RingInv'
  OBVIOUS
<1>1. TypeInv'
  BY TypeStep DEF RingInv
<1>2. CASE UNCHANGED vars
  BY <1>1, <1>2 DEF vars, RingInv, ViewsOK, PushView, PopView, OneReturns, InFreePush, Serial,
                    QueueOf, IsEmpty, Pushed, Rest
<1>3. CASE Acquire \/ Release \/ Discard \/ Refuse \/ Collect \/ Reclaim
  <2>1. PICK th \in Threads, j \in PopJobs \cup PushJobs : Starts(th, j)
    BY <1>3 DEF Acquire, Release, Discard, Refuse, Collect, Reclaim, Threads, PopJobs, PushJobs,
                FreeJobs
  <2> USE DEF Starts
  <2>2. pc[th] = "load" /\ pc' = pc /\ raced' = raced /\ \A u \in Threads \ {th} : job'[u] = job[u]
    BY <2>1 DEF RingInv, TypeInv, TypeOK, JobsOK
  <2>3. OneReturns'
    BY <2>2 DEF RingInv, OneReturns, InFreePush, Threads
  <2>4. ASSUME NEW u \in Threads \ {th}, Serial(QueueOf(u))' PROVE PushView(u)' /\ PopView(u)'
    BY <2>1, <2>2, <2>4, ViewStays DEF Idles, RingInv, TypeInv, TypeOK
  <2> QED
    BY <1>1, <2>2, <2>3, <2>4, NoView DEF RingInv, ViewsOK
<1>4. CASE \E th \in Threads : Step(th)
  BY <1>1, <1>4, ViewsStep DEF RingInv
<1> QED
  BY <1>2, <1>3, <1>4 DEF Next

LEMMA RingHolds == Spec => []RingInv
BY RingInit, RingStep, PTL DEF Spec

(* Every variable keeps its type: indices stay on the ring, and a thread   *)
(* never takes the head of an empty sequence of slots.                     *)
THEOREM SlotPoolTypeCorrect == Spec => []TypeOK
<1>1. RingInv => TypeOK
  BY DEF RingInv, TypeInv
<1> QED
  BY <1>1, RingHolds, PTL

-----------------------------------------------------------------------------
(* What a step does to the rings.                                          *)

\* The content of a ring as a value, now and next.
LEMMA Contents ==
    ASSUME TypeOK, TypeOK', NEW q \in Queues
    PROVE  /\ Content(q) = Ring(buffer[q], write_index[q], read_index[q])
           /\ Content(q)' = Ring(buffer'[q], write_index'[q], read_index'[q])
           /\ buffer[q] \in Cells /\ buffer'[q] \in Cells
           /\ write_index[q] \in Indices /\ write_index'[q] \in Indices
           /\ read_index[q] \in Indices /\ read_index'[q] \in Indices
BY ContentIsRing, ContentIsRingNext DEF RingTypes, TypeOK, Cells

KeepsContents == \A q \in Queues : Content(q)' = Content(q)
KeepsOthers(q) == \A p \in Queues \ {q} : Content(p)' = Content(p)

\* The one step of a push that others can see ...
PutsIn(th, q) ==
    /\ job[th] \in PushJobs
    /\ Content(q)' = Append(Content(q), Pushed(th)) /\ Len(Content(q)) < Capacity - 1
    /\ held' = [held EXCEPT ![th] = Rest(th)]

\* ... and of a pop,
TakesOut(th, q) ==
    /\ job[th] \in PopJobs
    /\ Content(q) # <<>> /\ Content(q)' = Tail(Content(q))
    /\ held' = [held EXCEPT ![th] = Append(held[th], Head(Content(q)))]

\* and a slot given up because "free" is full.
GivesUp(th) ==
    /\ job[th] \in FreeJobs
    /\ KeepsContents /\ Len(Content("free")) = Capacity - 1
    /\ held' = [held EXCEPT ![th] = Rest(th)]

LEMMA OthersKept ==
    ASSUME TypeOK, TypeOK', NEW th \in Threads, Step(th)
    PROVE  KeepsOthers(QueueOf(th))
<1> SUFFICES ASSUME NEW q \in Queues \ {QueueOf(th)} PROVE Content(q)' = Content(q)
  BY DEF KeepsOthers
<1>1. buffer'[q] = buffer[q] /\ write_index'[q] = write_index[q] /\ read_index'[q] = read_index[q]
  BY DEF TypeOK, Step, PushLoad, PushCheck, PushWrite, PushStore, PopCheck, PopRead, PopStore
<1> QED
  BY <1>1, Contents

LEMMA RingChange ==
    ASSUME RingInv, TypeOK', NEW th \in Threads, Step(th),
           NEW q \in Queues, q = QueueOf(th), Serial(q)
    PROVE  \/ UNCHANGED held /\ KeepsContents
           \/ PutsIn(th, q) \/ TakesOut(th, q) \/ GivesUp(th)
<1>1. /\ TypeOK /\ ViewsOK /\ PushView(th) /\ PopView(th)
      /\ (job[th] \in FreeJobs => q = "free")
      /\ write_index[q] \in Indices /\ read_index[q] \in Indices /\ buffer[q] \in Cells
  BY DEF RingInv, TypeInv, TypeOK, ViewsOK, QueueOf, Queues, FreeJobs, Cells
<1>0. /\ Content(q) = Ring(buffer[q], write_index[q], read_index[q])
      /\ Content(q)' = Ring(buffer'[q], write_index'[q], read_index'[q])
      /\ buffer'[q] \in Cells
  BY <1>1, Contents
<1>2. KeepsOthers(q)
  BY <1>1, OthersKept
<1>3. ASSUME Content(q)' = Content(q) PROVE KeepsContents
  BY <1>2, <1>3 DEF KeepsContents, KeepsOthers
<1>4. ASSUME buffer' = buffer, write_index' = write_index, read_index' = read_index
      PROVE  KeepsContents
  BY <1>1, <1>4, Contents DEF KeepsContents
<1>5. CASE PushLoad(th) \/ PopCheck(th) \/ PopRead(th)
  BY <1>4, <1>5 DEF PushLoad, PopCheck, PopRead
<1>6. CASE PushCheck(th)
  <2>1. KeepsContents
    BY <1>4, <1>6 DEF PushCheck
  <2>2. CASE held' # held
    <3>1. /\ IsFull(at[th], read_index[q]) /\ job[th] \in FreeJobs
          /\ held' = [held EXCEPT ![th] = Rest(th)] /\ at[th] = write_index[q]
      BY <1>1, <1>6, <2>2 DEF PushCheck, PushView, PushJobs, SlotLeaves
    <3>2. Len(Content(q)) = Capacity - 1
      <4>1. Len(Content(q)) = Room(write_index[q], read_index[q])
        BY <1>0, <1>1, RingIsSeq
      <4>2. IsFull(write_index[q], read_index[q])
        BY <3>1
      <4> QED
        BY <1>1, <4>1, <4>2, RoomBounds
    <3> QED
      BY <1>1, <2>1, <3>1, <3>2 DEF GivesUp
  <2> QED
    BY <2>1, <2>2
<1>7. CASE PushWrite(th)
  <2> USE <1>7 DEF PushWrite
  <2>1. at[th] = write_index[q]
    BY <1>1 DEF PushView
  <2>2. \A i \in Indices : i # write_index[q] => buffer'[q][i] = buffer[q][i]
    BY <1>1, <2>1 DEF TypeOK
  <2>3. Content(q)' = Content(q)
    <3>1. write_index'[q] = write_index[q] /\ read_index'[q] = read_index[q]
      OBVIOUS
    <3> QED
      <4>1. Ring(buffer'[q], write_index[q], read_index[q])
              = Ring(buffer[q], write_index[q], read_index[q])
        <5> HIDE DEF PushWrite
        <5> QED
          BY <1>0, <1>1, <2>2, WriteHidden
      <4> QED
        BY <1>0, <3>1, <4>1
  <2> QED
    BY <1>3, <2>3
<1>8. CASE PushStore(th)
  <2> USE <1>8 DEF PushStore
  <2>1. /\ at[th] = write_index[q] /\ ~IsFull(at[th], read_index[q])
        /\ buffer[q][at[th]] = Pushed(th)
    BY <1>1 DEF PushView
  <2>2. write_index'[q] = NextIndex(at[th])
    BY <1>1 DEF TypeOK
  <2> QED
    BY <1>1, <2>1, <2>2, Contents, PushAppends DEF PutsIn, SlotLeaves
<1>9. CASE PopStore(th)
  <2> USE <1>9 DEF PopStore
  <2>1. /\ at[th] = read_index[q] /\ read_index[q] # write_index[q]
        /\ item[th] = buffer[q][at[th]]
    BY <1>1 DEF PopView, IsEmpty
  <2>2. read_index'[q] = NextIndex(at[th])
    BY <1>1 DEF TypeOK
  <2> QED
    <3>1. buffer'[q] = buffer[q] /\ write_index'[q] = write_index[q]
      OBVIOUS
    <3>2. /\ Content(q) # <<>> /\ Head(Content(q)) = item[th]
          /\ Content(q)' = Tail(Content(q))
      BY <1>0, <1>1, <2>1, <2>2, <3>1, PopTakesOldest
    <3> QED
      BY <3>2 DEF TakesOut
<1> QED
  BY <1>5, <1>6, <1>7, <1>8, <1>9 DEF Step

-----------------------------------------------------------------------------
(* The queue of released slots.                                            *)

(* Whatever has happened to "free", the slots the WAL thread releases are  *)
(* received by the flush thread once each and in the order of release: the *)
(* ring, one load or store at a time, implements HandOver.                 *)
THEOREM ReleasesHandedOver == Spec => ReleasedInOrder
<1>1. Init => Pending!Init
  <2> SUFFICES ASSUME Init PROVE Pending!Init
    OBVIOUS
  <2>1. Used("pending") = 0
    BY DEF Init, Used, Queues
  <2>2. Content("pending") = <<>>
    BY <2>1 DEF Content
  <2> QED
    BY <2>2 DEF Init, Pending!Init, Threads
<1>2. RingInv /\ RingInv' /\ [Next]_vars =>
        [Pending!Next]_<<held["wal"], Content("pending"), held["flush"]>>
  <2> SUFFICES ASSUME RingInv, RingInv', [Next]_vars
               PROVE  \/ Pending!Next
                      \/ UNCHANGED <<held["wal"], Content("pending"), held["flush"]>>
    OBVIOUS
  <2> USE DEF Pending!Next, Pending!Put, Pending!Get, Pending!ProducerActs, Pending!ConsumerActs
  <2>0. TypeOK /\ TypeOK' /\ "pending" \in Queues /\ held \in [Threads -> Seq(Slots \cup {NoSlot})]
    BY DEF RingInv, TypeInv, TypeOK, Queues
  <2>1. ASSUME buffer' = buffer, write_index' = write_index, read_index' = read_index,
               held' = held
        PROVE  UNCHANGED <<held["wal"], Content("pending"), held["flush"]>>
    BY <2>0, <2>1, Contents
  <2>2. CASE UNCHANGED vars
    BY <2>1, <2>2 DEF vars
  <2>3. CASE Acquire \/ Release \/ Discard \/ Refuse \/ Collect \/ Reclaim
    BY <2>1, <2>3 DEF Acquire, Release, Discard, Refuse, Collect, Reclaim, Starts
  <2>4. ASSUME NEW th \in Threads, Step(th)
        PROVE  \/ Pending!Next
               \/ UNCHANGED <<held["wal"], Content("pending"), held["flush"]>>
    <3>1. \A u \in Threads \ {th} : held'[u] = held[u]
      BY <2>4, OthersIdle DEF Idles, RingInv
    <3>2. CASE QueueOf(th) = "free"
      <4>1. Content("pending")' = Content("pending")
        BY <2>0, <2>4, <3>2, OthersKept DEF KeepsOthers
      <4> QED
        BY <3>1, <4>1 DEF Threads
    <3>3. CASE QueueOf(th) = "pending"
      <4>1. \/ UNCHANGED held /\ KeepsContents
            \/ PutsIn(th, "pending") \/ TakesOut(th, "pending") \/ GivesUp(th)
        BY <2>0, <2>4, <3>3, RingChange DEF Serial
      <4>2. ~GivesUp(th)
        BY <3>3 DEF GivesUp, QueueOf, FreeJobs
      <4>3. CASE UNCHANGED held /\ KeepsContents
        BY <2>0, <4>3 DEF KeepsContents
      <4>4. CASE PutsIn(th, "pending")
        <5>1. job[th] = "release" /\ th = "wal" /\ held["wal"] # <<>>
          BY <3>3, <4>4 DEF PutsIn, QueueOf, PushJobs, FreeJobs, RingInv, TypeInv, JobsOK, Threads
        <5> QED
          BY <2>0, <3>1, <3>3, <4>4, <5>1 DEF PutsIn, Pushed, Rest, Threads
      <4>5. CASE TakesOut(th, "pending")
        <5>1. th = "flush"
          BY <3>3, <4>5 DEF TakesOut, QueueOf, PopJobs, RingInv, TypeInv, JobsOK, Threads
        <5> QED
          BY <2>0, <3>1, <3>3, <4>5, <5>1 DEF TakesOut, Threads
      <4> QED
        BY <4>1, <4>2, <4>3, <4>4, <4>5
    <3> QED
      BY <3>2, <3>3 DEF QueueOf
  <2> QED
    BY <2>2, <2>3, <2>4 DEF Next
<1> QED
  BY <1>1, <1>2, RingHolds, PTL DEF Spec, ReleasedInOrder, Pending!Spec

-----------------------------------------------------------------------------
(* Counting the occurrences of a slot in a sequence.                       *)

LEMMA CountType ==
    ASSUME NEW S, NEW s \in Seq(S), NEW x
    PROVE  /\ Count(s, x) \in Nat
           /\ IsFiniteSet({k \in 1..Len(s) : s[k] = x})
           /\ Count(s, x) = Cardinality({k \in 1..Len(s) : s[k] = x})
           /\ (\E k \in 1..Len(s) : s[k] = x) => Count(s, x) # 0
<1>1. IsFiniteSet(1..Len(s)) /\ DOMAIN s = 1..Len(s)
  BY FS_Interval
<1> DEFINE D == {k \in 1..Len(s) : s[k] = x}
<1>2. IsFiniteSet(D)
  BY <1>1, FS_Subset
<1>3. Count(s, x) = Cardinality(D)
  BY <1>1 DEF Count
<1>4. (\E k \in 1..Len(s) : s[k] = x) => D # {}
  OBVIOUS
<1> HIDE DEF D
<1>5. Cardinality(D) \in Nat /\ (D # {} => Cardinality(D) # 0)
  BY <1>2, FS_CardinalityType, FS_EmptySet
<1> QED
  BY <1>2, <1>3, <1>4, <1>5 DEF D

LEMMA CountAppend ==
    ASSUME NEW S, NEW s \in Seq(S), NEW y \in S, NEW x
    PROVE  Count(Append(s, y), x) = Count(s, x) + (IF y = x THEN 1 ELSE 0)
<1> DEFINE n == Len(s)
           t == Append(s, y)
           A == {k \in 1..n : s[k] = x}
           B == {k \in 1..(n + 1) : t[k] = x}
<1>1. /\ n \in Nat /\ t \in Seq(S) /\ Len(t) = n + 1 /\ t[n + 1] = y
      /\ \A k \in 1..n : t[k] = s[k]
  BY AppendProperties
<1>2. B = IF y = x THEN A \cup {n + 1} ELSE A
  BY <1>1
<1>3. Count(s, x) = Cardinality(A) /\ IsFiniteSet(A) /\ Count(t, x) = Cardinality(B)
  <2>1. Count(t, x) = Cardinality({k \in 1..Len(t) : t[k] = x})
    <3> HIDE DEF t
    <3> QED
      BY <1>1, CountType
  <2>2. Count(s, x) = Cardinality(A) /\ IsFiniteSet(A)
    BY CountType
  <2> HIDE DEF t, n, A
  <2> QED
    BY <1>1, <2>1, <2>2
<1>4. n + 1 \notin A
  BY <1>1
<1> HIDE DEF A, B, t, n
<1>5. CASE y = x
  BY <1>2, <1>3, <1>4, <1>5, FS_AddElement DEF t
<1>6. CASE y # x
  <2>1. Cardinality(A) \in Nat
    BY <1>3, FS_CardinalityType
  <2> QED
    BY <1>2, <1>3, <1>6, <2>1 DEF t
<1> QED
  BY <1>5, <1>6

LEMMA CountTail ==
    ASSUME NEW S, NEW s \in Seq(S), s # <<>>, NEW x
    PROVE  Count(s, x) = Count(Tail(s), x) + (IF Head(s) = x THEN 1 ELSE 0)
<1> DEFINE n == Len(s)
           t == Tail(s)
           A == {k \in 1..n : s[k] = x}
           R == A \ {1}
           B == {k \in 1..(n - 1) : t[k] = x}
           f == [k \in B |-> k + 1]
<1>1. /\ n \in Nat \ {0} /\ t \in Seq(S) /\ Len(t) = n - 1
      /\ \A k \in 1..(n - 1) : t[k] = s[k + 1]
      /\ Head(s) = s[1]
  BY HeadTailProperties, EmptySeq
<1>2. Count(s, x) = Cardinality(A) /\ IsFiniteSet(A)
  BY CountType
<1>3. Count(t, x) = Cardinality(B) /\ IsFiniteSet(B)
  <2>1. /\ Count(t, x) = Cardinality({k \in 1..Len(t) : t[k] = x})
        /\ IsFiniteSet({k \in 1..Len(t) : t[k] = x})
    <3> HIDE DEF t
    <3> QED
      BY <1>1, CountType
  <2> HIDE DEF t, n
  <2> QED
    BY <1>1, <2>1
<1>4. f \in Bijection(B, R)
  <2>1. f \in [B -> R]
    BY <1>1
  <2>2. \A r \in R : r - 1 \in B /\ f[r - 1] = r
    BY <1>1
  <2>3. \A a, b \in B : f[a] = f[b] => a = b
    BY <1>1
  <2> HIDE DEF R, B, f
  <2> QED
    BY <2>1, <2>2, <2>3 DEF Bijection, Injection, Surjection, IsInjective
<1>5. Cardinality(R) = Cardinality(B)
  BY <1>3, <1>4, FS_Bijection DEF ExistsBijection
<1>6. 1 \in A <=> Head(s) = x
  BY <1>1
<1>7. Cardinality(R) = IF Head(s) = x THEN Cardinality(A) - 1 ELSE Cardinality(A)
  BY <1>2, <1>6, FS_RemoveElement
<1>8. Cardinality(A) \in Nat
  BY <1>2, FS_CardinalityType
<1> HIDE DEF A, B, R, t, n
<1> QED
  BY <1>2, <1>3, <1>5, <1>7, <1>8 DEF t

LEMMA CountFront ==
    ASSUME NEW S, NEW s \in Seq(S), s # <<>>, NEW x
    PROVE  /\ Front(s) \in Seq(S) /\ Last(s) \in S
           /\ Count(s, x) = Count(Front(s), x) + (IF Last(s) = x THEN 1 ELSE 0)
<1>1. PICK u \in Seq(S), y \in S : s = Append(u, y)
  BY SequenceEmptyOrAppend
<1>2. /\ Len(u) \in Nat /\ Len(s) = Len(u) + 1 /\ s[Len(u) + 1] = y
      /\ \A k \in 1..Len(u) : s[k] = u[k]
  BY <1>1, AppendProperties
<1>3. Front(s) = u /\ Last(s) = y
  <2>1. /\ SubSeq(s, 1, Len(u)) \in Seq(S) /\ Len(SubSeq(s, 1, Len(u))) = Len(u)
        /\ \A k \in 1..Len(u) : SubSeq(s, 1, Len(u))[k] = s[k]
    BY <1>2
  <2>2. SubSeq(s, 1, Len(u)) = u
    BY <1>2, <2>1, SeqEqual
  <2> QED
    BY <1>2, <2>2 DEF Front, Last
<1> QED
  BY <1>1, <1>3, CountAppend

\* A slot counted at most once is at one position only.
LEMMA CountedOnce ==
    ASSUME NEW S, NEW s \in Seq(S), NEW i \in 1..Len(s), NEW j \in 1..Len(s),
           s[i] = s[j], Count(s, s[i]) <= 1
    PROVE  i = j
<1> DEFINE A == {k \in 1..Len(s) : s[k] = s[i]}
<1>1. Count(s, s[i]) = Cardinality(A) /\ IsFiniteSet(A) /\ i \in A /\ j \in A
  BY CountType
<1>2. Cardinality(A) = 1
  BY <1>1, FS_CardinalityType, FS_EmptySet
<1>3. \E y : A = {y}
  BY <1>1, <1>2, FS_Singleton
<1> QED
  BY <1>1, <1>3

\* A sequence of slots that repeats none and misses one is shorter than the
\* number of slots.
LEMMA MissingOne ==
    ASSUME NEW s \in Seq(Slots), NEW h \in Slots,
           \A x \in Slots : Count(s, x) <= 1, Count(s, h) = 0
    PROVE  Len(s) < EventCount
<1> SUFFICES ASSUME Len(s) >= EventCount PROVE FALSE
  BY LenProperties, SlotPoolAssumption
<1> DEFINE D == 1..Len(s)
           R == Slots \ {h}
<1>1. IsFiniteSet(D) /\ Cardinality(D) = Len(s)
  BY LenProperties, FS_Interval
<1>2. IsFiniteSet(Slots) /\ Cardinality(Slots) = EventCount
  BY FS_Interval, SlotPoolAssumption DEF Slots
<1>3. IsFiniteSet(R) /\ Cardinality(R) = EventCount - 1
  BY <1>2, FS_RemoveElement
<1>4. s \in [D -> R]
  <2>1. \A k \in D : s[k] \in Slots /\ s[k] # h
    BY CountType, ElementOfSeq
  <2> QED
    BY <2>1, LenProperties
<1>5. Cardinality(R) < Cardinality(D)
  BY <1>1, <1>3, SlotPoolAssumption, LenProperties
<1>6. \E i, j \in D : i # j /\ s[i] = s[j]
  <2> HIDE DEF D, R
  <2> QED
    BY <1>1, <1>3, <1>4, <1>5, FS_PigeonHole
<1>7. PICK i \in D, j \in D : i # j /\ s[i] = s[j]
  BY <1>6
<1>8. Count(s, s[i]) <= 1
  BY ElementOfSeq
<1> QED
  BY <1>7, <1>8, CountedOnce

-----------------------------------------------------------------------------
(* Conservation.                                                           *)

LEMMA ConservedInit == Init => OnlySlots /\ SlotsConserved
<1> SUFFICES ASSUME Init PROVE OnlySlots /\ SlotsConserved
  OBVIOUS
<1>0. EventCount \in Nat \ {0}
  BY SlotPoolAssumption
<1>1. Content("pending") = <<>> /\ held["wal"] = <<>> /\ held["flush"] = <<>>
  <2>1. Used("pending") = 0
    BY DEF Init, Used, Queues
  <2> QED
    BY <2>1 DEF Content, Init, Threads
<1>2. Content("free") = [k \in 1..EventCount |-> k - 1]
  <2>1. Used("free") = EventCount
    BY <1>0 DEF Init, Used, Queues
  <2>2. \A k \in 1..EventCount : Cell("free", k) = k - 1
    BY SlotPoolAssumption DEF Init, Cell, Queues, Slots, Indices
  <2> QED
    BY <2>1, <2>2 DEF Content
<1>3. Content("free") \in Seq(Slots)
  BY <1>0, <1>2 DEF Slots
<1>4. OnlySlots
  <2> HIDE DEF Slots
  <2> QED
    BY <1>1, <1>3, EmptySeq DEF OnlySlots, Queues, Threads
<1>5. ASSUME NEW x \in Slots PROVE Count(Content("free"), x) = 1
  <2>1. {k \in DOMAIN Content("free") : Content("free")[k] = x} = {x + 1}
    BY <1>0, <1>2 DEF Slots
  <2> QED
    BY <2>1, FS_Singleton DEF Count
<1>6. \A x : Count(<<>>, x) = 0
  <2>1. \A x : {k \in DOMAIN <<>> : <<>>[k] = x} = {}
    OBVIOUS
  <2> QED
    BY <2>1, FS_EmptySet DEF Count
<1> QED
  BY <1>1, <1>4, <1>5, <1>6 DEF SlotsConserved

\* While the returns to "free" do not overlap, it is never full: a thread that
\* returns a slot holds one that is not in it.
LEMMA NeverGivesUp ==
    ASSUME RingInv, OnlySlots, SlotsConserved, ~raced, NEW th \in Threads
    PROVE  ~GivesUp(th)
<1> SUFFICES ASSUME GivesUp(th) PROVE FALSE
  OBVIOUS
<1>1. held[th] \in Seq(Slots) /\ held[th] # <<>> /\ Content("free") \in Seq(Slots)
      /\ Content("pending") \in Seq(Slots) /\ \A u \in Threads : held[u] \in Seq(Slots)
  BY DEF OnlySlots, GivesUp, RingInv, TypeInv, JobsOK, Queues, PushJobs
<1> DEFINE h == held[th][1]
<1>2. h \in Slots /\ 1 \in 1..Len(held[th])
  BY <1>1, EmptySeq, LenProperties, ElementOfSeq
<1>3. \A x \in Slots :
        /\ Count(Content("free"), x) \in Nat /\ Count(Content("pending"), x) \in Nat
        /\ \A u \in Threads : Count(held[u], x) \in Nat
  BY <1>1, CountType
<1>4. Count(held[th], h) # 0
  BY <1>1, <1>2, CountType
<1>5. Count(Content("free"), h) = 0
  BY <1>2, <1>3, <1>4 DEF SlotsConserved, Threads
<1>6. \A x \in Slots : Count(Content("free"), x) <= 1
  BY <1>3 DEF SlotsConserved, Threads
<1>7. Len(Content("free")) < EventCount
  BY <1>1, <1>2, <1>5, <1>6, MissingOne
<1> QED
  BY <1>1, <1>7, SlotPoolAssumption, LenProperties DEF GivesUp

\* What a thread puts in leaves its sequence, and what it takes out joins it.
LEMMA Moves ==
    ASSUME RingInv, OnlySlots, ~raced, ~raced', NEW th \in Threads, NEW q \in Queues,
           q = QueueOf(th), KeepsOthers(q), PutsIn(th, q) \/ TakesOut(th, q)
    PROVE  /\ OnlySlots'
           /\ \A x \in Slots : \E d \in Int :
                /\ Count(Content(q)', x) = Count(Content(q), x) + d
                /\ Count(held'[th], x) = Count(held[th], x) - d
<1>1. /\ held \in [Threads -> Seq(Slots)] /\ \A p \in Queues : Content(p) \in Seq(Slots)
      /\ \A x \in Slots : Count(Content(q), x) \in Nat /\ Count(held[th], x) \in Nat
  <2>1. \A p \in Queues : Content(p) \in Seq(Slots)
    BY DEF OnlySlots
  <2>2. held \in [Threads -> Seq(Slots)]
    BY DEF OnlySlots, RingInv, TypeInv, TypeOK
  <2> QED
    BY <2>1, <2>2, CountType
<1>2. CASE PutsIn(th, q)
  <2>1. held[th] # <<>>
    BY <1>2 DEF PutsIn, RingInv, TypeInv, JobsOK
  <2>2. /\ Pushed(th) \in Slots /\ Rest(th) \in Seq(Slots)
        /\ \A x \in Slots :
             Count(held[th], x) = Count(Rest(th), x) + (IF Pushed(th) = x THEN 1 ELSE 0)
    <3>1. CASE job[th] = "refuse"
      <4>1. held[th] \in Seq(Slots)
        BY <1>1
      <4> QED
        BY <2>1, <3>1, <4>1, CountFront DEF Pushed, Rest
    <3>2. CASE job[th] # "refuse"
      BY <1>1, <2>1, <3>2, CountTail, HeadTailProperties DEF Pushed, Rest
    <3> QED
      BY <3>1, <3>2
  <2>3. held'[th] = Rest(th) /\ held' \in [Threads -> Seq(Slots)]
    BY <1>1, <1>2, <2>2 DEF PutsIn
  <2>4. /\ Content(q)' \in Seq(Slots)
        /\ \A x \in Slots :
             Count(Content(q)', x) = Count(Content(q), x) + (IF Pushed(th) = x THEN 1 ELSE 0)
    BY <1>1, <1>2, <2>2, CountAppend, AppendProperties DEF PutsIn
  <2>5. OnlySlots'
    BY <1>1, <2>3, <2>4 DEF OnlySlots, KeepsOthers
  <2>6. \A x \in Slots : Count(Rest(th), x) \in Nat
    BY <2>2, CountType
  <2>7. ASSUME NEW x \in Slots
        PROVE  \E d \in Int : /\ Count(Content(q)', x) = Count(Content(q), x) + d
                              /\ Count(held'[th], x) = Count(held[th], x) - d
    <3> DEFINE d == IF Pushed(th) = x THEN 1 ELSE 0
    <3>1. d \in Int /\ Count(Content(q)', x) = Count(Content(q), x) + d
          /\ Count(held'[th], x) = Count(held[th], x) - d
      BY <1>1, <2>2, <2>3, <2>4, <2>6
    <3> QED
      BY <3>1
  <2> QED
    BY <2>5, <2>7
<1>3. CASE TakesOut(th, q)
  <2> DEFINE y == Head(Content(q))
  <2>1. /\ y \in Slots /\ Content(q)' \in Seq(Slots)
        /\ \A x \in Slots :
             Count(Content(q), x) = Count(Content(q)', x) + (IF y = x THEN 1 ELSE 0)
    BY <1>1, <1>3, CountTail, HeadTailProperties DEF TakesOut
  <2>2. held' \in [Threads -> Seq(Slots)] /\ held'[th] = Append(held[th], y)
    BY <1>1, <1>3, <2>1, AppendProperties DEF TakesOut
  <2>3. \A x \in Slots : Count(held'[th], x) = Count(held[th], x) + (IF y = x THEN 1 ELSE 0)
    <3>1. held[th] \in Seq(Slots)
      BY <1>1
    <3> HIDE DEF y
    <3> QED
      BY <2>1, <2>2, <3>1, CountAppend
  <2>4. OnlySlots'
    BY <1>1, <2>1, <2>2 DEF OnlySlots, KeepsOthers
  <2>5. \A x \in Slots : Count(Content(q)', x) \in Nat
    BY <2>1, CountType
  <2>6. ASSUME NEW x \in Slots
        PROVE  \E d \in Int : /\ Count(Content(q)', x) = Count(Content(q), x) + d
                              /\ Count(held'[th], x) = Count(held[th], x) - d
    <3> DEFINE d == IF y = x THEN -1 ELSE 0
    <3> HIDE DEF y
    <3>1. d \in Int /\ Count(Content(q)', x) = Count(Content(q), x) + d
          /\ Count(held'[th], x) = Count(held[th], x) - d
      BY <1>1, <2>1, <2>3, <2>5
    <3> QED
      BY <3>1
  <2> QED
    BY <2>4, <2>6
<1> QED
  BY <1>2, <1>3

LEMMA ConservedStep ==
    ASSUME RingInv, RingInv', [Next]_vars, OnlySlots, ConservedIfSerial
    PROVE  OnlySlots' /\ ConservedIfSerial'
<1> SUFFICES ASSUME ~raced' PROVE OnlySlots' /\ SlotsConserved'
  BY DEF OnlySlots, ConservedIfSerial
<1>1. TypeOK /\ TypeOK'
  BY DEF RingInv, TypeInv
<1>2. ~raced
  BY <1>1 DEF TypeOK, Next, vars, Acquire, Release, Discard, Refuse, Collect, Reclaim, Starts,
              Step, PushLoad, PushCheck, PushWrite, PushStore, PopCheck, PopRead, PopStore
<1>3. SlotsConserved
  BY <1>2 DEF ConservedIfSerial
<1>4. ASSUME UNCHANGED held, KeepsContents PROVE OnlySlots' /\ SlotsConserved'
  <2>1. /\ Content("free")' = Content("free") /\ Content("pending")' = Content("pending")
        /\ \A q \in Queues : Content(q)' = Content(q)
    BY <1>4 DEF KeepsContents, Queues
  <2>2. OnlySlots'
    BY <1>2, <1>4, <2>1 DEF OnlySlots
  <2>3. SlotsConserved'
    BY <1>3, <1>4, <2>1 DEF SlotsConserved
  <2> QED
    BY <2>2, <2>3
<1>5. ASSUME UNCHANGED <<buffer, write_index, read_index>> PROVE KeepsContents
  BY <1>1, <1>5, Contents DEF KeepsContents
<1>6. CASE UNCHANGED vars
  BY <1>4, <1>5, <1>6 DEF vars
<1>7. CASE Acquire \/ Release \/ Discard \/ Refuse \/ Collect \/ Reclaim
  BY <1>4, <1>5, <1>7 DEF Acquire, Release, Discard, Refuse, Collect, Reclaim, Starts
<1>8. ASSUME NEW th \in Threads, Step(th) PROVE OnlySlots' /\ SlotsConserved'
  <2>1. PICK q \in Queues : q = QueueOf(th)
    BY DEF QueueOf, Queues
  <2>2. KeepsOthers(q)
    BY <1>1, <1>8, <2>1, OthersKept
  <2>3. \/ UNCHANGED held /\ KeepsContents
        \/ PutsIn(th, q) \/ TakesOut(th, q) \/ GivesUp(th)
    BY <1>1, <1>2, <1>8, <2>1, RingChange DEF Serial
  <2>4. CASE PutsIn(th, q) \/ TakesOut(th, q)
    <3>1. /\ OnlySlots'
          /\ \A x \in Slots : \E d \in Int :
               /\ Count(Content(q)', x) = Count(Content(q), x) + d
               /\ Count(held'[th], x) = Count(held[th], x) - d
      BY <1>2, <2>1, <2>2, <2>4, Moves
    <3>2. \A u \in Threads \ {th} : held'[u] = held[u]
      BY <1>8, OthersIdle DEF Idles, RingInv
    <3>3. \A x \in Slots :
            /\ Count(Content("free"), x) \in Nat /\ Count(Content("pending"), x) \in Nat
            /\ Count(held["wal"], x) \in Nat /\ Count(held["flush"], x) \in Nat
      BY <1>2, CountType DEF OnlySlots, Queues, Threads
    <3>4. SlotsConserved'
      <4> SUFFICES ASSUME NEW x \in Slots
                   PROVE  Count(Content("free")', x) + Count(Content("pending")', x)
                            + Count(held'["wal"], x) + Count(held'["flush"], x) = 1
        BY DEF SlotsConserved
      <4>1. PICK d \in Int : /\ Count(Content(q)', x) = Count(Content(q), x) + d
                             /\ Count(held'[th], x) = Count(held[th], x) - d
        BY <3>1
      <4>2. Count(Content("free"), x) + Count(Content("pending"), x)
              + Count(held["wal"], x) + Count(held["flush"], x) = 1
        BY <1>3 DEF SlotsConserved
      <4>3. \/ /\ Count(Content("free")', x) = Count(Content("free"), x) + d
               /\ Count(Content("pending")', x) = Count(Content("pending"), x)
            \/ /\ Count(Content("free")', x) = Count(Content("free"), x)
               /\ Count(Content("pending")', x) = Count(Content("pending"), x) + d
        BY <2>2, <4>1 DEF KeepsOthers, Queues
      <4>4. \/ /\ Count(held'["wal"], x) = Count(held["wal"], x) - d
               /\ held'["flush"] = held["flush"]
            \/ /\ Count(held'["flush"], x) = Count(held["flush"], x) - d
               /\ held'["wal"] = held["wal"]
        BY <3>2, <4>1 DEF Threads
      <4> QED
        BY <3>3, <4>2, <4>3, <4>4
    <3> QED
      BY <3>1, <3>4
  <2> QED
    BY <1>2, <1>3, <1>4, <2>3, <2>4, NeverGivesUp
<1> QED
  BY <1>6, <1>7, <1>8 DEF Next

(* As long as the WAL thread's returns to "free" do not overlap the flush  *)
(* thread's, each slot is in exactly one place: no event is overwritten    *)
(* while it is being published, and no capacity is lost.                   *)
THEOREM SlotsKept == Spec => []ConservedIfSerial
<1>1. Init => OnlySlots /\ ConservedIfSerial
  BY ConservedInit DEF ConservedIfSerial
<1>2. RingInv /\ RingInv' /\ [Next]_vars /\ OnlySlots /\ ConservedIfSerial
        => OnlySlots' /\ ConservedIfSerial'
  BY ConservedStep
<1> QED
  BY <1>1, <1>2, RingHolds, PTL DEF Spec
=============================================================================
