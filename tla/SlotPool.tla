----------------------------- MODULE SlotPool -----------------------------
(***************************************************************************)
(* The two lock-free rings through which event slots circulate             *)
(* (src/src/spsc_queue.zig, used by batch_publisher.zig and                *)
(* event_processor.zig), one load or store at a time.                      *)
(*                                                                         *)
(* The WAL thread takes a slot from "free", fills it, and at COMMIT pushes *)
(* it to "pending"; the flush thread takes it from there and, once it is   *)
(* published, pushes it back to "free".  The WAL thread also pushes to     *)
(* "free": the slots of a transaction it discards, and one whose row did   *)
(* not fit.                                                                *)
(***************************************************************************)
EXTENDS Naturals, Sequences, FiniteSets, SequencesExt

CONSTANTS
    EventCount,   \* slots (BATCH_RING_BUFFER_SIZE)
    Capacity,     \* of each ring: ceilPowerOfTwo(EventCount + 1)
    MaxDiscards   \* bound: discarded transactions and oversized rows

ASSUME SlotPoolAssumption ==
    /\ EventCount \in Nat \ {0}
    /\ Capacity \in Nat /\ Capacity > EventCount
    /\ MaxDiscards \in Nat

Slots   == 0..(EventCount - 1)
NoSlot  == EventCount             \* what an unwritten cell holds
Indices == 0..(Capacity - 1)
Queues  == {"free", "pending"}
Threads == {"wal", "flush"}

PopJobs  == {"acquire", "collect"}
FreeJobs == {"discard", "refuse", "reclaim"}
PushJobs == FreeJobs \cup {"release"}

VARIABLES
    buffer, write_index, read_index,   \* of each queue
    held,      \* the slots of each thread: the open transaction, the batch
    job,       \* what each thread is doing
    pc,        \* its next load or store
    at,        \* the index it loaded
    item,      \* the slot it read
    discards,  \* bound
    raced      \* history: two pushes to "free" have overlapped

vars == <<buffer, write_index, read_index, held, job, pc, at, item, discards, raced>>

-----------------------------------------------------------------------------
(* A ring.                                                                 *)

(* Mutant: no wrap-around.                                                 *)
NextIndexUnmasked(i) == i + 1

(* (i + 1) & mask                                                          *)
NextIndex(i) == IF i + 1 = Capacity THEN 0 ELSE i + 1

IsFull(write, read) == NextIndex(write) = read

(* Mutant: pop without its emptiness check.                                *)
NeverEmpty(q) == FALSE

IsEmpty(q) == read_index[q] = write_index[q]

(* len                                                                     *)
Used(q) ==
    IF write_index[q] >= read_index[q]
      THEN write_index[q] - read_index[q]
      ELSE Capacity - read_index[q] + write_index[q]

Cell(q, k) ==
    LET i == read_index[q] + k - 1
    IN  buffer[q][IF i >= Capacity THEN i - Capacity ELSE i]

Content(q) == [k \in 1..Used(q) |-> Cell(q, k)]

-----------------------------------------------------------------------------
(* What a thread is about to do.                                           *)

QueueOf(th) == IF job[th] \in {"release", "collect"} THEN "pending" ELSE "free"

(* A refused row's slot is the one just acquired; all others go in order.  *)
Pushed(th) == IF job[th] = "refuse" THEN Last(held[th]) ELSE Head(held[th])

Rest(th) == IF job[th] = "refuse" THEN Front(held[th]) ELSE Tail(held[th])

InFreePush(th) == job[th] \in FreeJobs /\ pc[th] # "load"

(* The thread is done with one slot: on to the next one, if there is one.  *)
SlotLeaves(th) ==
    /\ held' = [held EXCEPT ![th] = Rest(th)]
    /\ pc' = [pc EXCEPT ![th] = "load"]
    /\ job' = IF job[th] = "refuse" \/ Rest(th) = <<>>
                THEN [job EXCEPT ![th] = "idle"] ELSE job

-----------------------------------------------------------------------------
(* The threads.                                                            *)

Starts(th, j) ==
    /\ job[th] = "idle"
    /\ job' = [job EXCEPT ![th] = j]
    /\ UNCHANGED <<buffer, write_index, read_index, held, pc, at, item, raced>>

(* acquireAndFillSlot                                                      *)
Acquire == Starts("wal", "acquire") /\ UNCHANGED discards

(* releaseTxSlots, and the COMMIT handler                                  *)
Release == held["wal"] # <<>> /\ Starts("wal", "release") /\ UNCHANGED discards

(* A transaction that broke off: its slots, oldest first.                  *)
Discard ==
    /\ held["wal"] # <<>> /\ discards < MaxDiscards
    /\ Starts("wal", "discard")
    /\ discards' = discards + 1

(* The row of the slot just acquired did not fit.                          *)
Refuse ==
    /\ held["wal"] # <<>> /\ item["wal"] = Last(held["wal"])
    /\ discards < MaxDiscards
    /\ Starts("wal", "refuse")
    /\ discards' = discards + 1

(* flushLoop                                                               *)
Collect == Starts("flush", "collect") /\ UNCHANGED discards

(* updateConfirmedLsn                                                      *)
Reclaim == held["flush"] # <<>> /\ Starts("flush", "reclaim") /\ UNCHANGED discards

-----------------------------------------------------------------------------
(* push                                                                    *)

PushLoad(th) ==
    /\ job[th] \in PushJobs /\ pc[th] = "load"
    /\ at' = [at EXCEPT ![th] = write_index[QueueOf(th)]]
    /\ pc' = [pc EXCEPT ![th] = "check"]
    /\ raced' = (raced \/ (job[th] \in FreeJobs /\ \E o \in Threads \ {th} : InFreePush(o)))
    /\ UNCHANGED <<buffer, write_index, read_index, held, job, item, discards>>

(* Mutant: the index is published before the slot is written.              *)
PushCheckPublishing(th) ==
    /\ job[th] \in PushJobs /\ pc[th] = "check"
    /\ write_index' = [write_index EXCEPT ![QueueOf(th)] = NextIndex(at[th])]
    /\ pc' = [pc EXCEPT ![th] = "write"]
    /\ UNCHANGED <<buffer, read_index, held, job, at, item, discards, raced>>

(* QueueFull: a release tries again; a slot meant for "free" is lost.      *)
PushCheck(th) ==
    /\ job[th] \in PushJobs /\ pc[th] = "check"
    /\ IF ~IsFull(at[th], read_index[QueueOf(th)])
         THEN pc' = [pc EXCEPT ![th] = "write"] /\ UNCHANGED <<held, job>>
         ELSE IF job[th] = "release"
                THEN pc' = [pc EXCEPT ![th] = "load"] /\ UNCHANGED <<held, job>>
                ELSE SlotLeaves(th)
    /\ UNCHANGED <<buffer, write_index, read_index, at, item, discards, raced>>

PushWrite(th) ==
    /\ job[th] \in PushJobs /\ pc[th] = "write"
    /\ buffer' = [buffer EXCEPT ![QueueOf(th)][at[th]] = Pushed(th)]
    /\ pc' = [pc EXCEPT ![th] = "store"]
    /\ UNCHANGED <<write_index, read_index, held, job, at, item, discards, raced>>

PushStore(th) ==
    /\ job[th] \in PushJobs /\ pc[th] = "store"
    /\ write_index' = [write_index EXCEPT ![QueueOf(th)] = NextIndex(at[th])]
    /\ SlotLeaves(th)
    /\ UNCHANGED <<buffer, read_index, at, item, discards, raced>>

-----------------------------------------------------------------------------
(* pop.  Only the popping thread writes the read index, so loading it is   *)
(* not a step of its own.  On an empty ring the thread does something else *)
(* and comes back.                                                         *)

PopCheck(th) ==
    /\ job[th] \in PopJobs /\ pc[th] = "load"
    /\ IF IsEmpty(QueueOf(th))
         THEN job' = [job EXCEPT ![th] = "idle"] /\ UNCHANGED <<pc, at>>
         ELSE /\ at' = [at EXCEPT ![th] = read_index[QueueOf(th)]]
              /\ pc' = [pc EXCEPT ![th] = "read"]
              /\ UNCHANGED job
    /\ UNCHANGED <<buffer, write_index, read_index, held, item, discards, raced>>

PopRead(th) ==
    /\ job[th] \in PopJobs /\ pc[th] = "read"
    /\ item' = [item EXCEPT ![th] = buffer[QueueOf(th)][at[th]]]
    /\ pc' = [pc EXCEPT ![th] = "store"]
    /\ UNCHANGED <<buffer, write_index, read_index, held, job, at, discards, raced>>

PopStore(th) ==
    /\ job[th] \in PopJobs /\ pc[th] = "store"
    /\ read_index' = [read_index EXCEPT ![QueueOf(th)] = NextIndex(at[th])]
    /\ held' = [held EXCEPT ![th] = Append(held[th], item[th])]
    /\ pc' = [pc EXCEPT ![th] = "load"]
    /\ job' = [job EXCEPT ![th] = "idle"]
    /\ UNCHANGED <<buffer, write_index, at, item, discards, raced>>

-----------------------------------------------------------------------------
Init ==
    /\ buffer = [q \in Queues |-> [i \in Indices |->
                    IF q = "free" /\ i \in Slots THEN i ELSE NoSlot]]
    /\ write_index = [q \in Queues |-> IF q = "free" THEN EventCount ELSE 0]
    /\ read_index = [q \in Queues |-> 0]
    /\ held = [th \in Threads |-> <<>>]
    /\ job = [th \in Threads |-> "idle"]
    /\ pc = [th \in Threads |-> "load"]
    /\ at = [th \in Threads |-> 0]
    /\ item = [th \in Threads |-> NoSlot]
    /\ discards = 0
    /\ raced = FALSE

Step(th) ==
    \/ PushLoad(th) \/ PushCheck(th) \/ PushWrite(th) \/ PushStore(th)
    \/ PopCheck(th) \/ PopRead(th) \/ PopStore(th)

Next ==
    \/ Acquire \/ Release \/ Discard \/ Refuse \/ Collect \/ Reclaim
    \/ \E th \in Threads : Step(th)

Spec == Init /\ [][Next]_vars

-----------------------------------------------------------------------------
(* Properties.                                                             *)

TypeOK ==
    /\ buffer \in [Queues -> [Indices -> Slots \cup {NoSlot}]]
    /\ write_index \in [Queues -> Indices] /\ read_index \in [Queues -> Indices]
    /\ held \in [Threads -> Seq(Slots \cup {NoSlot})]
    /\ job \in [Threads -> PopJobs \cup PushJobs \cup {"idle"}]
    /\ pc \in [Threads -> {"load", "check", "write", "store", "read"}]
    /\ at \in [Threads -> Indices]
    /\ item \in [Threads -> Slots \cup {NoSlot}]
    /\ discards \in 0..MaxDiscards /\ raced \in BOOLEAN

Count(s, x) == Cardinality({k \in DOMAIN s : s[k] = x})

(* Slot indices are a conserved quantity: each one is in exactly one place, *)
(* in a ring or with a thread.  One in two places is an event overwritten   *)
(* while it is being published; one in no place is capacity lost for good.  *)
SlotsConserved ==
    \A s \in Slots :
        Count(Content("free"), s) + Count(Content("pending"), s)
          + Count(held["wal"], s) + Count(held["flush"], s) = 1

(* ... as long as the WAL thread's returns to "free" have not overlapped    *)
(* the flush thread's, which is what "one producer" asks.                   *)
ConservedIfSerial == ~raced => SlotsConserved

(* The queue of released slots loses, repeats and reorders nothing, even    *)
(* after "free" has been corrupted.                                         *)
Pending == INSTANCE HandOver WITH
    Bound <- Capacity - 1,
    producer <- held["wal"], queue <- Content("pending"), consumer <- held["flush"]

ReleasedInOrder == Pending!Spec
============================================================================
