---------------------------- MODULE LanePublish ----------------------------
(***************************************************************************)
(* How one batch of the flush thread becomes messages                      *)
(* (src/src/batch_publisher.zig, doPublish and publishCDCSubBatch).        *)
(*                                                                         *)
(* An event carries the lane and the verb of its NATS subject: the lane is *)
(* the subject without its last token, the verb is that last token.  A     *)
(* "kv" verb stands for the $KV subjects (schemas, tenants); "maps" are    *)
(* the tenants a $KV.tenants value maps a principal to.  A batch is a      *)
(* sequence of events; everything below speaks of its indices.             *)
(***************************************************************************)
EXTENDS Naturals, Sequences, FiniteSets

IsKv(e) == e.verb = "kv"

(* doPublish works through the batch in stages: a KV event is a stage of   *)
(* its own, and closes the run of row events collected before it.          *)
Opens(batch, k) ==
    \/ k = 1
    \/ IsKv(batch[k])
    \/ IsKv(batch[k - 1])

Stage(batch, i) == Cardinality({k \in 1..i : Opens(batch, k)})

SameLane(batch, i, j) ==
    /\ Stage(batch, i) = Stage(batch, j)
    /\ batch[i].lane = batch[j].lane

(* publishCDCSubBatch: an event joins its lane's latest group, unless the  *)
(* lane changed verb since; a group is named by its first index, and the   *)
(* groups of a stage are published in the order of these.                  *)
InGroupFrom(batch, j, i) ==
    /\ j <= i
    /\ SameLane(batch, i, j)
    /\ \A k \in j..i : SameLane(batch, i, k) => batch[k].verb = batch[i].verb

GroupHead(batch, i) ==
    CHOOSE j \in 1..i :
        /\ InGroupFrom(batch, j, i)
        /\ \A h \in 1..i : InGroupFrom(batch, h, i) => j <= h

(* The flag lane_repeat: some lane of the stage has more than one group.   *)
LaneRepeat(batch, s) ==
    \E i, j \in DOMAIN batch :
        /\ Stage(batch, i) = s
        /\ SameLane(batch, i, j)
        /\ GroupHead(batch, i) # GroupHead(batch, j)

(* The tenants with a member once the first n events of a batch have been  *)
(* published: noteMembers, after each roster event.                        *)
MembersAfter(batch, n, members) ==
    members \cup UNION {batch[k].maps : k \in {j \in DOMAIN batch : j <= n /\ IsKv(batch[j])}}

(* Mutant: every stage goes out as a window.                               *)
NeverOneByOne(batch, s) == FALSE

(* A stage with a repeated lane is published one group at a time, each     *)
(* after the previous one's PubAck; any other stage goes out as one        *)
(* asynchronous window, whose messages are stored independently.           *)
OneByOne(batch, s) == LaneRepeat(batch, s)

(* What doPublish may have had stored of a batch when it fails at stage s: *)
(* every stage before, none after, and of s itself whole groups (a group   *)
(* is one message) - any of them when they went out in a window, a prefix  *)
(* of them when they went one by one.  The failing message itself may have *)
(* been stored: its PubAck was lost.                                       *)
PartialStores(batch, s) ==
    {I \in SUBSET (DOMAIN batch) :
        /\ \A i \in DOMAIN batch :
              /\ Stage(batch, i) < s => i \in I
              /\ Stage(batch, i) > s => i \notin I
        /\ \A i, j \in DOMAIN batch :
              GroupHead(batch, i) = GroupHead(batch, j) => (i \in I <=> j \in I)
        /\ OneByOne(batch, s) =>
              \A i \in I, j \in DOMAIN batch :
                  GroupHead(batch, j) < GroupHead(batch, i) => j \in I}
============================================================================
