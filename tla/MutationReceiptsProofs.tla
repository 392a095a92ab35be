----------------------- MODULE MutationReceiptsProofs -----------------------
(***************************************************************************)
(* Proofs about MutationReceipts, for any number of lanes, messages, IDs,  *)
(* deliveries, months and faults.                                          *)
(***************************************************************************)
EXTENDS MutationReceipts, TLAPS

(* A message that may be delivered has a delivery left.                    *)
DeliveriesLeft ==
    \A m \in Messages : queue[m] \in {"unsent", "waiting"} => deliveries[m] < MaxDeliver

(* A lane past the lookup has claims for its messages, and outcomes for    *)
(* what it executed.                                                       *)
ClaimsThere ==
    \A l \in Lanes :
        /\ phase[l] \in {"execute", "finish", "answer"} => TxIds(l) \subseteq DOMAIN claim[l]
        /\ phase[l] \in {"finish", "answer"} =>
               \A id \in Undecided(l) : claim[l][id].outcome \in Outcomes

Typed == TypeOK /\ DeliveriesLeft /\ ClaimsThere

(* A legacy ID is never forgotten: its partition is never pruned.          *)
LegacyKept ==
    \A id \in Ids :
        MonthOf[id] = LegacyMonth /\ id \notin DOMAIN receipts => ledger[id] = <<>>

Covered == ReceiptsCoverLedger /\ LegacyKept

(* What lane l will answer from is in the ledger.                          *)
ClaimTrue(l) ==
    \A id \in DOMAIN claim[l] :
        (\/ claim[l][id].status = "duplicate"
         \/ phase[l] = "answer" /\ claim[l][id].status = "claimed")
        => ledger[id] = <<[body |-> claim[l][id].body, outcome |-> claim[l][id].outcome]>>

ClaimsTrue == \A l \in Lanes : ClaimTrue(l)

(* What clients have been told is in the ledger.                           *)
ToldTrue ==
    \A m \in Messages :
        IF m \in Unwritable THEN told[m] \in {"none", "rejected"}
        ELSE told[m] \in Outcomes =>
               ledger[IdOf[m]] = <<[body |-> BodyOf[m], outcome |-> told[m]]>>

(* Acked writes have been answered.                                        *)
AckedTold ==
    \A m \in Messages : queue[m] = "acked" /\ Kind[m] = "write" => told[m] # "none"

(* Only writes to tables that take them reach a transaction.               *)
AdmittedWritable == \A l \in Lanes : \A d \in cur[l] : d.msg \notin Unwritable

IInv == Typed /\ Covered /\ ClaimsTrue /\ ToldTrue /\ AckedTold /\ AdmittedWritable

(* A step that decides: only what is undecided, once, and without a word   *)
(* to the clients.                                                         *)
Decides ==
    /\ told' = told
    /\ \A id \in Ids :
           ledger'[id] # ledger[id] =>
               ledger[id] = <<>> /\ \E d \in Decision : ledger'[id] = <<d>>

(* A step after which no message is back to having been told nothing.      *)
NothingTakenBack == \A m \in Messages : told'[m] = "none" => told[m] = "none"

-----------------------------------------------------------------------------
(* Typed holds at the start.                                                *)
LEMMA InitTyped == Init => Typed
<1> SUFFICES ASSUME Init PROVE Typed
  OBVIOUS
<1>1. TypeOK
  BY ReceiptsAssumption DEF Init, TypeOK, Untimed, Statuses, Outcomes, Claim, Decision
<1>2. DeliveriesLeft
  BY ReceiptsAssumption DEF Init, DeliveriesLeft
<1>3. ClaimsThere
  BY DEF Init, ClaimsThere
<1> QED
  BY <1>1, <1>2, <1>3 DEF Typed

(* What a transaction of the bridge writes is well typed.                  *)
LEMMA WritesTyped ==
    ASSUME Typed, NEW l \in Lanes, phase[l] = "finish"
    PROVE  DOMAIN Writes(l) \subseteq Ids /\ Writes(l) \in [DOMAIN Writes(l) -> Decision]
<1>1. Undecided(l) \subseteq Ids /\ Undecided(l) \subseteq DOMAIN claim[l]
  BY DEF Typed, TypeOK, Undecided
<1>2. \A id \in Undecided(l) : claim[l][id].body \in Bodies /\ claim[l][id].outcome \in Outcomes
  BY <1>1 DEF Typed, TypeOK, ClaimsThere, Claim
<1> QED
  BY <1>1, <1>2 DEF Writes, Decision

(* So is what its COMMIT makes of the receipts and the ledger.              *)
LEMMA DecidedTyped ==
    ASSUME Typed, NEW w, DOMAIN w \subseteq Ids, w \in [DOMAIN w -> Decision]
    PROVE  /\ Decided(w) \in [Ids -> Seq(Decision)]
           /\ DOMAIN Recorded(w) \subseteq Ids
           /\ Recorded(w) \in [DOMAIN Recorded(w) -> Decision]
<1>1. Decided(w) \in [Ids -> Seq(Decision)]
  BY DEF Decided, Typed, TypeOK
<1>2. /\ DOMAIN Recorded(w) = DOMAIN receipts \cup DOMAIN w
      /\ \A id \in DOMAIN Recorded(w) : Recorded(w)[id] \in Decision
  BY DEF Recorded, Typed, TypeOK
<1> QED
  BY <1>1, <1>2 DEF Recorded, Typed, TypeOK

(* The claims of a lane are replaced.                                      *)
LEMMA ClaimsReplaced ==
    ASSUME Typed, NEW l \in Lanes, NEW c, DOMAIN c \subseteq Ids, c \in [DOMAIN c -> Claim],
           claim' = [claim EXCEPT ![l] = c]
    PROVE  /\ claim' = [k \in Lanes |-> claim'[k]]
           /\ \A k \in Lanes : DOMAIN claim'[k] \subseteq Ids
                               /\ claim'[k] \in [DOMAIN claim'[k] -> Claim]
           /\ claim'[l] = c
           /\ \A k \in Lanes : k # l => claim'[k] = claim[k]
<1>1. DOMAIN claim = Lanes
  BY DEF Typed, TypeOK
<1>2. claim' = [k \in Lanes |-> IF k = l THEN c ELSE claim[k]]
  BY <1>1
<1>3. claim'[l] = c /\ \A k \in Lanes : k # l => claim'[k] = claim[k]
  BY <1>2
<1>4. \A k \in Lanes : DOMAIN claim'[k] \subseteq Ids
                        /\ claim'[k] \in [DOMAIN claim'[k] -> Claim]
  BY <1>3 DEF Typed, TypeOK
<1>5. claim' = [k \in Lanes |-> claim'[k]]
  BY <1>2
<1> QED
  BY <1>3, <1>4, <1>5

(* Giving a transaction up (ROLLBACK, then replay, NAK or "failed") keeps   *)
(* the types.                                                               *)
LEMMA GiveUpTyped ==
    ASSUME Typed, NEW l \in Lanes, GiveUp(l)
    PROVE  /\ queue' \in [Messages -> {"unsent", "waiting", "pending", "acked", "spent"}]
           /\ deliveries' \in [Messages -> 0..MaxDeliver]
           /\ phase' \in [Lanes -> {"idle", "lock", "lookup", "execute", "finish", "answer"}]
           /\ batch' \in [Lanes -> BOOLEAN]
           /\ todo' \in [Lanes -> SUBSET Delivery]
           /\ cur' \in [Lanes -> SUBSET Delivery]
           /\ held' \in [Lanes -> SUBSET Nat]
           /\ intx' \in [Lanes -> BOOLEAN]
           /\ timing' \in [Lanes -> [Ids -> {"ok", "expired", "future"}]]
           /\ claim' = [k \in Lanes |-> claim'[k]]
           /\ \A k \in Lanes : DOMAIN claim'[k] \subseteq Ids
                               /\ claim'[k] \in [DOMAIN claim'[k] -> Claim]
           /\ told' \in [Messages -> Statuses]
           /\ DeliveriesLeft' /\ ClaimsThere'
<1>1. \A d \in Delivery : d.msg \in Messages
  BY DEF Delivery
<1>2. \A m \in Messages : Returned(m) \in {"waiting", "spent"}
                          /\ (Returned(m) = "waiting" => deliveries[m] < MaxDeliver)
  BY DEF Returned
<1>3. cur[l] \subseteq Delivery
  BY DEF Typed, TypeOK
<1>4. /\ queue' \in [Messages -> {"unsent", "waiting", "pending", "acked", "spent"}]
      /\ told' \in [Messages -> Statuses]
      /\ DeliveriesLeft' /\ deliveries' = deliveries
  <2>1. CASE UNCHANGED <<queue, told>>
    BY <2>1 DEF GiveUp, Typed, TypeOK, DeliveriesLeft
  <2>2. CASE \E d \in cur[l] : RetryOrFail(d)
    <3>1. PICK d \in cur[l] : RetryOrFail(d)
      BY <2>2
    <3>2. d.msg \in Messages
      BY <1>1, <1>3
    <3>3. CASE Tell(d.msg, "failed") /\ Ack(d.msg)
      BY <3>2, <3>3 DEF GiveUp, Tell, Ack, Typed, TypeOK, DeliveriesLeft, Statuses
    <3>4. CASE Nak(d.msg) /\ UNCHANGED told
      BY <1>2, <3>2, <3>4 DEF GiveUp, Nak, Typed, TypeOK, DeliveriesLeft
    <3> QED
      BY <3>1, <3>3, <3>4 DEF RetryOrFail
  <2> QED
    BY <2>1, <2>2 DEF GiveUp
<1>5. ClaimsThere'
  <2>1. \A k \in Lanes : k # l => /\ phase'[k] = phase[k] /\ cur'[k] = cur[k]
                                  /\ claim'[k] = claim[k]
    BY DEF GiveUp, Typed, TypeOK
  <2>2. phase'[l] = "idle"
    BY DEF GiveUp, Typed, TypeOK
  <2> QED
    BY <2>1, <2>2 DEF Typed, ClaimsThere, TxIds, Undecided
<1>6. /\ claim' = [k \in Lanes |-> claim'[k]]
      /\ \A k \in Lanes : DOMAIN claim'[k] \subseteq Ids
                          /\ claim'[k] \in [DOMAIN claim'[k] -> Claim]
  <2>1. <<>> \in [DOMAIN <<>> -> Claim] /\ DOMAIN <<>> \subseteq Ids
    OBVIOUS
  <2>2. claim' = [claim EXCEPT ![l] = <<>>]
    BY DEF GiveUp
  <2> QED
    BY <2>1, <2>2, ClaimsReplaced
<1>7. timing' \in [Lanes -> [Ids -> {"ok", "expired", "future"}]]
  BY DEF GiveUp, Untimed, Typed, TypeOK
<1> QED
  BY <1>4, <1>5, <1>6, <1>7 DEF GiveUp, Rollback, Typed, TypeOK

(* A step that leaves the lanes' claims alone keeps ClaimsThere.           *)
LEMMA SameClaims ==
    ASSUME ClaimsThere, UNCHANGED <<phase, cur, claim>>
    PROVE  ClaimsThere'
BY DEF ClaimsThere, TxIds, Undecided

(* A client's publish keeps the types.                                      *)
LEMMA PublishTyped == ASSUME Typed, NEW m \in Messages, Publish(m) PROVE Typed'
<1>1. TypeOK'
  BY DEF Typed, TypeOK, Publish, lane, db
<1>2. DeliveriesLeft'
  BY DEF Typed, TypeOK, DeliveriesLeft, Publish
<1>3. ClaimsThere'
  BY SameClaims DEF Typed, Publish, lane
<1> QED
  BY <1>1, <1>2, <1>3 DEF Typed

(* So does a message's return to the queue.                                 *)
LEMMA ReturnTyped ==
    ASSUME Typed, NEW m \in Messages, queue' = [queue EXCEPT ![m] = Returned(m)],
           faults' \in 0..MaxFaults, UNCHANGED <<deliveries, lane, db, told>>
    PROVE  Typed'
<1>1. Returned(m) \in {"waiting", "spent"}
      /\ (Returned(m) = "waiting" => deliveries[m] < MaxDeliver)
  BY DEF Returned
<1>2. TypeOK'
  BY <1>1 DEF Typed, TypeOK, lane, db
<1>3. DeliveriesLeft'
  BY <1>1 DEF Typed, TypeOK, DeliveriesLeft
<1>4. ClaimsThere'
  BY SameClaims DEF Typed, lane
<1> QED
  BY <1>2, <1>3, <1>4 DEF Typed

(* A pull keeps the types: only what has a delivery left is delivered.      *)
LEMMA FetchTyped == ASSUME Typed, NEW l \in Lanes, Fetch(l) PROVE Typed'
<1>1. PICK b \in SUBSET {m \in Messages : queue[m] = "waiting"} :
          /\ todo' = [todo EXCEPT ![l] = {[msg |-> m, n |-> deliveries[m] + 1] : m \in b}]
          /\ batch' = [batch EXCEPT ![l] = Cardinality(b) > 1]
          /\ queue' = [m \in Messages |-> IF m \in b THEN "pending" ELSE queue[m]]
          /\ deliveries' = [m \in Messages |-> IF m \in b THEN deliveries[m] + 1 ELSE deliveries[m]]
  BY DEF Fetch
<1>2. \A m \in b : m \in Messages /\ deliveries[m] + 1 \in 1..MaxDeliver
  BY ReceiptsAssumption DEF Typed, TypeOK, DeliveriesLeft
<1>3. {[msg |-> m, n |-> deliveries[m] + 1] : m \in b} \subseteq Delivery
  BY <1>2 DEF Delivery
<1>4. todo' \in [Lanes -> SUBSET Delivery] /\ batch' \in [Lanes -> BOOLEAN]
  BY <1>1, <1>3 DEF Typed, TypeOK
<1>5. /\ queue' \in [Messages -> {"unsent", "waiting", "pending", "acked", "spent"}]
      /\ deliveries' \in [Messages -> 0..MaxDeliver]
      /\ DeliveriesLeft'
  BY <1>1, <1>2, ReceiptsAssumption DEF Typed, TypeOK, DeliveriesLeft
<1>6. TypeOK'
  BY <1>4, <1>5 DEF Typed, TypeOK, Fetch, db
<1>7. ClaimsThere'
  BY SameClaims DEF Typed, Fetch
<1> QED
  BY <1>5, <1>6, <1>7 DEF Typed

(* Admission keeps the types.                                               *)
LEMMA AdmitTyped == ASSUME Typed, NEW l \in Lanes, Admit(l) PROVE Typed'
<1>1. phase[l] = "idle" /\ todo[l] \subseteq Delivery
  BY DEF Admit, Typed, TypeOK
<1>2. PICK seen \in SUBSET todo[l], limited \in SUBSET todo[l] : AdmitFrom(l, seen, limited)
  <2>1. PICK seen \in IF batch[l] THEN {todo[l]} ELSE {{d} : d \in todo[l]} :
            \E limited \in SUBSET {d \in seen : Kind[d.msg] = "write" /\ d.n = 1} :
               AdmitFrom(l, seen, limited)
    BY DEF Admit
  <2>2. PICK limited \in SUBSET {d \in seen : Kind[d.msg] = "write" /\ d.n = 1} :
            AdmitFrom(l, seen, limited)
    BY <2>1
  <2>3. seen \in SUBSET todo[l] /\ limited \in SUBSET todo[l]
    OBVIOUS
  <2> QED
    BY <2>2, <2>3
<1> DEFINE refused  == {d \in seen : Kind[d.msg] # "write"}
           admitted == seen \ (refused \cup limited)
           first    == IF admitted = {} THEN "idle" ELSE "lock"
<1>3. /\ cur' = [cur EXCEPT ![l] = admitted]
      /\ phase' = [phase EXCEPT ![l] = first]
      /\ intx' = [intx EXCEPT ![l] = admitted # {}]
      /\ batch' = [batch EXCEPT ![l] = batch[l] /\ admitted # {}]
      /\ todo' = [todo EXCEPT ![l] =
              IF batch[l] /\ admitted # {} THEN todo[l] ELSE todo[l] \ seen]
      /\ UNCHANGED <<deliveries, held, timing, claim, db, faults>>
  BY <1>2 DEF AdmitFrom
<1>4. /\ cur' \in [Lanes -> SUBSET Delivery] /\ todo' \in [Lanes -> SUBSET Delivery]
      /\ phase' \in [Lanes -> {"idle", "lock", "lookup", "execute", "finish", "answer"}]
      /\ intx' \in [Lanes -> BOOLEAN]
      /\ batch' \in [Lanes -> BOOLEAN]
  BY <1>1, <1>3 DEF Typed, TypeOK
<1>5. \A m \in Messages : Returned(m) \in {"waiting", "spent"}
                          /\ (Returned(m) = "waiting" => deliveries[m] < MaxDeliver)
  BY DEF Returned
<1>6. /\ queue' = [m \in Messages |->
              IF \E d \in refused : d.msg = m THEN "acked"
              ELSE IF queue[m] = "pending" /\ \E d \in limited : d.msg = m THEN Returned(m)
              ELSE queue[m]]
      /\ told' = [m \in Messages |->
              IF m \in Unwritable /\ \E d \in refused : d.msg = m THEN "rejected" ELSE told[m]]
  BY <1>2 DEF AdmitFrom
<1>7. queue' \in [Messages -> {"unsent", "waiting", "pending", "acked", "spent"}]
  BY <1>5, <1>6 DEF Typed, TypeOK
<1>8. told' \in [Messages -> Statuses]
  BY <1>6 DEF Typed, TypeOK, Statuses, Outcomes
<1>9. DeliveriesLeft'
  BY <1>3, <1>5, <1>6 DEF Typed, TypeOK, DeliveriesLeft
<1>10. TypeOK'
  BY <1>3, <1>4, <1>7, <1>8 DEF Typed, TypeOK, db
<1>11. ClaimsThere'
  <2>1. \A k \in Lanes : k # l => phase'[k] = phase[k] /\ cur'[k] = cur[k]
    BY <1>3 DEF Typed, TypeOK
  <2>2. phase'[l] \in {"idle", "lock"}
    BY <1>3 DEF Typed, TypeOK
  <2> QED
    BY <1>3, <2>1, <2>2 DEF Typed, ClaimsThere, TxIds, Undecided
<1> QED
  BY <1>9, <1>10, <1>11 DEF Typed

(* Judging the months of the IDs keeps the types.                           *)
LEMMA ReadPolicyTyped == ASSUME Typed, NEW l \in Lanes, ReadPolicy(l) PROVE Typed'
<1>1. [id \in Ids |-> Timing(id)] \in [Ids -> {"ok", "expired", "future"}]
  BY DEF Timing
<1>2. TypeOK'
  BY <1>1 DEF Typed, TypeOK, ReadPolicy, stream, db
<1>3. DeliveriesLeft'
  BY DEF Typed, DeliveriesLeft, ReadPolicy, stream
<1>4. phase'[l] = "lookup" /\ \A k \in Lanes : k # l => phase'[k] = phase[k]
  BY DEF Typed, TypeOK, ReadPolicy
<1>5. ClaimsThere'
  BY <1>4 DEF Typed, ClaimsThere, TxIds, Undecided, ReadPolicy
<1> QED
  BY <1>2, <1>3, <1>5 DEF Typed

(* The IDs of a transaction.                                                *)
LEMMA TxIdsAreIds == ASSUME Typed, NEW l \in Lanes PROVE TxIds(l) \subseteq Ids
BY ReceiptsAssumption DEF TxIds, Typed, TypeOK, Delivery

(* The lookup keeps the types and makes a claim for every message.          *)
LEMMA LookupTyped == ASSUME Typed, NEW l \in Lanes, Lookup(l) PROVE Typed'
<1>1. PICK first \in [TxIds(l) -> Bodies] :
          claim' = [claim EXCEPT ![l] = [id \in TxIds(l) |-> Claimed(l, id, first[id])]]
  BY DEF Lookup
<1> DEFINE c == [id \in TxIds(l) |-> Claimed(l, id, first[id])]
<1>2. TxIds(l) \subseteq Ids
  BY TxIdsAreIds
<1>3. \A id \in TxIds(l) : Claimed(l, id, first[id]) \in Claim
  <2> SUFFICES ASSUME NEW id \in TxIds(l) PROVE Claimed(l, id, first[id]) \in Claim
    OBVIOUS
  <2>1. timing[l][id] \in {"ok", "expired", "future"}
    BY <1>2 DEF Typed, TypeOK
  <2>2. id \in DOMAIN receipts => receipts[id].outcome \in Outcomes
    BY DEF Typed, TypeOK, Decision
  <2> QED
    BY <2>1, <2>2 DEF Claimed, Claim
<1>4. c \in [DOMAIN c -> Claim] /\ DOMAIN c = TxIds(l)
  BY <1>3
<1>5. /\ claim' = [k \in Lanes |-> claim'[k]]
      /\ \A k \in Lanes : DOMAIN claim'[k] \subseteq Ids
                          /\ claim'[k] \in [DOMAIN claim'[k] -> Claim]
      /\ claim'[l] = c
      /\ \A k \in Lanes : k # l => claim'[k] = claim[k]
  <2> HIDE DEF c
  <2> QED
    BY <1>1, <1>2, <1>4, ClaimsReplaced DEF c
<1>6. /\ phase' \in [Lanes -> {"idle", "lock", "lookup", "execute", "finish", "answer"}]
      /\ held' \in [Lanes -> SUBSET Nat] /\ intx' \in [Lanes -> BOOLEAN]
  <2>1. phase' = [phase EXCEPT ![l] = "execute"] \/ phase' = [phase EXCEPT ![l] = "answer"]
    BY DEF Lookup
  <2>2. UNCHANGED <<held, intx>> \/ Rollback(l)
    BY DEF Lookup
  <2>3. phase' \in [Lanes -> {"idle", "lock", "lookup", "execute", "finish", "answer"}]
    BY <2>1 DEF Typed, TypeOK
  <2>4. held' \in [Lanes -> SUBSET Nat] /\ intx' \in [Lanes -> BOOLEAN]
    BY <2>2 DEF Typed, TypeOK, Rollback
  <2> QED
    BY <2>3, <2>4
<1>7. timing' \in [Lanes -> [Ids -> {"ok", "expired", "future"}]]
  BY DEF Typed, TypeOK, Lookup, Untimed
<1>8. TypeOK'
  <2> HIDE DEF c
  <2> QED
    BY <1>5, <1>6, <1>7 DEF Typed, TypeOK, Lookup, stream, db
<1>9. DeliveriesLeft'
  BY DEF Typed, DeliveriesLeft, Lookup, stream
<1>10. ClaimsThere'
  <2>1. \A k \in Lanes : k # l => phase'[k] = phase[k] /\ claim'[k] = claim[k]
    BY <1>5 DEF Typed, TypeOK, Lookup
  <2>2. cur' = cur
    BY DEF Lookup
  <2>3. DOMAIN claim'[l] = TxIds(l)
    BY <1>4, <1>5
  <2>4. \/ phase'[l] = "execute"
        \/ \A id \in TxIds(l) : claim'[l][id].status # "claimed"
    BY DEF Lookup, Typed, TypeOK
  <2> QED
    BY <2>1, <2>2, <2>3, <2>4 DEF Typed, ClaimsThere, TxIds, Undecided
<1> QED
  BY <1>8, <1>9, <1>10 DEF Typed

(* Executing keeps the types and, inside its transaction, decides nothing   *)
(* yet.                                                                     *)
LEMMA ExecuteTyped ==
    ASSUME Typed, NEW l \in Lanes, Execute(l) PROVE Typed' /\ ledger' = ledger
<1>1. PICK out \in [Undecided(l) -> Outcomes] :
           claim' = [claim EXCEPT ![l] = [id \in DOMAIN claim[l] |->
                 IF id \in Undecided(l)
                   THEN [claim[l][id] EXCEPT !.outcome = out[id]] ELSE claim[l][id]]]
  BY DEF Execute
<1> DEFINE c == [id \in DOMAIN claim[l] |->
                 IF id \in Undecided(l)
                   THEN [claim[l][id] EXCEPT !.outcome = out[id]] ELSE claim[l][id]]
<1>2. DOMAIN c = DOMAIN claim[l] /\ DOMAIN claim[l] \subseteq Ids
  BY DEF Typed, TypeOK
<1>3. \A id \in DOMAIN c : c[id] \in Claim /\ c[id].status = claim[l][id].status
                           /\ (id \in Undecided(l) => c[id].outcome \in Outcomes)
  <2> SUFFICES ASSUME NEW id \in DOMAIN claim[l]
               PROVE  /\ c[id] \in Claim /\ c[id].status = claim[l][id].status
                      /\ id \in Undecided(l) => c[id].outcome \in Outcomes
    BY <1>2
  <2>1. claim[l][id] \in Claim
    BY DEF Typed, TypeOK
  <2>2. CASE id \in Undecided(l)
    <3>1. c[id] = [claim[l][id] EXCEPT !.outcome = out[id]] /\ out[id] \in Outcomes
      BY <2>2
    <3> QED
      BY <2>1, <3>1 DEF Claim
  <2>3. CASE id \notin Undecided(l)
    BY <2>1, <2>3
  <2> QED
    BY <2>2, <2>3
<1>4. c \in [DOMAIN c -> Claim]
  BY <1>3
<1>5. /\ claim' = [k \in Lanes |-> claim'[k]]
      /\ \A k \in Lanes : DOMAIN claim'[k] \subseteq Ids
                          /\ claim'[k] \in [DOMAIN claim'[k] -> Claim]
      /\ claim'[l] = c
      /\ \A k \in Lanes : k # l => claim'[k] = claim[k]
  <2>1. DOMAIN c \subseteq Ids
    BY <1>2
  <2>2. claim' = [claim EXCEPT ![l] = c]
    BY <1>1
  <2> HIDE DEF c
  <2> QED
    BY <2>1, <2>2, <1>4, ClaimsReplaced
<1>6. ledger' = ledger
  BY DEF Execute, RequireTransaction
<1>7. TypeOK'
  <2> HIDE DEF c
  <2> QED
    BY <1>5, <1>6 DEF Typed, TypeOK, Execute, stream
<1>8. DeliveriesLeft'
  BY DEF Typed, DeliveriesLeft, Execute, stream
<1>9. ClaimsThere'
  <2>1. \A k \in Lanes : k # l => phase'[k] = phase[k] /\ claim'[k] = claim[k]
    BY <1>5 DEF Typed, TypeOK, Execute
  <2>2. cur' = cur /\ phase[l] = "execute"
    BY DEF Execute
  <2> HIDE DEF c
  <2>3. DOMAIN claim'[l] = DOMAIN claim[l]
        /\ \A id \in DOMAIN claim[l] :
             claim'[l][id].status = claim[l][id].status
             /\ (id \in Undecided(l) => claim'[l][id].outcome \in Outcomes)
    BY <1>2, <1>3, <1>5
  <2> QED
    BY <2>1, <2>2, <2>3 DEF Typed, ClaimsThere, TxIds, Undecided
<1> QED
  BY <1>6, <1>7, <1>8, <1>9 DEF Typed

(* Taking an advisory lock keeps the types.                                 *)
LEMMA LockTyped == ASSUME Typed, NEW l \in Lanes, Lock(l) PROVE Typed'
<1>1. Missing(l) \subseteq Nat
  BY TxIdsAreIds, ReceiptsAssumption DEF Missing
<1>2. PICK k \in Nat : held' = [held EXCEPT ![l] = held[l] \cup {k}]
  BY <1>1 DEF Lock
<1>3. TypeOK'
  BY <1>2 DEF Typed, TypeOK, Lock, stream, db
<1>4. DeliveriesLeft'
  BY DEF Typed, DeliveriesLeft, Lock, stream
<1>5. ClaimsThere'
  BY SameClaims DEF Typed, Lock
<1> QED
  BY <1>3, <1>4, <1>5 DEF Typed

(* A deferred constraint's refusal keeps the types.                         *)
LEMMA DeferredRefusedTyped ==
    ASSUME Typed, NEW l \in Lanes, DeferredRefused(l) PROVE Typed'
<1>1. PICK id \in Undecided(l) : claim' = [claim EXCEPT ![l][id].outcome = "rejected"]
  BY DEF DeferredRefused
<1> DEFINE r == [claim[l][id] EXCEPT !.outcome = "rejected"]
           c == [claim[l] EXCEPT ![id] = r]
<1>2. id \in DOMAIN claim[l] /\ claim[l][id] \in Claim
  BY DEF Undecided, Typed, TypeOK
<1>3. r \in Claim /\ r.status = claim[l][id].status /\ r.outcome \in Outcomes
  BY <1>2 DEF Claim, Outcomes
<1>4. DOMAIN c = DOMAIN claim[l] /\ DOMAIN claim[l] \subseteq Ids
  BY DEF Typed, TypeOK
<1>5. \A i \in DOMAIN c : /\ c[i] \in Claim /\ c[i].status = claim[l][i].status
                          /\ c[i].outcome \in Outcomes \/ c[i] = claim[l][i]
  <2> HIDE DEF r
  <2> QED
    BY <1>2, <1>3, <1>4 DEF Typed, TypeOK
<1>6. c \in [DOMAIN c -> Claim]
  <2> HIDE DEF r
  <2> QED
    BY <1>4, <1>5 DEF Typed, TypeOK
<1>7. /\ claim' = [k \in Lanes |-> claim'[k]]
      /\ \A k \in Lanes : DOMAIN claim'[k] \subseteq Ids
                          /\ claim'[k] \in [DOMAIN claim'[k] -> Claim]
      /\ claim'[l] = c
      /\ \A k \in Lanes : k # l => claim'[k] = claim[k]
  <2>1. DOMAIN c \subseteq Ids
    BY <1>4
  <2>2. claim' = [claim EXCEPT ![l] = c]
    BY <1>1
  <2> HIDE DEF c
  <2> QED
    BY <2>1, <2>2, <1>6, ClaimsReplaced
<1> HIDE DEF c
<1>8. TypeOK'
  BY <1>7 DEF Typed, TypeOK, DeferredRefused, stream, db
<1>9. DeliveriesLeft'
  BY DEF Typed, DeliveriesLeft, DeferredRefused, stream
<1>10. ClaimsThere'
  <2>1. phase' = phase /\ cur' = cur
    BY DEF DeferredRefused
  <2>2. \A i \in DOMAIN c : c[i].status = "claimed" =>
            c[i].outcome \in Outcomes \/ (i \in Undecided(l) /\ c[i] = claim[l][i])
    BY <1>4, <1>5 DEF Undecided
  <2>3. DOMAIN claim'[l] = DOMAIN claim[l]
        /\ (phase[l] \in {"finish", "answer"} =>
              \A i \in DOMAIN claim'[l] : claim'[l][i].status = "claimed" =>
                claim'[l][i].outcome \in Outcomes)
    BY <1>4, <1>7, <2>2 DEF Typed, ClaimsThere
  <2> QED
    BY <1>7, <2>1, <2>3 DEF Typed, ClaimsThere, TxIds, Undecided
<1> QED
  BY <1>8, <1>9, <1>10 DEF Typed

(* A COMMIT keeps the types.                                                *)
LEMMA CommitTyped == ASSUME Typed, NEW l \in Lanes, Commit(l) PROVE Typed'
<1>1. /\ Decided(Writes(l)) \in [Ids -> Seq(Decision)]
      /\ DOMAIN Recorded(Writes(l)) \subseteq Ids
      /\ Recorded(Writes(l)) \in [DOMAIN Recorded(Writes(l)) -> Decision]
  BY WritesTyped, DecidedTyped DEF Commit
<1>2. ledger' = Decided(Writes(l)) /\ receipts' = Recorded(Writes(l))
  BY DEF Commit, RequireTransaction
<1>3. TypeOK'
  BY <1>1, <1>2 DEF Typed, TypeOK, Commit, Rollback, stream
<1>4. DeliveriesLeft'
  BY DEF Typed, DeliveriesLeft, Commit, stream
<1>5. phase'[l] = "answer" /\ phase[l] = "finish" /\ \A k \in Lanes : k # l => phase'[k] = phase[k]
  BY DEF Typed, TypeOK, Commit
<1>6. ClaimsThere'
  BY <1>5 DEF Typed, ClaimsThere, TxIds, Undecided, Commit
<1> QED
  BY <1>3, <1>4, <1>6 DEF Typed

(* What a connection lost at its COMMIT leaves behind.                     *)
LEMMA OrphanTyped ==
    ASSUME Typed, NEW l \in Lanes, phase[l] = "finish",
           NEW o, o = [keys |-> held[l], writes |-> Writes(l)]
    PROVE  /\ o.keys \subseteq Nat
           /\ DOMAIN o.writes \subseteq Ids
           /\ o.writes \in [DOMAIN o.writes -> Decision]
<1>1. o.keys = held[l] /\ o.writes = Writes(l)
  OBVIOUS
<1>2. held[l] \subseteq Nat
  BY DEF Typed, TypeOK
<1> QED
  BY <1>1, <1>2, WritesTyped

(* A COMMIT whose answer is lost keeps the types.                           *)
LEMMA CommitLostTyped == ASSUME Typed, NEW l \in Lanes, CommitLost(l) PROVE Typed'
<1>1. \A o \in orphans' : /\ o.keys \subseteq Nat
                          /\ DOMAIN o.writes \subseteq Ids
                          /\ o.writes \in [DOMAIN o.writes -> Decision]
  <2>1. phase[l] = "finish" /\ orphans' = orphans \cup {[keys |-> held[l], writes |-> Writes(l)]}
    BY DEF CommitLost
  <2> QED
    BY <2>1, OrphanTyped DEF Typed, TypeOK
<1>2. faults' \in 0..MaxFaults
  BY ReceiptsAssumption DEF Typed, TypeOK, CommitLost, Fault
<1>3. TypeOK' /\ DeliveriesLeft' /\ ClaimsThere'
  <2>1. GiveUp(l)
    BY DEF CommitLost
  <2> QED
    BY <1>1, <1>2, <2>1, GiveUpTyped DEF Typed, TypeOK, CommitLost
<1> QED
  BY <1>3 DEF Typed

(* A failed or refused round keeps the types.                               *)
LEMMA RoundOverTyped ==
    ASSUME Typed, NEW l \in Lanes, RoundFails(l) \/ RoundRefused(l) PROVE Typed'
<1>1. GiveUp(l) /\ UNCHANGED db
  BY DEF RoundFails, RoundRefused, db
<1>2. faults' \in 0..MaxFaults
  BY ReceiptsAssumption DEF Typed, TypeOK, RoundFails, RoundRefused, Fault
<1>3. TypeOK' /\ DeliveriesLeft' /\ ClaimsThere'
  BY <1>1, <1>2, GiveUpTyped DEF Typed, TypeOK, db
<1> QED
  BY <1>3 DEF Typed

(* A verdict keeps the types.                                               *)
LEMMA AnswerTyped == ASSUME Typed, NEW l \in Lanes, Answer(l) PROVE Typed'
<1>1. PICK d \in cur[l] :
         LET left == cur[l] \ {d}
         IN  /\ Tell(d.msg, Verdict(l, d.msg))
             /\ Ack(d.msg)
             /\ cur' = [cur EXCEPT ![l] = left]
             /\ IF left # {} THEN UNCHANGED <<phase, todo, batch, claim>>
                ELSE /\ phase' = [phase EXCEPT ![l] = "idle"]
                     /\ todo' = [todo EXCEPT ![l] = IF batch[l] THEN {} ELSE todo[l]]
                     /\ batch' = [batch EXCEPT ![l] = FALSE]
                     /\ claim' = [claim EXCEPT ![l] = <<>>]
  BY DEF Answer
<1>2. phase[l] = "answer" /\ d \in Delivery /\ d.msg \in Messages /\ IdOf[d.msg] \in TxIds(l)
  BY DEF Answer, Typed, TypeOK, Delivery, TxIds
<1>3. Verdict(l, d.msg) \in Statuses
  <2>1. IdOf[d.msg] \in DOMAIN claim[l]
    BY <1>2 DEF Typed, ClaimsThere
  <2>2. claim[l][IdOf[d.msg]] \in Claim
    BY <2>1 DEF Typed, TypeOK
  <2> QED
    BY <2>2 DEF Verdict, Claim, Statuses
<1>4. /\ queue' \in [Messages -> {"unsent", "waiting", "pending", "acked", "spent"}]
      /\ told' \in [Messages -> Statuses] /\ DeliveriesLeft'
  BY <1>1, <1>2, <1>3 DEF Tell, Ack, Answer, Typed, TypeOK, DeliveriesLeft
<1>5. /\ phase' \in [Lanes -> {"idle", "lock", "lookup", "execute", "finish", "answer"}]
      /\ cur' \in [Lanes -> SUBSET Delivery] /\ todo' \in [Lanes -> SUBSET Delivery]
      /\ batch' \in [Lanes -> BOOLEAN]
  <2>1. cur' = [cur EXCEPT ![l] = cur[l] \ {d}]
    BY <1>1
  <2>2. phase' = phase \/ phase' = [phase EXCEPT ![l] = "idle"]
    BY <1>1
  <2>3. todo' = todo \/ todo' = [todo EXCEPT ![l] = IF batch[l] THEN {} ELSE todo[l]]
    BY <1>1
  <2>4. batch' = batch \/ batch' = [batch EXCEPT ![l] = FALSE]
    BY <1>1
  <2>5. phase' \in [Lanes -> {"idle", "lock", "lookup", "execute", "finish", "answer"}]
    BY <2>2 DEF Typed, TypeOK
  <2>6. cur' \in [Lanes -> SUBSET Delivery] /\ todo' \in [Lanes -> SUBSET Delivery]
    BY <2>1, <2>3 DEF Typed, TypeOK
  <2>7. batch' \in [Lanes -> BOOLEAN]
    BY <2>4 DEF Typed, TypeOK
  <2> QED
    BY <2>5, <2>6, <2>7
<1>6. /\ claim' = [k \in Lanes |-> claim'[k]]
      /\ \A k \in Lanes : DOMAIN claim'[k] \subseteq Ids
                          /\ claim'[k] \in [DOMAIN claim'[k] -> Claim]
      /\ \A k \in Lanes : k # l => claim'[k] = claim[k]
      /\ claim'[l] = claim[l] \/ phase'[l] = "idle"
  <2>1. CASE claim' = claim
    BY <2>1 DEF Typed, TypeOK
  <2>2. CASE claim' = [claim EXCEPT ![l] = <<>>] /\ phase' = [phase EXCEPT ![l] = "idle"]
    <3>1. <<>> \in [DOMAIN <<>> -> Claim] /\ DOMAIN <<>> \subseteq Ids
      OBVIOUS
    <3>2. phase'[l] = "idle"
      BY <2>2 DEF Typed, TypeOK
    <3> QED
      BY <2>2, <3>1, <3>2, ClaimsReplaced
  <2> QED
    BY <1>1, <2>1, <2>2
<1>7. TypeOK'
  BY <1>4, <1>5, <1>6 DEF Typed, TypeOK, Answer, db
<1>8. ClaimsThere'
  <2>1. \A k \in Lanes : k # l => phase'[k] = phase[k] /\ cur'[k] = cur[k]
    BY <1>1 DEF Typed, TypeOK
  <2>2. phase'[l] \in {"idle", "answer"} /\ cur'[l] \subseteq cur[l]
    BY <1>1, <1>2 DEF Typed, TypeOK
  <2> QED
    BY <1>2, <1>6, <2>1, <2>2 DEF Typed, ClaimsThere, TxIds, Undecided
<1> QED
  BY <1>4, <1>7, <1>8 DEF Typed

(* A PQreset inside a round keeps the types.                                *)
LEMMA ConnectionResetTyped ==
    ASSUME Typed, NEW l \in Lanes, ConnectionReset(l) PROVE Typed'
<1>1. TypeOK'
  BY ReceiptsAssumption DEF Typed, TypeOK, ConnectionReset, Rollback, Fault, stream, db
<1>2. DeliveriesLeft'
  BY DEF Typed, DeliveriesLeft, ConnectionReset, stream
<1>3. ClaimsThere'
  BY SameClaims DEF Typed, ConnectionReset
<1> QED
  BY <1>1, <1>2, <1>3 DEF Typed

(* A crash of the process keeps the types.                                  *)
LEMMA CrashTyped == ASSUME Typed, Crash PROVE Typed'
<1>1. PICK sent \in SUBSET {l \in Lanes : phase[l] = "finish" /\ intx[l]} :
          orphans' = orphans \cup {[keys |-> held[l], writes |-> Writes(l)] : l \in sent}
  BY DEF Crash
<1>2. \A o \in orphans' : /\ o.keys \subseteq Nat
                          /\ DOMAIN o.writes \subseteq Ids
                          /\ o.writes \in [DOMAIN o.writes -> Decision]
  BY <1>1, OrphanTyped DEF Typed, TypeOK
<1>3. /\ claim' = [k \in Lanes |-> claim'[k]]
      /\ \A k \in Lanes : DOMAIN claim'[k] \subseteq Ids
                          /\ claim'[k] \in [DOMAIN claim'[k] -> Claim]
  BY DEF Crash
<1>4. timing' \in [Lanes -> [Ids -> {"ok", "expired", "future"}]]
  BY DEF Crash, Untimed
<1>5. TypeOK'
  BY <1>2, <1>3, <1>4, ReceiptsAssumption DEF Typed, TypeOK, Crash, Fault, stream
<1>6. DeliveriesLeft'
  BY DEF Typed, DeliveriesLeft, Crash, stream
<1>7. ClaimsThere'
  BY DEF ClaimsThere, Crash
<1> QED
  BY <1>5, <1>6, <1>7 DEF Typed

(* The end of a transaction nobody listens to keeps the types.              *)
LEMMA OrphanEndsTyped == ASSUME Typed, NEW o \in orphans, OrphanEnds(o) PROVE Typed'
<1>1. DOMAIN o.writes \subseteq Ids /\ o.writes \in [DOMAIN o.writes -> Decision]
  BY DEF Typed, TypeOK
<1>2. /\ Decided(o.writes) \in [Ids -> Seq(Decision)]
      /\ DOMAIN Recorded(o.writes) \subseteq Ids
      /\ Recorded(o.writes) \in [DOMAIN Recorded(o.writes) -> Decision]
  BY <1>1, DecidedTyped
<1>3. TypeOK'
  BY <1>2 DEF Typed, TypeOK, OrphanEnds, stream, lane
<1>4. DeliveriesLeft'
  BY DEF Typed, DeliveriesLeft, OrphanEnds, stream
<1>5. ClaimsThere'
  BY SameClaims DEF Typed, OrphanEnds, lane
<1> QED
  BY <1>3, <1>4, <1>5 DEF Typed

(* Maintenance, pruning and time keep the types.                            *)
LEMMA OperatorTyped == ASSUME Typed, Maintain \/ Prune \/ Tick PROVE Typed'
<1>1. CASE Maintain
  <2>1. floor' \in Nat /\ partitions' \subseteq Nat
    BY <1>1, ReceiptsAssumption DEF Typed, TypeOK, Maintain, LegacyMonth
  <2>2. TypeOK'
    BY <1>1, <2>1 DEF Typed, TypeOK, Maintain, stream, lane
  <2> QED
    BY <1>1, <2>2, SameClaims DEF Typed, DeliveriesLeft, Maintain, stream, lane
<1>2. CASE Prune
  <2>1. /\ DOMAIN receipts' \subseteq Ids /\ receipts' \in [DOMAIN receipts' -> Decision]
        /\ partitions' \subseteq Nat
    BY <1>2 DEF Typed, TypeOK, Prune
  <2>2. TypeOK'
    BY <1>2, <2>1 DEF Typed, TypeOK, Prune, stream, lane
  <2> QED
    BY <1>2, <2>2, SameClaims DEF Typed, DeliveriesLeft, Prune, stream, lane
<1>3. CASE Tick
  <2>1. TypeOK'
    BY <1>3 DEF Typed, TypeOK, Tick, stream, lane
  <2> QED
    BY <1>3, <2>1, SameClaims DEF Typed, DeliveriesLeft, Tick, stream, lane
<1> QED
  BY <1>1, <1>2, <1>3

(* Every step keeps the types.                                              *)
LEMMA TypedStep == Typed /\ [Next]_vars => Typed'
<1> SUFFICES ASSUME Typed, [Next]_vars PROVE Typed'
  OBVIOUS
<1>1. ASSUME NEW m \in Messages, Publish(m) \/ AckWait(m) \/ AckLost(m) PROVE Typed'
  <2>1. CASE Publish(m)
    BY <2>1, PublishTyped
  <2>2. CASE AckWait(m)
    <3>1. faults' \in 0..MaxFaults
      BY <2>2 DEF AckWait, Typed, TypeOK
    <3> QED
      BY <2>2, <3>1, ReturnTyped DEF AckWait
  <2>3. CASE AckLost(m)
    <3>1. faults' \in 0..MaxFaults
      BY <2>3, ReceiptsAssumption DEF AckLost, Fault, Typed, TypeOK
    <3> QED
      BY <2>3, <3>1, ReturnTyped DEF AckLost
  <2> QED
    BY <1>1, <2>1, <2>2, <2>3
<1>2. ASSUME NEW l \in Lanes,
             \/ LaneStep(l) \/ DeferredRefused(l)
             \/ CommitLost(l) \/ RoundFails(l) \/ ConnectionReset(l)
      PROVE  Typed'
  BY <1>2, FetchTyped, AdmitTyped, LockTyped, ReadPolicyTyped, LookupTyped, ExecuteTyped,
     CommitTyped, RoundOverTyped, AnswerTyped, DeferredRefusedTyped, CommitLostTyped,
     ConnectionResetTyped DEF LaneStep
<1>3. ASSUME NEW o \in orphans, OrphanEnds(o) PROVE Typed'
  BY <1>3, OrphanEndsTyped
<1>4. ASSUME UNCHANGED vars PROVE Typed'
  BY <1>4, SameClaims DEF Typed, TypeOK, DeliveriesLeft, vars
<1> QED
  BY <1>1, <1>2, <1>3, <1>4, CrashTyped, OperatorTyped DEF Next

-----------------------------------------------------------------------------
(* The heart of it: the unique key of the receipts and the partitions they *)
(* need let a transaction commit only what nobody has decided.             *)
LEMMA DecidesOnce ==
    ASSUME Typed, Covered, NEW w, DOMAIN w \subseteq Ids, w \in [DOMAIN w -> Decision],
           Recordable(w), receipts' = Recorded(w), ledger' = Decided(w),
           UNCHANGED <<partitions, floor, told>>
    PROVE  Covered' /\ Decides /\ \A id \in DOMAIN w : ledger'[id] = <<w[id]>>
<1>1. \A id \in DOMAIN w : id \notin DOMAIN receipts /\ ledger[id] = <<>>
  BY DEF Recordable, Covered, ReceiptsCoverLedger
<1>2. \A id \in DOMAIN w : ledger'[id] = <<w[id]>> /\ w[id] \in Decision
  <2> SUFFICES ASSUME NEW id \in DOMAIN w PROVE ledger'[id] = <<w[id]>> /\ w[id] \in Decision
    OBVIOUS
  <2>1. ledger'[id] = Append(ledger[id], w[id])
    BY DEF Decided
  <2>2. Append(<<>>, w[id]) = <<w[id]>>
    OBVIOUS
  <2> QED
    BY <1>1, <2>1, <2>2
<1>3. \A id \in Ids : id \notin DOMAIN w => ledger'[id] = ledger[id]
  BY DEF Decided
<1>4. /\ DOMAIN receipts' = DOMAIN receipts \cup DOMAIN w
      /\ \A id \in DOMAIN w : receipts'[id] = w[id]
      /\ \A id \in DOMAIN receipts : id \notin DOMAIN w => receipts'[id] = receipts[id]
  BY DEF Recorded
<1>5. ReceiptsCoverLedger'
  BY <1>2, <1>3, <1>4 DEF Covered, ReceiptsCoverLedger
<1>6. LegacyKept'
  BY <1>3, <1>4 DEF Covered, LegacyKept
<1>7. Decides
  BY <1>1, <1>2, <1>3 DEF Decides
<1> QED
  BY <1>2, <1>5, <1>6, <1>7 DEF Covered

(* A receipt outlives the months in which its ID may still run.            *)
LEMMA RetentionCovers ==
    ASSUME Typed, Covered, Maintain \/ Prune PROVE Covered'
<1>1. CASE Maintain
  <2>1. floor' \in Nat /\ floor' >= floor
    BY <1>1, ReceiptsAssumption DEF Maintain, Typed, TypeOK
  <2>2. \A m \in Nat : m # LegacyMonth /\ m < floor' /\ m \in partitions' => m \in partitions
    BY <1>1, <2>1 DEF Maintain, Typed, TypeOK
  <2>3. UNCHANGED <<receipts, ledger>>
    BY <1>1 DEF Maintain
  <2> QED
    BY <2>1, <2>2, <2>3, ReceiptsAssumption
       DEF Covered, ReceiptsCoverLedger, LegacyKept, Typed, TypeOK
<1>2. CASE Prune
  <2>1. /\ \A id \in DOMAIN receipts' : id \in DOMAIN receipts /\ receipts'[id] = receipts[id]
        /\ \A id \in DOMAIN receipts : id \notin DOMAIN receipts' => Prunable(MonthOf[id])
        /\ \A m \in partitions' : m \in partitions /\ ~Prunable(m)
        /\ UNCHANGED <<floor, ledger>>
    BY <1>2 DEF Prune
  <2> QED
    BY <2>1 DEF Covered, ReceiptsCoverLedger, LegacyKept, Prunable
<1> QED
  BY <1>1, <1>2

(* Every step keeps the receipts over the ledger and decides at most once.  *)
LEMMA LedgerStep ==
    ASSUME Typed, Covered, [Next]_vars PROVE Covered' /\ (ledger' = ledger \/ Decides)
<1>1. ASSUME UNCHANGED <<receipts, partitions, floor, ledger>>
      PROVE  Covered' /\ ledger' = ledger
  BY <1>1 DEF Covered, ReceiptsCoverLedger, LegacyKept
<1>2. ASSUME NEW m \in Messages, Publish(m) \/ AckWait(m) \/ AckLost(m)
      PROVE  Covered' /\ ledger' = ledger
  BY <1>1, <1>2 DEF Publish, AckWait, AckLost, db
<1>3. ASSUME NEW l \in Lanes,
             \/ LaneStep(l) \/ DeferredRefused(l)
             \/ CommitLost(l) \/ RoundFails(l) \/ ConnectionReset(l)
      PROVE  Covered' /\ (ledger' = ledger \/ Decides)
  <2>1. CASE Fetch(l) \/ Lock(l) \/ ReadPolicy(l) \/ Lookup(l) \/ Answer(l)
    BY <1>1, <2>1 DEF Fetch, Lock, ReadPolicy, Lookup, Answer, db
  <2>2. CASE Admit(l)
    <3>1. UNCHANGED db
      BY <2>2 DEF Admit, AdmitFrom
    <3> QED
      BY <1>1, <3>1 DEF db
  <2>3. CASE Execute(l)
    BY <1>1, <2>3, ExecuteTyped DEF Execute
  <2>4. CASE Commit(l)
    <3>1. /\ phase[l] = "finish" /\ Recordable(Writes(l))
          /\ receipts' = Recorded(Writes(l)) /\ ledger' = Decided(Writes(l))
          /\ UNCHANGED <<partitions, floor, told>>
      BY <2>4 DEF Commit, RequireTransaction
    <3> QED
      BY <3>1, WritesTyped, DecidesOnce
  <2>5. CASE RoundRefused(l) \/ DeferredRefused(l) \/ RoundFails(l) \/ ConnectionReset(l)
    BY <1>1, <2>5 DEF RoundRefused, DeferredRefused, RoundFails, ConnectionReset, db
  <2>6. CASE CommitLost(l)
    BY <1>1, <2>6 DEF CommitLost
  <2> QED
    BY <1>3, <2>1, <2>2, <2>3, <2>4, <2>5, <2>6 DEF LaneStep
<1>4. ASSUME NEW o \in orphans, OrphanEnds(o)
      PROVE  Covered' /\ (ledger' = ledger \/ Decides)
  <2>1. DOMAIN o.writes \subseteq Ids /\ o.writes \in [DOMAIN o.writes -> Decision]
    BY DEF Typed, TypeOK
  <2>2. UNCHANGED <<partitions, floor, told>>
    BY <1>4 DEF OrphanEnds
  <2> QED
    BY <1>1, <1>4, <2>1, <2>2, DecidesOnce DEF OrphanEnds
<1>5. CASE Maintain \/ Prune
  BY <1>5, RetentionCovers DEF Maintain, Prune
<1>6. CASE Crash \/ Tick \/ UNCHANGED vars
  BY <1>1, <1>6 DEF Crash, Tick, vars
<1> QED
  BY <1>2, <1>3, <1>4, <1>5, <1>6 DEF Next

-----------------------------------------------------------------------------
(* A lane whose claims stand, and that does not begin to answer from them. *)
LEMMA ClaimKept ==
    ASSUME IInv, ledger' = ledger \/ Decides, NEW k \in Lanes, claim'[k] = claim[k],
           phase'[k] # phase[k] => phase'[k] # "answer"
    PROVE  ClaimTrue(k)'
<1>1. ClaimTrue(k) /\ DOMAIN claim[k] \subseteq Ids
  BY DEF IInv, ClaimsTrue, Typed, TypeOK
<1>2. \A id \in Ids : ledger[id] # <<>> => ledger'[id] = ledger[id]
  BY DEF Decides
<1>3. \A x : <<x>> # <<>>
  OBVIOUS
<1> QED
  BY <1>1, <1>2, <1>3 DEF ClaimTrue

(* Every step keeps what the lanes will answer from.                        *)
LEMMA ClaimsStep ==
    ASSUME IInv, [Next]_vars, ledger' = ledger \/ Decides PROVE ClaimsTrue'
<1> USE DEF IInv
<1>1. ASSUME UNCHANGED <<phase, claim>> PROVE ClaimsTrue'
  BY <1>1, ClaimKept DEF ClaimsTrue
<1>2. ASSUME NEW l \in Lanes, GiveUp(l) PROVE ClaimsTrue'
  <2>1. claim'[l] = <<>> /\ \A k \in Lanes : k # l => claim'[k] = claim[k] /\ phase'[k] = phase[k]
    BY <1>2 DEF GiveUp, Typed, TypeOK
  <2>2. ClaimTrue(l)'
    BY <2>1 DEF ClaimTrue
  <2> QED
    BY <2>1, <2>2, ClaimKept DEF ClaimsTrue
<1>3. ASSUME NEW l \in Lanes, Admit(l) \/ ReadPolicy(l) PROVE ClaimsTrue'
  <2>1. claim' = claim
    BY <1>3 DEF Admit, AdmitFrom, ReadPolicy
  <2>2. \E p \in {"idle", "lock", "lookup"} : phase' = [phase EXCEPT ![l] = p]
    BY <1>3 DEF Admit, AdmitFrom, ReadPolicy
  <2>3. \A k \in Lanes : phase'[k] # phase[k] => phase'[k] # "answer"
    BY <2>2 DEF Typed, TypeOK
  <2> QED
    BY <2>1, <2>3, ClaimKept DEF ClaimsTrue
<1>4. ASSUME NEW l \in Lanes, Lookup(l) PROVE ClaimsTrue'
  <2>1. PICK first \in [TxIds(l) -> Bodies] :
            claim' = [claim EXCEPT ![l] = [id \in TxIds(l) |-> Claimed(l, id, first[id])]]
    BY <1>4 DEF Lookup
  <2>2. /\ claim'[l] = [id \in TxIds(l) |-> Claimed(l, id, first[id])]
        /\ \A k \in Lanes : k # l => claim'[k] = claim[k] /\ phase'[k] = phase[k]
    BY <1>4, <2>1 DEF Lookup, Typed, TypeOK
  <2>3. ledger' = ledger
    BY <1>4 DEF Lookup, db
  <2>4. ClaimTrue(l)'
    <3> SUFFICES ASSUME NEW id \in TxIds(l),
                        \/ claim'[l][id].status = "duplicate"
                        \/ phase'[l] = "answer" /\ claim'[l][id].status = "claimed"
                 PROVE  ledger[id] =
                          <<[body |-> claim'[l][id].body, outcome |-> claim'[l][id].outcome]>>
      BY <2>2, <2>3 DEF ClaimTrue
    <3>1. claim'[l][id] = Claimed(l, id, first[id])
      BY <2>2
    <3>2. claim'[l][id].status = "duplicate"
      BY <1>4 DEF Lookup, Typed, TypeOK
    <3>3. id \in Ids
      BY TxIdsAreIds
    <3>4. id \in DOMAIN receipts
      <4>1. timing[l][id] # "duplicate"
        BY <3>3 DEF Typed, TypeOK
      <4> QED
        BY <3>1, <3>2, <4>1 DEF Claimed
    <3>5. /\ claim'[l][id].body = receipts[id].body
          /\ claim'[l][id].outcome = receipts[id].outcome
      BY <3>1, <3>2, <3>4 DEF Claimed
    <3>6. ledger[id] = <<receipts[id]>> /\ receipts[id] \in Decision
      BY <3>3, <3>4 DEF Covered, ReceiptsCoverLedger, Typed, TypeOK
    <3>7. receipts[id] = [body |-> receipts[id].body, outcome |-> receipts[id].outcome]
      BY <3>6 DEF Decision
    <3> QED
      BY <3>5, <3>6, <3>7
  <2> QED
    BY <2>2, <2>4, ClaimKept DEF ClaimsTrue
<1>5. ASSUME NEW l \in Lanes, Execute(l) PROVE ClaimsTrue'
  <2>1. \A k \in Lanes : k # l => claim'[k] = claim[k] /\ phase'[k] = phase[k]
    BY <1>5 DEF Execute, Typed, TypeOK
  <2>2. /\ phase'[l] = "finish" /\ DOMAIN claim'[l] = DOMAIN claim[l]
        /\ \A id \in DOMAIN claim[l] : id \notin Undecided(l) => claim'[l][id] = claim[l][id]
    BY <1>5 DEF Execute, Typed, TypeOK
  <2>3. \A id \in Undecided(l) : claim'[l][id].status # "duplicate"
    <3> SUFFICES ASSUME NEW id \in Undecided(l) PROVE claim'[l][id].status # "duplicate"
      OBVIOUS
    <3>1. PICK out \in [Undecided(l) -> Outcomes] :
            claim' = [claim EXCEPT ![l] = [i \in DOMAIN claim[l] |->
                 IF i \in Undecided(l)
                   THEN [claim[l][i] EXCEPT !.outcome = out[i]] ELSE claim[l][i]]]
      BY <1>5 DEF Execute
    <3>2. claim[l][id] \in Claim /\ claim[l][id].status = "claimed"
      BY DEF Undecided, Typed, TypeOK
    <3>3. DOMAIN claim = Lanes /\ id \in DOMAIN claim[l]
      BY DEF Undecided, Typed, TypeOK
    <3>4. claim'[l][id] = [claim[l][id] EXCEPT !.outcome = out[id]]
      BY <3>1, <3>3
    <3> QED
      BY <3>2, <3>4 DEF Claim
  <2>4. ledger' = ledger
    BY <1>5, ExecuteTyped
  <2>5. ClaimTrue(l)'
    BY <2>2, <2>3, <2>4 DEF ClaimTrue, ClaimsTrue
  <2> QED
    BY <2>1, <2>5, ClaimKept DEF ClaimsTrue
<1>6. ASSUME NEW l \in Lanes, DeferredRefused(l) PROVE ClaimsTrue'
  <2>1. PICK id \in Undecided(l) : claim' = [claim EXCEPT ![l][id].outcome = "rejected"]
    BY <1>6 DEF DeferredRefused
  <2>2. id \in DOMAIN claim[l] /\ claim[l][id] \in Claim /\ claim[l][id].status = "claimed"
    BY DEF Undecided, Typed, TypeOK
  <2>3. /\ \A k \in Lanes : k # l => claim'[k] = claim[k]
        /\ DOMAIN claim'[l] = DOMAIN claim[l]
        /\ \A i \in DOMAIN claim[l] : i # id => claim'[l][i] = claim[l][i]
        /\ claim'[l][id] = [claim[l][id] EXCEPT !.outcome = "rejected"]
    BY <2>1, <2>2 DEF Typed, TypeOK
  <2>4. claim'[l][id].status # "duplicate"
    BY <2>2, <2>3 DEF Claim
  <2>5. phase[l] = "finish" /\ phase' = phase /\ ledger' = ledger
    BY <1>6 DEF DeferredRefused, db
  <2>6. ClaimTrue(l)'
    <3> SUFFICES ASSUME NEW i \in DOMAIN claim[l], claim'[l][i].status = "duplicate"
                 PROVE  ledger[i] =
                          <<[body |-> claim'[l][i].body, outcome |-> claim'[l][i].outcome]>>
      BY <2>3, <2>5 DEF ClaimTrue
    <3>1. claim'[l][i] = claim[l][i]
      BY <2>3, <2>4
    <3> QED
      BY <3>1 DEF ClaimTrue, ClaimsTrue
  <2> QED
    BY <2>3, <2>5, <2>6, ClaimKept DEF ClaimsTrue
<1>7. ASSUME NEW l \in Lanes, Commit(l) PROVE ClaimsTrue'
  <2>1. /\ phase[l] = "finish" /\ Recordable(Writes(l))
        /\ receipts' = Recorded(Writes(l)) /\ ledger' = Decided(Writes(l))
        /\ claim' = claim /\ UNCHANGED <<partitions, floor, told>>
    BY <1>7 DEF Commit, RequireTransaction
  <2>2. \A id \in DOMAIN Writes(l) : ledger'[id] = <<Writes(l)[id]>>
    BY <2>1, WritesTyped, DecidesOnce
  <2>3. \A id \in DOMAIN claim[l] : claim[l][id].status = "claimed" =>
            ledger'[id] = <<[body |-> claim[l][id].body, outcome |-> claim[l][id].outcome]>>
    BY <2>2 DEF Writes, Undecided
  <2>4. \A id \in DOMAIN claim[l] : claim[l][id].status = "duplicate" =>
            ledger'[id] = <<[body |-> claim[l][id].body, outcome |-> claim[l][id].outcome]>>
    <3>1. \A x : <<x>> # <<>>
      OBVIOUS
    <3>2. \A id \in Ids : ledger[id] # <<>> => ledger'[id] = ledger[id]
      BY DEF Decides
    <3>3. ClaimTrue(l) /\ DOMAIN claim[l] \subseteq Ids
      BY DEF ClaimsTrue, Typed, TypeOK
    <3>4. \A id \in DOMAIN claim[l] : claim[l][id].status = "duplicate" =>
            ledger[id] = <<[body |-> claim[l][id].body, outcome |-> claim[l][id].outcome]>>
      BY <3>3 DEF ClaimTrue
    <3> QED
      BY <3>1, <3>2, <3>3, <3>4
  <2>5. ClaimTrue(l)'
    BY <2>1, <2>3, <2>4 DEF ClaimTrue
  <2>6. \A k \in Lanes : k # l => phase'[k] = phase[k]
    BY <1>7 DEF Commit, Typed, TypeOK
  <2> QED
    BY <2>1, <2>5, <2>6, ClaimKept DEF ClaimsTrue
<1>8. ASSUME NEW l \in Lanes, Answer(l) PROVE ClaimsTrue'
  <2>1. CASE UNCHANGED <<phase, claim>>
    BY <1>1, <2>1
  <2>2. CASE phase' = [phase EXCEPT ![l] = "idle"] /\ claim' = [claim EXCEPT ![l] = <<>>]
    <3>1. claim'[l] = <<>> /\ \A k \in Lanes : k # l => claim'[k] = claim[k] /\ phase'[k] = phase[k]
      BY <2>2 DEF Typed, TypeOK
    <3>2. ClaimTrue(l)'
      BY <3>1 DEF ClaimTrue
    <3> QED
      BY <3>1, <3>2, ClaimKept DEF ClaimsTrue
  <2> QED
    BY <1>8, <2>1, <2>2 DEF Answer
<1>9. ASSUME Crash PROVE ClaimsTrue'
  BY <1>9 DEF Crash, ClaimsTrue, ClaimTrue
<1>10. ASSUME NEW m \in Messages, Publish(m) \/ AckWait(m) \/ AckLost(m) PROVE ClaimsTrue'
  BY <1>1, <1>10 DEF Publish, AckWait, AckLost, lane
<1>11. ASSUME NEW l \in Lanes,
             \/ LaneStep(l) \/ DeferredRefused(l)
             \/ CommitLost(l) \/ RoundFails(l) \/ ConnectionReset(l)
      PROVE  ClaimsTrue'
  <2>1. CASE Fetch(l) \/ Lock(l) \/ ConnectionReset(l)
    BY <1>1, <2>1 DEF Fetch, Lock, ConnectionReset
  <2>2. CASE CommitLost(l) \/ RoundFails(l) \/ RoundRefused(l)
    BY <1>2, <2>2 DEF CommitLost, RoundFails, RoundRefused
  <2> QED
    BY <1>3, <1>4, <1>5, <1>6, <1>7, <1>8, <1>11, <2>1, <2>2 DEF LaneStep
<1>12. ASSUME NEW o \in orphans, OrphanEnds(o) PROVE ClaimsTrue'
  BY <1>1, <1>12 DEF OrphanEnds, lane
<1>13. CASE Maintain \/ Prune \/ Tick \/ UNCHANGED vars
  BY <1>1, <1>13 DEF Maintain, Prune, Tick, vars, lane
<1> QED
  BY <1>9, <1>10, <1>11, <1>12, <1>13 DEF Next

-----------------------------------------------------------------------------
(* What clients were told stays true whatever is decided later.            *)
LEMMA ToldKept ==
    ASSUME IInv, ledger' = ledger \/ Decides,
           \A m \in Messages : told'[m] # told[m] =>
               IF m \in Unwritable THEN told'[m] = "rejected"
               ELSE told'[m] \notin Outcomes \cup {"none"},
           \A m \in Messages : queue'[m] = "acked" /\ Kind[m] = "write" =>
                                   queue[m] = "acked" \/ told'[m] # "none"
    PROVE  ToldTrue' /\ AckedTold' /\ NothingTakenBack
<1>1. \A id \in Ids : ledger[id] # <<>> => ledger'[id] = ledger[id]
  BY DEF Decides
<1>2. \A x : <<x>> # <<>>
  OBVIOUS
<1>3. \A m \in Messages : IdOf[m] \in Ids
  BY ReceiptsAssumption
<1> QED
  BY <1>1, <1>2, <1>3 DEF IInv, ToldTrue, AckedTold, NothingTakenBack

(* A verdict is an answer, and a definitive one is the decision.           *)
LEMMA VerdictTrue ==
    ASSUME IInv, NEW l \in Lanes, phase[l] = "answer", NEW m \in Messages,
           IdOf[m] \in TxIds(l)
    PROVE  /\ Verdict(l, m) # "none"
           /\ Verdict(l, m) \in Outcomes =>
                 ledger[IdOf[m]] = <<[body |-> BodyOf[m], outcome |-> Verdict(l, m)]>>
<1> DEFINE c == claim[l][IdOf[m]]
<1>1. IdOf[m] \in DOMAIN claim[l]
  BY DEF IInv, Typed, ClaimsThere
<1>2. c \in Claim
  BY <1>1 DEF IInv, Typed, TypeOK
<1>3. c.status \in {"claimed", "duplicate"} =>
          ledger[IdOf[m]] = <<[body |-> c.body, outcome |-> c.outcome]>>
  BY <1>1 DEF IInv, ClaimsTrue, ClaimTrue
<1>4. c.status \in {"claimed", "duplicate"} => c.outcome # "none"
  <2>1. CASE c.status = "claimed"
    BY <1>1, <2>1 DEF IInv, Typed, ClaimsThere, Undecided, Outcomes
  <2>2. CASE c.status = "duplicate"
    <3> DEFINE e == [body |-> c.body, outcome |-> c.outcome]
    <3>1. ledger[IdOf[m]] = <<e>>
      BY <1>3, <2>2
    <3>2. <<e>> \in Seq(Decision)
      <4>1. ledger[IdOf[m]] \in Seq(Decision)
        BY ReceiptsAssumption DEF IInv, Typed, TypeOK
      <4> HIDE DEF e
      <4> QED
        BY <3>1, <4>1
    <3>3. e \in Decision
      <4>1. <<e>>[1] = e /\ Len(<<e>>) = 1
        OBVIOUS
      <4> HIDE DEF e
      <4> QED
        BY <3>2, <4>1
    <3> QED
      BY <3>3 DEF Decision, Outcomes
  <2> QED
    BY <2>1, <2>2
<1>5. c.status \in {"claimed", "duplicate", "conflict", "expired", "future"}
  BY <1>2 DEF Claim
<1> QED
  BY <1>3, <1>4, <1>5 DEF Verdict, Outcomes

(* Every step keeps the answers true, and acked writes answered.            *)
LEMMA ToldStep ==
    ASSUME IInv, [Next]_vars, ledger' = ledger \/ Decides PROVE ToldTrue' /\ AckedTold' /\ NothingTakenBack
<1> USE DEF IInv
<1>1. ASSUME told' = told,
             \A m \in Messages : queue'[m] = "acked" => queue[m] = "acked"
      PROVE  ToldTrue' /\ AckedTold' /\ NothingTakenBack
  BY <1>1, ToldKept
<1>2. ASSUME NEW l \in Lanes, GiveUp(l) PROVE ToldTrue' /\ AckedTold' /\ NothingTakenBack
  <2>1. CASE UNCHANGED <<queue, told>>
    BY <1>1, <2>1
  <2>2. CASE \E d \in cur[l] : RetryOrFail(d)
    <3>1. PICK d \in cur[l] : RetryOrFail(d)
      BY <2>2
    <3>2. d.msg \in Messages /\ d.msg \notin Unwritable
      BY DEF Typed, TypeOK, Delivery, AdmittedWritable
    <3>3. CASE Tell(d.msg, "failed") /\ Ack(d.msg)
      <4>1. \A m \in Messages : told'[m] = IF m = d.msg THEN "failed" ELSE told[m]
        BY <3>2, <3>3 DEF Tell, Typed, TypeOK
      <4>2. \A m \in Messages : m # d.msg => queue'[m] = queue[m]
        BY <3>2, <3>3 DEF Ack, Typed, TypeOK
      <4> QED
        BY <3>2, <4>1, <4>2, ToldKept DEF Outcomes
    <3>4. CASE Nak(d.msg) /\ UNCHANGED told
      BY <1>1, <3>2, <3>4 DEF Nak, Returned, Typed, TypeOK
    <3> QED
      BY <3>1, <3>3, <3>4 DEF RetryOrFail
  <2> QED
    BY <1>2, <2>1, <2>2 DEF GiveUp
<1>3. ASSUME NEW l \in Lanes, Admit(l) PROVE ToldTrue' /\ AckedTold' /\ NothingTakenBack
  <2>1. PICK seen, limited : AdmitFrom(l, seen, limited)
    BY <1>3 DEF Admit
  <2>2. \A m \in Messages :
            told'[m] = told[m] \/ (m \in Unwritable /\ told'[m] = "rejected")
    BY <2>1 DEF AdmitFrom
  <2>3. \A m \in Messages : queue'[m] = "acked" => queue[m] = "acked" \/ Kind[m] # "write"
    BY <2>1 DEF AdmitFrom, Returned
  <2> QED
    BY <2>2, <2>3, ToldKept DEF Outcomes
<1>4. ASSUME NEW l \in Lanes, Answer(l) PROVE ToldTrue' /\ AckedTold' /\ NothingTakenBack
  <2>1. PICK d \in cur[l] : Tell(d.msg, Verdict(l, d.msg)) /\ Ack(d.msg)
    BY <1>4 DEF Answer
  <2>2. /\ d.msg \in Messages /\ d.msg \notin Unwritable
        /\ IdOf[d.msg] \in TxIds(l) /\ phase[l] = "answer"
    BY <1>4 DEF Answer, Typed, TypeOK, Delivery, TxIds, AdmittedWritable
  <2>3. \A m \in Messages : told'[m] = IF m = d.msg THEN Verdict(l, d.msg) ELSE told[m]
    BY <2>1, <2>2 DEF Tell, Typed, TypeOK
  <2>4. \A m \in Messages : m # d.msg => queue'[m] = queue[m]
    BY <2>1, <2>2 DEF Ack, Typed, TypeOK
  <2>5. ledger' = ledger
    BY <1>4 DEF Answer, db
  <2>6. /\ Verdict(l, d.msg) # "none"
        /\ Verdict(l, d.msg) \in Outcomes =>
             ledger[IdOf[d.msg]] = <<[body |-> BodyOf[d.msg], outcome |-> Verdict(l, d.msg)]>>
    BY <2>2, VerdictTrue
  <2>7. ToldTrue'
    BY <2>2, <2>3, <2>5, <2>6 DEF ToldTrue
  <2>8. AckedTold'
    BY <2>3, <2>4, <2>6 DEF AckedTold
  <2>9. NothingTakenBack
    BY <2>3, <2>6 DEF NothingTakenBack
  <2> QED
    BY <2>7, <2>8, <2>9
<1>5. ASSUME NEW m \in Messages, Publish(m) \/ AckWait(m) \/ AckLost(m)
      PROVE  ToldTrue' /\ AckedTold' /\ NothingTakenBack
  BY <1>1, <1>5 DEF Publish, AckWait, AckLost, Returned, Typed, TypeOK
<1>6. ASSUME NEW l \in Lanes,
             \/ LaneStep(l) \/ DeferredRefused(l)
             \/ CommitLost(l) \/ RoundFails(l) \/ ConnectionReset(l)
      PROVE  ToldTrue' /\ AckedTold' /\ NothingTakenBack
  <2>1. CASE CommitLost(l) \/ RoundFails(l) \/ RoundRefused(l)
    BY <1>2, <2>1 DEF CommitLost, RoundFails, RoundRefused
  <2>2. CASE Fetch(l)
    BY <1>1, <2>2 DEF Fetch
  <2>3. CASE \/ Lock(l) \/ ReadPolicy(l) \/ Lookup(l) \/ Execute(l)
             \/ Commit(l) \/ DeferredRefused(l) \/ ConnectionReset(l)
    BY <1>1, <2>3
       DEF Lock, ReadPolicy, Lookup, Execute, Commit, DeferredRefused, ConnectionReset, stream
  <2> QED
    BY <1>3, <1>4, <1>6, <2>1, <2>2, <2>3 DEF LaneStep
<1>7. ASSUME NEW o \in orphans, OrphanEnds(o) PROVE ToldTrue' /\ AckedTold' /\ NothingTakenBack
  BY <1>1, <1>7 DEF OrphanEnds, stream
<1>8. CASE Crash \/ Maintain \/ Prune \/ Tick \/ UNCHANGED vars
  BY <1>1, <1>8 DEF Crash, Maintain, Prune, Tick, vars, stream
<1> QED
  BY <1>5, <1>6, <1>7, <1>8 DEF Next

-----------------------------------------------------------------------------
(* No message to a table that takes no writes is let into a transaction.    *)
LEMMA AdmittedStep ==
    ASSUME Typed, AdmittedWritable, [Next]_vars PROVE AdmittedWritable'
<1>1. ASSUME \A l \in Lanes : cur'[l] \subseteq cur[l] PROVE AdmittedWritable'
  BY <1>1 DEF AdmittedWritable
<1>2. ASSUME NEW l \in Lanes, GiveUp(l) PROVE AdmittedWritable'
  BY <1>1, <1>2 DEF GiveUp, Typed, TypeOK
<1>3. ASSUME NEW l \in Lanes, Admit(l) PROVE AdmittedWritable'
  <2>1. PICK seen, limited : AdmitFrom(l, seen, limited)
    BY <1>3 DEF Admit
  <2>2. \A k \in Lanes : k # l => cur'[k] = cur[k]
    BY <2>1 DEF AdmitFrom, Typed, TypeOK
  <2>3. \A d \in cur'[l] : Kind[d.msg] = "write"
    BY <2>1 DEF AdmitFrom, Typed, TypeOK
  <2> QED
    BY <2>2, <2>3 DEF AdmittedWritable, Unwritable
<1>4. ASSUME NEW l \in Lanes, Answer(l) PROVE AdmittedWritable'
  BY <1>1, <1>4 DEF Answer, Typed, TypeOK
<1>5. ASSUME NEW l \in Lanes,
             \/ LaneStep(l) \/ DeferredRefused(l)
             \/ CommitLost(l) \/ RoundFails(l) \/ ConnectionReset(l)
      PROVE  AdmittedWritable'
  <2>1. CASE CommitLost(l) \/ RoundFails(l) \/ RoundRefused(l)
    BY <1>2, <2>1 DEF CommitLost, RoundFails, RoundRefused
  <2>2. CASE \/ Fetch(l) \/ Lock(l) \/ ReadPolicy(l) \/ Lookup(l) \/ Execute(l)
             \/ Commit(l) \/ DeferredRefused(l) \/ ConnectionReset(l)
    BY <1>1, <2>2
       DEF Fetch, Lock, ReadPolicy, Lookup, Execute, Commit, DeferredRefused, ConnectionReset
  <2> QED
    BY <1>3, <1>4, <1>5, <2>1, <2>2 DEF LaneStep
<1>6. ASSUME NEW m \in Messages, Publish(m) \/ AckWait(m) \/ AckLost(m)
      PROVE  AdmittedWritable'
  BY <1>1, <1>6 DEF Publish, AckWait, AckLost, lane
<1>7. ASSUME NEW o \in orphans, OrphanEnds(o) PROVE AdmittedWritable'
  BY <1>1, <1>7 DEF OrphanEnds, lane
<1>8. CASE Crash
  BY <1>1, <1>8 DEF Crash
<1>9. CASE Maintain \/ Prune \/ Tick \/ UNCHANGED vars
  BY <1>1, <1>9 DEF Maintain, Prune, Tick, vars, lane
<1> QED
  BY <1>5, <1>6, <1>7, <1>8, <1>9 DEF Next

-----------------------------------------------------------------------------
(* The invariant holds at the start.                                        *)
LEMMA InitIInv == Init => IInv
<1> SUFFICES ASSUME Init PROVE IInv
  OBVIOUS
<1>1. Covered
  BY DEF Init, Covered, ReceiptsCoverLedger, LegacyKept
<1>2. ClaimsTrue
  BY DEF Init, ClaimsTrue, ClaimTrue
<1>3. ToldTrue /\ AckedTold
  BY DEF Init, ToldTrue, AckedTold, Outcomes
<1>4. AdmittedWritable
  BY DEF Init, AdmittedWritable
<1> QED
  BY <1>1, <1>2, <1>3, <1>4, InitTyped DEF IInv

(* Every step keeps the invariant and decides at most once.                 *)
LEMMA IInvStep ==
    IInv /\ [Next]_vars => IInv' /\ (ledger' = ledger \/ Decides) /\ NothingTakenBack
BY TypedStep, LedgerStep, ClaimsStep, ToldStep, AdmittedStep DEF IInv

(* The invariant: types, receipts that cover the ledger, and answers that  *)
(* the ledger bears out.                                                   *)
THEOREM IInvHolds == Spec => []IInv
BY InitIInv, IInvStep, PTL DEF Spec

(* No operation of a lane, of JetStream or of PostgreSQL leaves the types: *)
(* in particular no message is delivered more than MaxDeliver times.       *)
THEOREM ReceiptsTypeCorrect == Spec => []TypeOK
<1>1. IInv => TypeOK
  BY DEF IInv, Typed
<1> QED
  BY <1>1, IInvHolds, PTL

(* A decided write has its receipt until its month is below the minimum    *)
(* and its partition dropped, and only a decided write has one: whatever   *)
(* lanes, retries, crashes and lost COMMITs do.                            *)
THEOREM DecidedOnce == Spec => []ReceiptsCoverLedger
<1>1. IInv => ReceiptsCoverLedger
  BY DEF IInv, Covered
<1> QED
  BY <1>1, IInvHolds, PTL

(* An acked write was answered, and a definitive answer is what the        *)
(* database holds.                                                         *)
THEOREM AnsweredTruly == Spec => []AckedIsAnswered
<1>1. IInv => AckedIsAnswered
  BY DEF IInv, AckedIsAnswered, ToldTrue, AckedTold, Unwritable
<1> QED
  BY <1>1, IInvHolds, PTL

(* The bridge keeps the promise WriteLedger states: a write is decided at  *)
(* most once, for good, and verdicts are truthful.                         *)
THEOREM ReceiptsKeepPromise == Spec => KeepsPromise
<1>1. Init => Promise!Init
  BY DEF Init, Promise!Init
<1>2. IInv /\ IInv' /\ [Next]_vars => [Promise!Next]_<<ledger, told>>
  <2> SUFFICES ASSUME IInv, IInv', [Next]_vars PROVE Promise!Next
    OBVIOUS
  <2>1. (ledger' = ledger \/ Decides) /\ NothingTakenBack
    BY IInvStep
  <2>2. CASE Decides
    BY <2>2 DEF Decides, Promise!Next, Promise!Decide, Promise!Decision, Decision
  <2>3. CASE ledger' = ledger
    <3>1. told' \in [Messages -> Statuses]
      BY DEF IInv, Typed, TypeOK
    <3>2. \A m \in Messages : told'[m] # told[m] => Promise!Truthful(m, told'[m])
      BY <2>1, <2>3 DEF IInv, ToldTrue, NothingTakenBack, Promise!Truthful
    <3> QED
      BY <2>3, <3>1, <3>2 DEF Promise!Next, Promise!Tell
  <2> QED
    BY <2>1, <2>2, <2>3
<1> QED
  BY <1>1, <1>2, IInvHolds, PTL DEF Spec, KeepsPromise, Promise!Spec
=============================================================================
