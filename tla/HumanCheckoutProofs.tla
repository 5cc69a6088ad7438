------------------------- MODULE HumanCheckoutProofs -------------------------
(***************************************************************************)
(* Proofs about HumanCheckout, for any number of containers, claims and    *)
(* takeovers, with crashes, cuts and lost replies.                         *)
(*                                                                         *)
(* The argument: a delivered report and an error are never replaced by     *)
(* anything of the other kind (PutFinalKeeps), so what follows from having *)
(* seen one on the row stays true: a container that is about to refund has *)
(* seen the error (Recorded), and with the journal on the containers' own  *)
(* disks a report is delivered only by the statement that books it.        *)
(***************************************************************************)
EXTENDS HumanCheckout, TLAPS

USE CheckoutAssumption

Error == row.status \in {"owed", "refunded"}

\* A container about to refund, or to record a refund, has seen the error.
Recorded == \A p \in Boxes : pc[p] \in {"refund", "record"} => Error

\* Without the shared journal nothing is in it.
NoRedis == journal = "disk" => redis = {}

\* A container that keeps a record has one.
Keeping == \A p \in Boxes : pc[p] = "keep" => pending[p] \in Finals

IInv == TypeOK /\ Keeping /\ Recorded /\ RefundIsRecorded /\ NoRedis /\ DeliveredIsKept

\* The records a container writes have their type.
LEMMA RecordTypes ==
  ASSUME TypeOK, NEW p \in Boxes
  PROVE  /\ Report(p) \in Finals /\ Owed(p) \in Finals /\ Outcome(p) \in Finals
         /\ pending[p] \in Finals => Entry(p) \in Finals
  BY DEF TypeOK, Report, Owed, Outcome, Entry, Finals, NoRec

\* pgPutFinal writes the record or nothing, never a report over an error nor
\* anything over a report or a recorded refund.
LEMMA PutFinalKeeps ==
  ASSUME TypeOK, NEW rec \in Finals, NEW claim \in Nat, PutFinal(rec, claim)
  PROVE  /\ row' \in [status : {"none", "generating", "done", "owed", "refunded"}, n : Nat,
                      fresh : BOOLEAN, made : BOOLEAN]
         /\ Replaces(rec, claim) => row'.status = rec.status /\ row'.n = rec.n
         /\ ~Replaces(rec, claim) => row' = row
         /\ Error => Error'
         /\ row.status = "done" => row' = row
  BY DEF TypeOK, Finals, PutFinal, Replaces, Error

THEOREM Initially == Init => IInv
<1> SUFFICES ASSUME Init PROVE IInv
  OBVIOUS
<1>1. TypeOK
  BY DEF Init, TypeOK, Places
<1>2. Keeping /\ Recorded /\ RefundIsRecorded /\ NoRedis /\ DeliveredIsKept
  BY DEF Init, Keeping, Recorded, RefundIsRecorded, NoRedis, DeliveredIsKept
<1>3. QED
  BY <1>1, <1>2 DEF IInv

------------------------------------------------------------------------------
(* The steps                                                                *)

\* A step that leaves the row as it is, or writes a record, keeps what was said
\* of an error and a delivered report.
Kept == /\ Error => Error'
        /\ row.status = "done" => row'.status = "done" /\ row'.n = row.n

\* A record that landed, or was refused, under the writer's claim.
LEMMA LandsKeeps ==
  ASSUME IInv, NEW p \in Boxes, NEW rec \in Finals, NEW next \in {"idle", "refund"},
         Lands(p, rec, next), next = "refund" => rec.status = "owed",
         \/ UNCHANGED delivered
         \/ delivered' = delivered \cup (IF Replaces(rec, owned[p]) THEN {owned[p]} ELSE {})
            /\ rec.status = "done" /\ rec.n = owned[p]
  PROVE  IInv'
<1>1. owned[p] \in Nat
  BY DEF IInv, TypeOK
<1>2. PutFinal(rec, owned[p])
  BY DEF Lands
<1> DEFINE Put == /\ Replaces(rec, owned[p]) => row'.status = rec.status /\ row'.n = rec.n
                  /\ ~Replaces(rec, owned[p]) => row' = row
                  /\ Error => Error'
                  /\ row.status = "done" => row' = row
<1>3. Put
  BY <1>1, <1>2, PutFinalKeeps DEF IInv
<1>4. TypeOK'
  <2>1. row' \in [status : {"none", "generating", "done", "owed", "refunded"}, n : Nat,
                  fresh : BOOLEAN, made : BOOLEAN]
    BY <1>1, <1>2, PutFinalKeeps DEF IInv
  <2>2. QED
    BY <1>1, <2>1 DEF IInv, TypeOK, Lands, Goto, Forget, Places, kept
<1>5. Recorded'
  <2>1. pc' = [pc EXCEPT ![p] = IF Replaces(rec, owned[p]) THEN next ELSE "idle"]
    BY DEF Lands, Goto
  <2>2. CASE Replaces(rec, owned[p]) /\ next = "refund"
    BY <1>3, <2>2 DEF Recorded, Error
  <2>3. CASE ~(Replaces(rec, owned[p]) /\ next = "refund")
    BY <1>3, <2>1, <2>3 DEF IInv, TypeOK, Recorded
  <2>4. QED
    BY <2>2, <2>3
<1>6. RefundIsRecorded'
  BY <1>3 DEF IInv, RefundIsRecorded, Lands, Error
<1>7. NoRedis' /\ Keeping'
  BY DEF IInv, TypeOK, NoRedis, Keeping, Lands, Goto, kept
<1>8. DeliveredIsKept'
  <2> SUFFICES ASSUME journal' = "disk", NEW n \in delivered' PROVE row'.status = "done" /\ row'.n = n
    BY DEF DeliveredIsKept
  <2>1. journal = "disk"
    BY DEF Lands
  <2>2. CASE n \in delivered
    BY <1>3, <2>1, <2>2 DEF IInv, DeliveredIsKept
  <2>3. CASE n \notin delivered
    BY <1>3, <2>3
  <2>4. QED
    BY <2>2, <2>3
<1>9. QED
  BY <1>4, <1>5, <1>6, <1>7, <1>8 DEF IInv

\* A record that was not answered.
LEMMA LandFailsKeeps ==
  ASSUME IInv, NEW p \in Boxes, NEW rec \in Finals, LandFails(p, rec)
  PROVE  IInv'
<1>1. owned[p] \in Nat
  BY DEF IInv, TypeOK
<1>2. /\ Kept
      /\ row' \in [status : {"none", "generating", "done", "owed", "refunded"}, n : Nat,
                   fresh : BOOLEAN, made : BOOLEAN]
  <2>1. CASE UNCHANGED row
    BY <2>1 DEF IInv, TypeOK, Kept, Error
  <2>2. CASE PutFinal(rec, owned[p])
    BY <1>1, <2>2, PutFinalKeeps DEF IInv, Kept
  <2>3. QED
    BY <2>1, <2>2 DEF LandFails
<1>3. TypeOK'
  BY <1>2 DEF IInv, TypeOK, LandFails, Goto, Forget, Places, kept
<1>4. Recorded' /\ Keeping'
  BY <1>2 DEF IInv, TypeOK, Recorded, Keeping, LandFails, Goto, Kept
<1>5. RefundIsRecorded' /\ NoRedis' /\ DeliveredIsKept'
  BY <1>2 DEF IInv, RefundIsRecorded, NoRedis, DeliveredIsKept, LandFails, Kept, Error, kept
<1>6. QED
  BY <1>3, <1>4, <1>5 DEF IInv

\* A journaled record is booked under the claim it was made for.
LEMMA BookKeeps ==
  ASSUME IInv, NEW p \in Boxes, NEW e \in redis \cup disk[p], PutFinal(e, e.n)
  PROVE  /\ e \in Finals
         /\ row' \in [status : {"none", "generating", "done", "owed", "refunded"}, n : Nat,
                      fresh : BOOLEAN, made : BOOLEAN]
         /\ Kept
         /\ Replaces(e, e.n) \/ Holds(e) => row'.status = e.status /\ row'.n = e.n
<1>1. e \in Finals
  BY DEF IInv, TypeOK
<1>2. e.n \in Nat
  BY <1>1 DEF Finals
<1>3. QED
  BY <1>1, <1>2, PutFinalKeeps DEF IInv, Kept, Holds

\* Delivering, beside the row that keeps it, the report a disk held.
LEMMA DeliversBooked ==
  ASSUME IInv, NEW p \in Boxes, NEW e \in redis \cup disk[p], PutFinal(e, e.n),
         journal' = journal,
         \/ UNCHANGED delivered
         \/ delivered' = delivered \cup
              (IF e.status = "done" /\ e \notin redis /\ (Replaces(e, e.n) \/ Holds(e))
               THEN {e.n} ELSE {})
  PROVE  DeliveredIsKept' /\ (delivered' \subseteq Nat)
<1>1. /\ e \in Finals
      /\ Kept
      /\ Replaces(e, e.n) \/ Holds(e) => row'.status = e.status /\ row'.n = e.n
  BY BookKeeps
<1>2. DeliveredIsKept'
  <2> SUFFICES ASSUME journal' = "disk", NEW n \in delivered' PROVE row'.status = "done" /\ row'.n = n
    BY DEF DeliveredIsKept
  <2>1. CASE n \in delivered
    BY <1>1, <2>1 DEF IInv, DeliveredIsKept, Kept
  <2>2. CASE n \notin delivered
    BY <1>1, <2>2
  <2>3. QED
    BY <2>1, <2>2
<1>3. delivered' \subseteq Nat
  BY <1>1 DEF IInv, TypeOK, Finals
<1>4. QED
  BY <1>2, <1>3

LEMMA CheckJournalKeeps ==
  ASSUME IInv, NEW p \in Boxes, CheckJournal(p)
  PROVE  IInv'
<1>1. CASE Mine(p) = {} /\ Goto(p, "claim") /\ UNCHANGED <<row, seen, got, delivered>>
  BY <1>1 DEF IInv, TypeOK, Keeping, Recorded, RefundIsRecorded, NoRedis, DeliveredIsKept, Error,
       CheckJournal, Goto, Places, kept
<1>2. ASSUME NEW e \in Mine(p),
             PutFinal(e, e.n),
             delivered' = delivered \cup
               (IF e.status = "done" /\ e \notin redis /\ (Replaces(e, e.n) \/ Holds(e))
                THEN {e.n} ELSE {}),
             Goto(p, "idle"), Forget(p)
      PROVE IInv'
  <2>1. e \in redis \cup disk[p]
    BY DEF Mine
  <2>2. /\ row' \in [status : {"none", "generating", "done", "owed", "refunded"}, n : Nat,
                     fresh : BOOLEAN, made : BOOLEAN]
        /\ Kept
    BY <1>2, <2>1, BookKeeps
  <2>3. DeliveredIsKept' /\ delivered' \subseteq Nat
    BY <1>2, <2>1, DeliversBooked DEF CheckJournal
  <2>4. TypeOK'
    BY <1>2, <2>2, <2>3 DEF IInv, TypeOK, CheckJournal, Goto, Forget, Places, kept
  <2>5. Keeping' /\ Recorded' /\ RefundIsRecorded' /\ NoRedis'
    BY <1>2, <2>2 DEF IInv, TypeOK, Keeping, Recorded, RefundIsRecorded, NoRedis, Kept, Error, CheckJournal, Goto, kept
  <2>6. QED
    BY <2>3, <2>4, <2>5 DEF IInv
<1>3. QED
  BY <1>1, <1>2 DEF CheckJournal

LEMMA ReplayKeeps ==
  ASSUME IInv, NEW p \in Boxes, NEW e \in redis \cup disk[p], Replay(p, e)
  PROVE  IInv'
<1>1. PutFinal(e, e.n)
  BY DEF Replay
<1>2. /\ row' \in [status : {"none", "generating", "done", "owed", "refunded"}, n : Nat,
                   fresh : BOOLEAN, made : BOOLEAN]
      /\ Kept
  BY <1>1, BookKeeps
<1>3. DeliveredIsKept' /\ delivered' \subseteq Nat
  BY <1>1, DeliversBooked DEF Replay
<1>4. /\ owned' \in [Boxes -> Nat]
      /\ pending' \in [Boxes -> Finals \cup {NoRec}]
      /\ redis' \subseteq redis
      /\ disk' \in [Boxes -> SUBSET Finals]
  BY DEF IInv, TypeOK, Replay, kept
<1>5. TypeOK'
  BY <1>2, <1>3, <1>4 DEF IInv, TypeOK, Replay
<1>6. Recorded' /\ RefundIsRecorded' /\ NoRedis'
  BY <1>2, <1>4 DEF IInv, Recorded, RefundIsRecorded, NoRedis, Kept, Error, Replay
<1>7. Keeping'
  BY DEF IInv, TypeOK, Keeping, Replay
<1>8. QED
  BY <1>3, <1>5, <1>6, <1>7 DEF IInv

\* The steps that write no record and leave errors and reports alone.
LEMMA OthersKeep ==
  ASSUME IInv, NEW p \in Boxes,
         \/ Look(p) \/ PollEnds(p) \/ Claim(p) \/ ClaimLost(p) \/ JobStops(p) \/ Generate(p)
         \/ Beat(p) \/ Silence \/ Cut(p) \/ Mend(p) \/ Crash(p) \/ Keep(p)
  PROVE  IInv'
<1> USE DEF IInv, Recorded, RefundIsRecorded, NoRedis, DeliveredIsKept, Error, Keeping,
        Goto, Forget, kept, process
<1>1. TypeOK'
  <2> USE DEF TypeOK, Places
  <2>1. CASE Look(p)
    BY <2>1 DEF Look
  <2>2. CASE PollEnds(p)
    BY <2>2 DEF PollEnds
  <2>3. CASE Claim(p)
    <3>1. CASE Claimable(p)
      <4>1. row.n + 1 \in Nat
        OBVIOUS
      <4>2. /\ row' = [status |-> "generating", n |-> row.n + 1, fresh |-> TRUE, made |-> FALSE]
            /\ owned' = [owned EXCEPT ![p] = row.n + 1]
            /\ pc' \in [Boxes -> Places]
        BY <2>3, <3>1 DEF Claim, ClaimRow
      <4>3. seen' \in [Boxes -> Nat] /\ got' \in [Boxes -> BOOLEAN]
        BY <2>3 DEF Claim
      <4>4. UNCHANGED <<journal, cut, pending, redis, disk, refunded, delivered>>
        BY <2>3 DEF Claim
      <4>5. QED
        BY <4>1, <4>2, <4>3, <4>4
    <3>2. CASE ~Claimable(p)
      BY <2>3, <3>2 DEF Claim
    <3>3. QED
      BY <3>1, <3>2
  <2>4. CASE ClaimLost(p)
    BY <2>4 DEF ClaimLost, ClaimRow
  <2>5. CASE JobStops(p)
    BY <2>5 DEF JobStops
  <2>6. CASE Generate(p)
    BY <2>6 DEF Generate
  <2>7. CASE Beat(p)
    BY <2>7 DEF Beat
  <2>8. CASE Silence
    BY <2>8 DEF Silence
  <2>9. CASE Cut(p) \/ Mend(p)
    BY <2>9 DEF Cut, Mend
  <2>10. CASE Crash(p)
    BY <2>10 DEF Crash
  <2>11. CASE Keep(p)
    <3>1. Entry(p) \in Finals
      BY <2>11 DEF Keep, Entry, Finals
    <3>2. delivered' \subseteq Nat
      <4>1. pending[p] \in Finals
        BY <2>11 DEF Keep
      <4>2. pending[p].n \in Nat
        BY <4>1 DEF Finals
      <4>3. delivered' \subseteq delivered \cup {pending[p].n}
        BY <2>11 DEF Keep
      <4>4. QED
        BY <4>2, <4>3
    <3>3. QED
      BY <2>11, <3>1, <3>2 DEF Keep
  <2>12. QED
    BY <2>1, <2>2, <2>3, <2>4, <2>5, <2>6, <2>7, <2>8, <2>9, <2>10, <2>11
<1>2. (Keeping /\ Recorded /\ RefundIsRecorded /\ NoRedis /\ DeliveredIsKept)'
  <2> USE DEF TypeOK
  <2>1. CASE Look(p)
    BY <2>1 DEF Look
  <2>2. CASE PollEnds(p)
    BY <2>2 DEF PollEnds
  <2>3. CASE Claim(p)
    BY <2>3 DEF Claim, Claimable, ClaimRow
  <2>4. CASE ClaimLost(p)
    BY <2>4 DEF ClaimLost, Claimable, ClaimRow
  <2>5. CASE JobStops(p)
    BY <2>5 DEF JobStops
  <2>6. CASE Generate(p)
    BY <2>6 DEF Generate
  <2>7. CASE Beat(p)
    BY <2>7 DEF Beat
  <2>8. CASE Silence
    BY <2>8 DEF Silence
  <2>9. CASE Cut(p)
    BY <2>9 DEF Cut
  <2>10. CASE Mend(p)
    BY <2>10 DEF Mend
  <2>11. CASE Crash(p)
    BY <2>11 DEF Crash
  <2>12. CASE Keep(p)
    BY <2>12 DEF Keep
  <2>13. QED
    BY <2>1, <2>2, <2>3, <2>4, <2>5, <2>6, <2>7, <2>8, <2>9, <2>10, <2>11, <2>12
<1>3. QED
  BY <1>1, <1>2

LEMMA LandingKeeps ==
  ASSUME IInv, NEW p \in Boxes,
         \/ LandReport(p) \/ LandOwed(p) \/ LandOutcome(p)
         \/ ReportFails(p) \/ OwedFails(p) \/ OutcomeFails(p)
  PROVE  IInv'
<1>1. Report(p) \in Finals /\ Owed(p) \in Finals /\ Outcome(p) \in Finals
  BY RecordTypes DEF IInv
<1>2. CASE LandReport(p)
  <2>1. Report(p).status = "done" /\ Report(p).n = owned[p]
    BY DEF Report
  <2>2. QED
    BY <1>1, <1>2, <2>1, LandsKeeps DEF LandReport
<1>3. CASE LandOwed(p)
  <2>1. Owed(p).status = "owed"
    BY DEF Owed
  <2>2. QED
    BY <1>1, <1>3, <2>1, LandsKeeps DEF LandOwed
<1>4. CASE LandOutcome(p)
  BY <1>1, <1>4, LandsKeeps DEF LandOutcome
<1>5. CASE ReportFails(p) \/ OwedFails(p) \/ OutcomeFails(p)
  BY <1>1, <1>5, LandFailsKeeps DEF ReportFails, OwedFails, OutcomeFails
<1>6. QED
  BY <1>2, <1>3, <1>4, <1>5

\* A refund is issued by a container that has seen the error.
LEMMA RefundKeeps ==
  ASSUME IInv, NEW p \in Boxes, Refund(p)
  PROVE  IInv'
<1>1. Error
  BY DEF IInv, Recorded, Refund
<1>2. UNCHANGED <<journal, row, cut, seen, owned, pending, redis, disk, delivered>>
  BY DEF Refund, kept
<1>3. TypeOK'
  BY <1>2 DEF IInv, TypeOK, Refund, Goto, Places
<1>4. Keeping' /\ Recorded' /\ RefundIsRecorded' /\ NoRedis' /\ DeliveredIsKept'
  BY <1>1, <1>2 DEF IInv, TypeOK, Keeping, Recorded, RefundIsRecorded, NoRedis, DeliveredIsKept,
       Error, Refund, Goto
<1>5. QED
  BY <1>3, <1>4 DEF IInv

LEMMA StepKeeps == IInv /\ [Next]_vars => IInv'
<1> SUFFICES ASSUME IInv, [Next]_vars PROVE IInv'
  OBVIOUS
<1>1. CASE UNCHANGED vars
  BY <1>1 DEF vars, process, kept, IInv, TypeOK, Keeping, Recorded, RefundIsRecorded, NoRedis,
       DeliveredIsKept, Error
<1>2. ASSUME NEW p \in Boxes, Step(p) PROVE IInv'
  BY <1>2, OthersKeep, CheckJournalKeeps, LandingKeeps, RefundKeeps DEF Step
<1>3. ASSUME NEW p \in Boxes, NEW e \in redis \cup disk[p], Replay(p, e) PROVE IInv'
  BY <1>3, ReplayKeeps
<1>4. ASSUME NEW p \in Boxes,
             \/ PollEnds(p) \/ ClaimLost(p) \/ JobStops(p) \/ Beat(p)
             \/ Cut(p) \/ Mend(p) \/ Crash(p)
      PROVE IInv'
  BY <1>4, OthersKeep
<1>5. CASE Silence
  BY <1>5 DEF Silence, process, kept, IInv, TypeOK, Keeping, Recorded, RefundIsRecorded, NoRedis,
       DeliveredIsKept, Error
<1>6. QED
  BY <1>1, <1>2, <1>3, <1>4, <1>5 DEF Next

------------------------------------------------------------------------------
(* The theorems                                                             *)

\* The strengthening holds in every reachable state.
THEOREM Inductive == Spec => []IInv
<1>1. Init => IInv
  BY Initially
<1>2. IInv /\ [Next]_vars => IInv'
  BY StepKeeps
<1>3. QED
  BY <1>1, <1>2, PTL DEF Spec

\* Every variable of the checkout keeps its type.
THEOREM TypeCorrect == Spec => []TypeOK
<1>1. IInv => TypeOK
  BY DEF IInv
<1>2. QED
  BY <1>1, Inductive, PTL

\* No payment is refunded that no record on the row names (refundAndRecord),
\* whatever is cut off, crashes, is taken over or is replayed.
THEOREM NoRefundWithoutRecord == Spec => []RefundIsRecorded
<1>1. IInv => RefundIsRecorded
  BY DEF IInv
<1>2. QED
  BY <1>1, Inductive, PTL

\* With the journal on the containers' disks, the row keeps the one report that
\* was answered (landFinal, bookJournaled).
THEOREM DeliveredReportKept == Spec => []DeliveredIsKept
<1>1. IInv => DeliveredIsKept
  BY DEF IInv
<1>2. QED
  BY <1>1, Inductive, PTL

==============================================================================
