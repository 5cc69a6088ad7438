-------------------------- MODULE RefundLedgerProofs --------------------------
(***************************************************************************)
(* Proofs about RefundLedger, for any number of requests and containers,   *)
(* with failing and reordered writes, the refund run and crashes.          *)
(*                                                                         *)
(* The argument: no statement of the journal moves a row that is being     *)
(* sent or was paid (ChangeFacts), so the money goes out once (Sends).     *)
(* The replay key lets one request at a time decide, and one be claimed    *)
(* (Gate); what waits in the journal says how far that one came (Waits).   *)
(* A mark "void" therefore means a served run, and no entry that would     *)
(* open its debt again (Final); and a debt that was refused, or whose run  *)
(* failed, is on the row or still on its way there (Debt).                 *)
(***************************************************************************)
EXTENDS RefundLedger, TLAPS

USE LedgerAssumption

\* The changes that wait.
Waiting == { journal[i] : i \in 1 .. Len(journal) }

\* The places of the one request the relay claimed the transfer for.
Claimed == {"hold", "run", "unserved", "restate", "reopen", "served", "say"}

\* The money goes out once, from a row in sending that never leaves it unpaid.
Sends ==
  /\ sends \in {0, 1}
  /\ sends = 1 => db.status \in {"sending", "paid"}
  /\ run = "send" => sends = 0 /\ db.status = "sending"
  /\ run = "release" => sends = 0

\* The replay key lets one request decide, and one be claimed.
Gate ==
  /\ \A r \in Requests : pc[r] = "gate" => gate = "held"
  /\ \A r, q \in Requests : pc[r] = "gate" /\ pc[q] = "gate" => r = q
  /\ claimer # NoRequest => gate = "spent"
  /\ \A r \in Requests : pc[r] \in Claimed => r = claimer
  /\ \A r \in Requests : pc[r] \in {"unclaimed", "renote"} => claimer = NoRequest /\ gate = "spent"
  /\ \A r \in Requests : pc[r] \in {"served", "say"} => served # {}

\* An entry in the journal says how far the claimed request came.
Waits ==
  /\ "bookFinalize" \in Waiting => claimer = NoRequest /\ gate = "spent"
  /\ "hold" \in Waiting => claimer # NoRequest /\ pc[claimer] \in (Claimed \cup {"over"}) \ {"hold"}
  /\ {"bookUnserved", "reopen"} \cap Waiting # {} =>
       claimer # NoRequest /\ pc[claimer] \in {"restate", "reopen", "over"}
  /\ {"void", "renoteVoid"} \cap Waiting # {} => served # {}

\* A served run is never followed by a booking of its own.
Final ==
  /\ db.mark = "void" => served # {}
  /\ served # {} => /\ claimer # NoRequest /\ pc[claimer] \in {"served", "say", "over"}
                    /\ {"bookUnserved", "reopen"} \cap Waiting = {}

\* A claim that saw the row and no refusal on its way left no debt to refund.
Unexposed ==
  ~exposed /\ (served # {} \/ \E r \in Requests : pc[r] = "run")
    => \/ db.status = "void"
       \/ /\ db.status = "none" /\ "bookRefused" \notin Waiting
          /\ \A r \in Requests : pc[r] # "refused"

\* What the row or a mirror shows as refunded is not held, nor refused on input.
Seen ==
  (db.status \in {"sending", "paid"} \/ \E p \in Procs : Refunded(p))
    => db.status # "none" /\ db.note = "other"

\* A booking is on its way to the row.
Pending ==
  \/ \E r \in Requests : pc[r] \in {"refused", "unclaimed", "hold", "run", "unserved"}
  \/ {"bookRefused", "bookFinalize", "bookUnserved"} \cap Waiting # {}

\* A held debt is on its way to be opened again.
Reopening ==
  /\ db.note = "held"
  /\ \/ \E r \in Requests : pc[r] \in {"run", "unserved", "restate", "reopen"}
     \/ "reopen" \in Waiting

Debt ==
  served = {} /\ ~lost =>
    /\ db.status = "void" => Reopening
    /\ db.status = "none" /\ (booked \/ claimer # NoRequest) => Pending

IInv == TypeOK /\ Sends /\ Gate /\ Waits /\ Final /\ Unexposed /\ Seen /\ Debt

THEOREM Initially == Init => IInv
<1> SUFFICES ASSUME Init PROVE IInv
  OBVIOUS
<1>1. Waiting = {}
  BY DEF Init, Waiting
<1>2. TypeOK
  <2>1. journal \in Seq(Ops)
    BY DEF Init
  <2>2. db \in [status : Statuses, note : Notes, mark : {"none", "owed", "void"}]
    BY DEF Init, Statuses, Notes
  <2>3. mirror \in [Procs -> [status : Statuses, note : Notes]]
    BY DEF Init, Row, Statuses, Notes
  <2>4. QED
    BY <2>1, <2>2, <2>3 DEF Init, TypeOK, Places
<1>3. Sends /\ Gate /\ Waits /\ Final
  BY <1>1 DEF Init, Sends, Gate, Waits, Final, Claimed
<1>4. Unexposed /\ Seen /\ Debt
  BY <1>1 DEF Init, Unexposed, Seen, Refunded, Row, Debt
<1>5. QED
  BY <1>2, <1>3, <1>4 DEF IInv

------------------------------------------------------------------------------
(* The journal                                                              *)

LEMMA JournalAppends ==
  ASSUME journal \in Seq(Ops), NEW op \in Ops, journal' = Append(journal, op)
  PROVE  journal' \in Seq(Ops) /\ Waiting' = Waiting \cup {op}
<1>1. /\ journal' \in Seq(Ops) /\ Len(journal') = Len(journal) + 1
      /\ \A i \in 1 .. Len(journal) : journal'[i] = journal[i]
      /\ journal'[Len(journal) + 1] = op /\ Len(journal) \in Nat
  OBVIOUS
<1>2. 1 .. Len(journal') = (1 .. Len(journal)) \cup {Len(journal) + 1}
  BY <1>1
<1>3. QED
  BY <1>1, <1>2 DEF Waiting

LEMMA JournalReplays ==
  ASSUME journal \in Seq(Ops), journal # <<>>, journal' \in {Tail(journal), journal}
  PROVE  /\ journal' \in Seq(Ops) /\ Head(journal) \in Ops /\ Head(journal) \in Waiting
         /\ Waiting' \subseteq Waiting /\ Waiting \subseteq Waiting' \cup {Head(journal)}
<1>1. Len(journal) \in Nat \ {0} /\ Head(journal) = journal[1] /\ Head(journal) \in Ops
  OBVIOUS
<1>2. Head(journal) \in Waiting
  BY <1>1 DEF Waiting
<1>3. CASE journal' = Tail(journal)
  <2>1. /\ journal' \in Seq(Ops) /\ Len(journal') = Len(journal) - 1
        /\ \A i \in 1 .. Len(journal') : journal'[i] = journal[i + 1]
    BY <1>1, <1>3
  <2>2. Waiting' \subseteq Waiting
    BY <1>1, <2>1 DEF Waiting
  <2>3. ASSUME NEW x \in Waiting, x # Head(journal) PROVE x \in Waiting'
    <3>1. PICK i \in 1 .. Len(journal) : x = journal[i]
      BY DEF Waiting
    <3>2. i - 1 \in 1 .. Len(journal') /\ journal'[i - 1] = x
      BY <1>1, <2>1, <2>3, <3>1
    <3>3. QED
      BY <3>2 DEF Waiting
  <2>4. QED
    BY <1>1, <1>2, <2>1, <2>2, <2>3
<1>4. CASE journal' = journal
  BY <1>1, <1>2, <1>4 DEF Waiting
<1>5. QED
  BY <1>3, <1>4

------------------------------------------------------------------------------
(* The statements                                                           *)

Rows == [status : Statuses, note : Notes, mark : {"none", "owed", "void"}]

\* What a write of this change may do to the row and its mark.
Changes(op) ==
  db' \in {db, Apply(op, db)} \cup (IF op = "void" THEN {Marked(db)} ELSE {})

Bookings == {"bookRefused", "bookFinalize", "bookUnserved"}

\* Each statement, by its effect.
LEMMA ApplyIs ==
  ASSUME NEW d \in Rows, NEW op \in Ops
  PROVE  /\ op \in Bookings => Apply(op, d) \in { Booked(d, n) : n \in Notes }
         /\ op = "void" => Apply(op, d) = Voided(Marked(d))
         /\ op = "hold" => Apply(op, d) = Voided(d)
         /\ op = "reopen" => Apply(op, d) = Reopened(d)
         /\ op = "renoteVoid" => Apply(op, d) = Renoted(d, "void", "held", "served")
         /\ op = "restate" => Apply(op, d) = Renoted(d, "owed", "refused", "other")
         /\ op = "renote" => Apply(op, d) = Renoted(d, "owed", "refused", "finalize")
<1>1. op = "bookRefused" => Apply(op, d) = Booked(d, "refused")
  BY DEF Apply
<1>2. op = "bookFinalize" => Apply(op, d) = Booked(d, "finalize")
  BY DEF Apply
<1>3. op = "bookUnserved" => Apply(op, d) = Booked(d, "other")
  BY DEF Apply
<1>4. op \in Bookings => Apply(op, d) \in { Booked(d, n) : n \in Notes }
  BY <1>1, <1>2, <1>3 DEF Bookings, Notes
<1>5. QED
  BY <1>4 DEF Apply

LEMMA BookedIs ==
  ASSUME NEW d \in Rows, NEW n \in Notes
  PROVE  /\ Booked(d, n) \in Rows
         /\ d.status # "none" => Booked(d, n).status = d.status /\ Booked(d, n).note = d.note
         /\ d.status = "none" /\ d.mark # "void" => Booked(d, n).status = "owed"
         /\ Booked(d, n).status \in {d.status, "owed"}
         /\ Booked(d, n).mark = "void" <=> d.mark = "void"
  BY DEF Booked, Rows, Statuses

LEMMA VoidedIs ==
  ASSUME NEW d \in Rows
  PROVE  /\ Voided(d) \in Rows /\ Marked(d) \in Rows
         /\ Voided(d).mark = d.mark /\ Marked(d).mark = "void"
         /\ Marked(d).status = d.status /\ Marked(d).note = d.note
         /\ d.status # "owed" => Voided(d) = d
         /\ d.status = "owed" => Voided(d).status = "void"
         /\ d.status = "owed" /\ d.note # "refused" => Voided(d).note = "other"
         /\ d.status = "owed" /\ d.note = "refused" => Voided(d).note = "held"
  BY DEF Voided, Marked, Rows, Statuses, Notes

LEMMA ReopenedIs ==
  ASSUME NEW d \in Rows
  PROVE  /\ Reopened(d) \in Rows
         /\ d.status # "void" \/ d.note # "held" => Reopened(d) = d
         /\ d.status = "void" /\ d.note = "held" => Reopened(d).status = "owed"
         /\ Reopened(d).mark = "void" => d.mark = "void"
  BY DEF Reopened, Rows, Statuses, Notes

LEMMA RenotedIs ==
  ASSUME NEW d \in Rows, NEW st, NEW from \in {"held", "refused"}, NEW to \in Notes
  PROVE  /\ Renoted(d, st, from, to) \in Rows
         /\ Renoted(d, st, from, to).status = d.status
         /\ Renoted(d, st, from, to).mark = d.mark
         /\ d.status # st \/ d.note # from => Renoted(d, st, from, to) = d
  BY DEF Renoted, Rows, Statuses, Notes

\* What no write does to the row, or only some writes.
LEMMA ChangeFacts ==
  ASSUME db \in Rows, NEW op \in Ops, Changes(op)
  PROVE  /\ db' \in Rows
         /\ db.status \in {"sending", "paid"} => db'.status = db.status
         /\ db'.status \in {"sending", "paid"} => db.status = db'.status
         /\ db.status # "none" => db'.status # "none"
         /\ db.status = "none" /\ op \notin Bookings => db'.status = "none"
         /\ db.status # "none" /\ db.note = "other" => db'.note = "other"
         /\ db.status = "void" /\ op # "reopen" => db'.status = "void"
         /\ db.status = "void" /\ op # "renoteVoid" => db'.note = db.note \/ db'.status # "void"
         /\ db'.status = "void" => \/ db.status = "void"
                                   \/ db.status = "owed" /\ op \in {"void", "hold"}
         /\ op = "hold" /\ db' # db => db.status = "owed" /\ (db.note = "refused" => db'.note = "held")
         /\ db.mark = "void" /\ op # "reopen" => db'.mark = "void"
         /\ db'.mark = "void" => db.mark = "void" \/ op = "void"
<1> USE DEF Changes
<1>1. CASE op \in Bookings
  <2>1. db' = db \/ \E n \in Notes : db' = Booked(db, n)
    BY <1>1, ApplyIs DEF Bookings
  <2>2. QED
    BY <1>1, <2>1, BookedIs DEF Bookings, Rows
<1>2. CASE op = "void"
  <2>1. db' = db \/ db' = Marked(db) \/ db' = Voided(Marked(db))
    BY <1>2, ApplyIs
  <2>2. Marked(db) \in Rows
    BY VoidedIs
  <2>3. QED
    BY <1>2, <2>1, <2>2, VoidedIs DEF Bookings, Rows, Statuses
<1>3. CASE op = "hold"
  <2>1. db' = db \/ db' = Voided(db)
    BY <1>3, ApplyIs
  <2>2. QED
    BY <1>3, <2>1, VoidedIs DEF Bookings, Rows, Statuses
<1>4. CASE op = "reopen"
  <2>1. db' = db \/ db' = Reopened(db)
    BY <1>4, ApplyIs
  <2>2. QED
    BY <1>4, <2>1, ReopenedIs DEF Bookings, Rows, Statuses
<1>5. CASE op \in {"renoteVoid", "restate", "renote"}
  <2>1. db' = db \/ \E st \in Statuses, from \in {"held", "refused"}, to \in Notes :
                      /\ db' = Renoted(db, st, from, to)
                      /\ op # "renoteVoid" => st = "owed"
    BY <1>5, ApplyIs DEF Notes, Statuses
  <2>2. QED
    BY <1>5, <2>1, RenotedIs DEF Bookings, Rows, Statuses
<1>6. QED
  BY <1>1, <1>2, <1>3, <1>4, <1>5 DEF Ops, Bookings

------------------------------------------------------------------------------
(* A write                                                                  *)

\* What every write and every replay keeps of the mirror.
Sees == mirror' = mirror \/ \E p \in Procs : mirror' = [mirror EXCEPT ![p] = Row(db')]

\* A write lands and is answered, or its entry waits and its caller reads
\* that nothing changed.
Wrote(r, op, changed, unchanged) ==
  /\ Changes(op) /\ Sees
  /\ journal' \in Seq(Ops)
  /\ Waiting \subseteq Waiting' /\ Waiting' \subseteq Waiting \cup {op}
  /\ \/ db' = Apply(op, db) /\ Goto(r, IF Row(db') # Row(db) THEN changed ELSE unchanged)
     \/ op \in Waiting' /\ Goto(r, unchanged)
  /\ ~lost' => ~lost /\ (db' # db => ~LateHold(op))
  /\ lost' \in BOOLEAN

LEMMA LandsIs ==
  ASSUME TypeOK, NEW r \in Requests, NEW op \in Ops, NEW changed, NEW unchanged,
         Lands(r, op, changed, unchanged)
  PROVE  Wrote(r, op, changed, unchanged)
<1>1. db' = Apply(op, db)
  BY DEF Lands
<1>2. Changes(op) /\ Sees
  BY <1>1 DEF Lands, Changes, Sees, See, TypeOK
<1>3. /\ journal' \in Seq(Ops)
      /\ Waiting \subseteq Waiting' /\ Waiting' \subseteq Waiting \cup {op}
  <2>1. journal' = journal \/ journal' = Append(journal, op)
    BY DEF Lands
  <2>2. CASE journal' = journal
    BY <2>2 DEF TypeOK, Waiting
  <2>3. CASE journal' = Append(journal, op)
    BY <2>3, JournalAppends DEF TypeOK
  <2>4. QED
    BY <2>1, <2>2, <2>3
<1>4. lost' = (lost \/ LateHold(op))
  BY DEF Lands
<1>5. lost' \in BOOLEAN /\ (~lost' => ~lost /\ ~LateHold(op))
  BY <1>4 DEF TypeOK
<1>6. QED
  BY <1>1, <1>2, <1>3, <1>5 DEF Lands, Wrote

LEMMA FailsIs ==
  ASSUME TypeOK, NEW r \in Requests, NEW op \in Ops, NEW changed, NEW unchanged,
         Fails(r, op, unchanged)
  PROVE  Wrote(r, op, changed, unchanged)
<1>1. Changes(op) /\ Sees
  BY DEF Fails, Changes, Sees
<1>2. journal' \in Seq(Ops) /\ Waiting' = Waiting \cup {op}
  BY JournalAppends DEF Fails, TypeOK
<1>3. lost' = (lost \/ (db' # db /\ LateHold(op)))
  BY DEF Fails
<1>4. lost' \in BOOLEAN /\ (~lost' => ~lost /\ (db' # db => ~LateHold(op)))
  BY <1>3 DEF TypeOK
<1>5. QED
  BY <1>1, <1>2, <1>4 DEF Fails, Wrote

LEMMA WriteIs ==
  ASSUME TypeOK, NEW r \in Requests, NEW op \in Ops, NEW changed, NEW unchanged,
         Write(r, op, changed, unchanged)
  PROVE  Wrote(r, op, changed, unchanged)
  BY LandsIs, FailsIs DEF Write

LEMMA SeesTypes == ASSUME TypeOK, db' \in Rows, Sees
                   PROVE  mirror' \in [Procs -> [status : Statuses, note : Notes]]
<1>1. Row(db') \in [status : Statuses, note : Notes]
  BY DEF Row, Rows
<1>2. QED
  BY <1>1 DEF Sees, TypeOK

\* The types of what a write may change.
LEMMA WroteTypes ==
  ASSUME TypeOK, NEW r \in Requests, NEW op \in Ops,
         NEW changed \in Places, NEW unchanged \in Places, Wrote(r, op, changed, unchanged)
  PROVE  /\ db' \in Rows /\ mirror' \in [Procs -> [status : Statuses, note : Notes]]
         /\ journal' \in Seq(Ops) /\ pc' \in [Requests -> Places] /\ lost' \in BOOLEAN
<1>1. db' \in Rows
  BY ChangeFacts DEF Wrote, TypeOK, Rows
<1>2. mirror' \in [Procs -> [status : Statuses, note : Notes]]
  BY <1>1, SeesTypes DEF Wrote
<1>3. pc' \in [Requests -> Places]
  BY DEF Wrote, Goto, TypeOK
<1>4. QED
  BY <1>1, <1>2, <1>3 DEF Wrote

\* The money: no write moves a row that is being sent or was paid, and a row
\* that was refunded keeps its note.
LEMMA ChangeKeeps ==
  ASSUME IInv, NEW op \in Ops, Changes(op), Sees, UNCHANGED refund
  PROVE  Sends' /\ Seen'
<1>1. db \in Rows
  BY DEF IInv, TypeOK, Rows
<1>2. Sends'
  BY <1>1, ChangeFacts DEF IInv, Sends, refund
<1>3. Seen'
  <2>1. ASSUME NEW p \in Procs, mirror'[p].status \in {"sending", "paid"}
        PROVE  Refunded(p) \/ db'.status \in {"sending", "paid"}
    BY <2>1 DEF IInv, TypeOK, Sees, Refunded, Row
  <2>2. (db'.status \in {"sending", "paid"} \/ \E p \in Procs : mirror'[p].status \in {"sending", "paid"})
          => (db.status \in {"sending", "paid"} \/ \E p \in Procs : Refunded(p))
    BY <1>1, <2>1, ChangeFacts
  <2>3. db.status # "none" /\ db.note = "other" => db'.status # "none" /\ db'.note = "other"
    BY <1>1, ChangeFacts
  <2>4. QED
    BY <2>2, <2>3 DEF IInv, Seen, Refunded
<1>4. QED
  BY <1>2, <1>3

------------------------------------------------------------------------------
(* The steps of a request that write nothing                                *)

\* The row, the mirror, the journal and the refund run are as they were.
Unwritten == UNCHANGED <<db, mirror, journal, refund, ghosts>>

LEMMA UnwrittenKeeps ==
  IInv /\ Unwritten => Sends' /\ Seen' /\ Waiting' = Waiting
  BY DEF IInv, Unwritten, refund, ghosts, Sends, Seen, Refunded, Waiting

LEMMA PresentKeeps == ASSUME IInv, NEW r \in Requests, Present(r) PROVE IInv'
<1>1. /\ pc[r] = "idle" /\ gate = "free" /\ gate' = "held" /\ pc' = [pc EXCEPT ![r] = "gate"]
      /\ UNCHANGED <<claimer, served, booked>> /\ Unwritten
  BY DEF Present, Goto, Unwritten
<1>2. Sends' /\ Seen' /\ Waiting' = Waiting
  BY <1>1, UnwrittenKeeps
<1>3. UNCHANGED <<db, mirror, journal, run, sends, exposed, lost>>
  BY <1>1 DEF Unwritten, refund, ghosts
<1>4. TypeOK'
  BY <1>1, <1>3 DEF IInv, TypeOK, Places
<1>5. Gate' /\ Waits' /\ Final'
  BY <1>1, <1>2, <1>3 DEF IInv, TypeOK, Gate, Waits, Final, Claimed
<1>6. Unexposed' /\ Debt'
  BY <1>1, <1>2, <1>3 DEF IInv, TypeOK, Unexposed, Debt, Reopening, Pending
<1>7. QED
  BY <1>2, <1>4, <1>5, <1>6 DEF IInv

LEMMA RefuseInputKeeps == ASSUME IInv, NEW r \in Requests, RefuseInput(r) PROVE IInv'
<1>1. /\ pc[r] = "gate" /\ gate' = "free" /\ booked' = TRUE /\ pc' = [pc EXCEPT ![r] = "refused"]
      /\ UNCHANGED <<claimer, served>> /\ Unwritten
  BY DEF RefuseInput, Goto, Unwritten
<1>2. Sends' /\ Seen' /\ Waiting' = Waiting
  BY <1>1, UnwrittenKeeps
<1>3. UNCHANGED <<db, mirror, journal, run, sends, exposed, lost>>
  BY <1>1 DEF Unwritten, refund, ghosts
<1>4. TypeOK'
  BY <1>1, <1>3 DEF IInv, TypeOK, Places
<1>5. claimer = NoRequest /\ served = {} /\ \A q \in Requests : pc[q] # "run"
  BY <1>1 DEF IInv, Gate, Final, Claimed
<1>6. Gate' /\ Waits' /\ Final'
  BY <1>1, <1>2, <1>3, <1>5 DEF IInv, TypeOK, Gate, Waits, Final, Claimed
<1>7. Unexposed'
  BY <1>1, <1>3, <1>5 DEF IInv, TypeOK, Unexposed
<1>8. Debt'
  BY <1>1, <1>2, <1>3 DEF IInv, TypeOK, Debt, Reopening, Pending
<1>9. QED
  BY <1>2, <1>4, <1>6, <1>7, <1>8 DEF IInv

LEMMA ClaimDisallowedKeeps == ASSUME IInv, NEW r \in Requests, ClaimDisallowed(r) PROVE IInv'
<1>1. /\ pc[r] = "gate" /\ Refunded(At[r]) /\ gate' = "spent" /\ pc' = [pc EXCEPT ![r] = "over"]
      /\ UNCHANGED <<claimer, served, booked>> /\ Unwritten
  BY DEF ClaimDisallowed, Goto, Unwritten
<1>2. Sends' /\ Seen' /\ Waiting' = Waiting
  BY <1>1, UnwrittenKeeps
<1>3. UNCHANGED <<db, mirror, journal, run, sends, exposed, lost>>
  BY <1>1 DEF Unwritten, refund, ghosts
<1>4. TypeOK'
  BY <1>1, <1>3 DEF IInv, TypeOK, Places
<1>5. Gate' /\ Waits' /\ Final'
  BY <1>1, <1>2, <1>3 DEF IInv, TypeOK, Gate, Waits, Final, Claimed
<1>6. Unexposed' /\ Debt'
  BY <1>1, <1>2, <1>3 DEF IInv, TypeOK, Unexposed, Debt, Reopening, Pending
<1>7. QED
  BY <1>2, <1>4, <1>5, <1>6 DEF IInv

LEMMA FinalizeKeeps == ASSUME IInv, NEW r \in Requests, Finalize(r) PROVE IInv'
<1>1. pc[r] = "gate" /\ UNCHANGED served /\ Unwritten
  BY DEF Finalize, Unwritten
<1>2. \/ gate' = "spent" /\ claimer' = r /\ pc' = [pc EXCEPT ![r] = "hold"] /\ booked' = booked
      \/ gate' = "spent" /\ booked' = TRUE /\ pc' = [pc EXCEPT ![r] = "unclaimed"] /\ claimer' = claimer
      \/ /\ gate' \in {"spent", "free"} /\ pc' = [pc EXCEPT ![r] = "over"]
         /\ claimer' = claimer /\ booked' = booked
  BY DEF Finalize, Goto
<1>3. Sends' /\ Seen' /\ Waiting' = Waiting
  BY <1>1, UnwrittenKeeps
<1>4. UNCHANGED <<db, mirror, journal, run, sends, exposed, lost>>
  BY <1>1 DEF Unwritten, refund, ghosts
<1>5. TypeOK'
  <2>1. pc' \in [Requests -> Places]
    BY <1>2 DEF IInv, TypeOK, Places
  <2>2. gate' \in {"free", "held", "spent"} /\ claimer' \in Requests \cup {NoRequest} /\ booked' \in BOOLEAN
    BY <1>2 DEF IInv, TypeOK
  <2>3. QED
    BY <1>1, <1>4, <2>1, <2>2 DEF IInv, TypeOK
<1>6. claimer = NoRequest /\ served = {} /\ \A q \in Requests : pc[q] \notin Claimed
  BY <1>1 DEF IInv, Gate, Final, Claimed
<1>7. Gate' /\ Final'
  BY <1>1, <1>2, <1>3, <1>4, <1>6 DEF IInv, TypeOK, Gate, Final, Claimed
<1>8. "bookFinalize" \notin Waiting
  BY <1>1 DEF IInv, Gate, Waits
<1>9. Waits' /\ Unexposed'
  BY <1>1, <1>2, <1>3, <1>4, <1>6, <1>8 DEF IInv, TypeOK, Waits, Unexposed, Claimed
<1>10. Debt'
  BY <1>1, <1>2, <1>3, <1>4, <1>6 DEF IInv, TypeOK, Debt, Reopening, Pending
<1>11. QED
  BY <1>3, <1>5, <1>7, <1>9, <1>10 DEF IInv

LEMMA ServeKeeps == ASSUME IInv, NEW r \in Requests, Serve(r) PROVE IInv'
<1>1. /\ pc[r] = "run" /\ served' = served \cup {r} /\ pc' = [pc EXCEPT ![r] = "served"]
      /\ UNCHANGED <<gate, claimer, booked>> /\ Unwritten
  BY DEF Serve, Goto, Unwritten
<1>2. Sends' /\ Seen' /\ Waiting' = Waiting
  BY <1>1, UnwrittenKeeps
<1>3. UNCHANGED <<db, mirror, journal, run, sends, exposed, lost>>
  BY <1>1 DEF Unwritten, refund, ghosts
<1>4. TypeOK'
  BY <1>1, <1>3 DEF IInv, TypeOK, Places
<1>5. r = claimer
  BY <1>1 DEF IInv, Gate, Claimed
<1>6. Gate' /\ Waits' /\ Final'
  BY <1>1, <1>2, <1>3, <1>5 DEF IInv, TypeOK, Gate, Waits, Final, Claimed
<1>7. Unexposed' /\ Debt'
  BY <1>1, <1>2, <1>3 DEF IInv, TypeOK, Unexposed, Debt
<1>8. QED
  BY <1>2, <1>4, <1>6, <1>7 DEF IInv

LEMMA NotServedKeeps == ASSUME IInv, NEW r \in Requests, NotServed(r) PROVE IInv'
<1>1. /\ pc[r] = "run" /\ pc' = [pc EXCEPT ![r] = "unserved"]
      /\ UNCHANGED <<gate, claimer, served, booked>> /\ Unwritten
  BY DEF NotServed, Goto, Unwritten
<1>2. Sends' /\ Seen' /\ Waiting' = Waiting
  BY <1>1, UnwrittenKeeps
<1>3. UNCHANGED <<db, mirror, journal, run, sends, exposed, lost>>
  BY <1>1 DEF Unwritten, refund, ghosts
<1>4. TypeOK'
  BY <1>1, <1>3 DEF IInv, TypeOK, Places
<1>5. r = claimer
  BY <1>1 DEF IInv, Gate, Claimed
<1>6. Gate' /\ Waits' /\ Final'
  BY <1>1, <1>2, <1>3, <1>5 DEF IInv, TypeOK, Gate, Waits, Final, Claimed
<1>7. Unexposed' /\ Debt'
  BY <1>1, <1>2, <1>3 DEF IInv, TypeOK, Unexposed, Debt, Reopening, Pending
<1>8. QED
  BY <1>2, <1>4, <1>6, <1>7 DEF IInv

------------------------------------------------------------------------------
(* The steps of a request that write                                        *)

\* From which place a request writes what, and where it goes.
Moves(r, op, place) ==
  \/ pc[r] = "refused"   /\ op = "bookRefused"  /\ place = "over"
  \/ pc[r] = "unclaimed" /\ op = "bookFinalize" /\ place \in {"over", "renote"}
  \/ pc[r] = "renote"    /\ op = "renote"       /\ place = "over"
  \/ pc[r] = "hold"      /\ op = "hold"         /\ place \in {"run", "over"}
  \/ pc[r] = "served"    /\ op = "void"         /\ place \in {"over", "say"}
  \/ pc[r] = "say"       /\ op = "renoteVoid"   /\ place = "over"
  \/ pc[r] = "unserved"  /\ op = "bookUnserved" /\ place \in {"over", "restate"}
  \/ pc[r] = "restate"   /\ op = "restate"      /\ place \in {"over", "reopen"}
  \/ pc[r] = "reopen"    /\ op = "reopen"       /\ place = "over"

LEMMA MoveKeeps ==
  ASSUME IInv, NEW r \in Requests, NEW op \in Ops, NEW place \in Places, Moves(r, op, place),
         Goto(r, place), Changes(op), Waiting' \subseteq Waiting \cup {op},
         UNCHANGED <<gate, claimer, served>>
  PROVE  Gate' /\ Waits' /\ Final'
<1>1. pc' = [pc EXCEPT ![r] = place] /\ pc \in [Requests -> Places]
  BY DEF Goto, IInv, TypeOK
<1>2. pc[r] \in Claimed => r = claimer
  BY DEF IInv, Gate
<1>3. Gate'
  BY <1>1, <1>2 DEF IInv, Gate, Moves, Claimed
<1>4. Waits'
  BY <1>1, <1>2 DEF IInv, Gate, Waits, Moves, Claimed
<1>5. db'.mark = "void" => db.mark = "void" \/ op = "void"
  BY ChangeFacts DEF IInv, TypeOK, Rows
<1>6. Final'
  BY <1>1, <1>2, <1>5 DEF IInv, Gate, Final, Moves, Claimed
<1>7. QED
  BY <1>3, <1>4, <1>6

\* The claim was made on what the row said: no later write adds a debt.
LEMMA MoveUnexposed ==
  ASSUME IInv, NEW r \in Requests, NEW op \in Ops, NEW place \in Places, Moves(r, op, place),
         pc[r] # "hold", Goto(r, place), Changes(op), Waiting' \subseteq Waiting \cup {op},
         UNCHANGED <<gate, claimer, served, exposed>>
  PROVE  Unexposed'
<1>1. pc' = [pc EXCEPT ![r] = place] /\ pc \in [Requests -> Places]
  BY DEF Goto, IInv, TypeOK
<1>2. SUFFICES ASSUME ~exposed', served' # {} \/ \E q \in Requests : pc'[q] = "run"
               PROVE  \/ db'.status = "void"
                      \/ /\ db'.status = "none" /\ "bookRefused" \notin Waiting'
                         /\ \A q \in Requests : pc'[q] # "refused"
  BY DEF Unexposed
<1>3. ~exposed /\ (served # {} \/ \E q \in Requests : pc[q] = "run")
  BY <1>1, <1>2 DEF Moves
<1>4. op \notin {"reopen", "bookFinalize", "bookUnserved"}
  BY <1>3 DEF IInv, Gate, Final, Moves, Claimed
<1>5. \/ db.status = "void"
      \/ /\ db.status = "none" /\ "bookRefused" \notin Waiting
         /\ \A q \in Requests : pc[q] # "refused"
  BY <1>3 DEF IInv, Unexposed
<1>6. db.status = "void" => db'.status = "void"
  BY <1>4, ChangeFacts DEF IInv, TypeOK, Rows
<1>7. ASSUME db.status = "none", "bookRefused" \notin Waiting,
             \A q \in Requests : pc[q] # "refused"
      PROVE  /\ db'.status = "none" /\ "bookRefused" \notin Waiting'
             /\ \A q \in Requests : pc'[q] # "refused"
  <2>1. op \notin Bookings /\ op # "bookRefused"
    BY <1>4, <1>7 DEF Moves, Bookings
  <2>2. db'.status = "none"
    BY <1>7, <2>1, ChangeFacts DEF IInv, TypeOK, Rows
  <2>3. QED
    BY <1>1, <1>7, <2>1, <2>2 DEF Moves
<1>8. QED
  BY <1>5, <1>6, <1>7

\* A refusal's booking lands, or waits.
LEMMA BookedDebt ==
  ASSUME IInv, NEW r \in Requests, NEW op \in Bookings, NEW place \in Places,
         Wrote(r, op, "over", place),
         pc[r] \in {"refused", "unclaimed", "unserved"}, pc[r] = "unserved" => place = "restate",
         UNCHANGED <<claimer, served, booked>>
  PROVE  Debt'
<1> USE DEF Wrote
<1>1. op \in Ops /\ db \in Rows /\ op \notin {"void", "hold", "reopen", "renoteVoid"}
  BY DEF Bookings, Ops, IInv, TypeOK, Rows
<1>2. SUFFICES ASSUME served' = {}, ~lost'
               PROVE  /\ db'.status = "void" => Reopening'
                      /\ db'.status = "none" /\ (booked' \/ claimer' # NoRequest) => Pending'
  BY DEF Debt
<1>3. served = {} /\ ~lost /\ db.mark # "void"
  BY <1>2 DEF IInv, Final
<1>4. ASSUME db'.status = "void" PROVE Reopening'
  <2>1. db.status = "void" /\ db'.note = db.note /\ Reopening
    BY <1>1, <1>3, <1>4, ChangeFacts DEF IInv, Debt
  <2>2. pc' = [pc EXCEPT ![r] = "over"] \/ pc' = [pc EXCEPT ![r] = place]
    BY DEF Goto
  <2>3. CASE pc[r] # "unserved"
    BY <2>1, <2>2, <2>3 DEF Reopening, IInv, TypeOK
  <2>4. CASE pc[r] = "unserved"
    <3>1. Row(db') = Row(db)
      BY <1>4, <2>1 DEF Row
    <3>2. pc'[r] = "restate"
      BY <2>4, <3>1 DEF Goto, IInv, TypeOK
    <3>3. "reopen" \in Waiting => "reopen" \in Waiting'
      OBVIOUS
    <3>4. QED
      BY <2>1, <3>2, <3>3 DEF Reopening
  <2>5. QED
    BY <2>3, <2>4
<1>5. ASSUME db'.status = "none" PROVE Pending'
  <2>1. db.status = "none"
    BY <1>1, <1>5, ChangeFacts
  <2>2. PICK n \in Notes : Apply(op, db) = Booked(db, n)
    BY <1>1, ApplyIs
  <2>3. db' # Apply(op, db)
    BY <1>1, <1>3, <1>5, <2>1, <2>2, BookedIs
  <2>4. QED
    BY <2>3 DEF Pending, Bookings
<1>6. QED
  BY <1>4, <1>5

\* Any other change by a request that is past its run: a held debt stays held
\* until it is opened again, or the change of the claim itself lands on it.
LEMMA NotedDebt ==
  ASSUME IInv, NEW r \in Requests, NEW op \in {"renote", "restate", "reopen"},
         NEW place \in Places, Wrote(r, op, "over", place),
         \/ pc[r] = "renote" /\ op = "renote"
         \/ pc[r] = "restate" /\ op = "restate" /\ place = "reopen"
         \/ pc[r] = "reopen" /\ op = "reopen",
         UNCHANGED <<claimer, served, booked>>
  PROVE  Debt'
<1> USE DEF Wrote
<1>1. op \in Ops /\ db \in Rows /\ op \notin Bookings
  BY DEF Bookings, Ops, IInv, TypeOK, Rows
<1>2. SUFFICES ASSUME served' = {}, ~lost'
               PROVE  /\ db'.status = "void" => Reopening'
                      /\ db'.status = "none" /\ (booked' \/ claimer' # NoRequest) => Pending'
  BY DEF Debt
<1>3. served = {} /\ ~lost
  BY <1>2
<1>4. pc' = [pc EXCEPT ![r] = "over"] \/ pc' = [pc EXCEPT ![r] = place]
  BY DEF Goto
<1>5. ASSUME db'.status = "void" PROVE Reopening'
  <2>1. db.status = "void" /\ db'.note = db.note /\ Reopening
    BY <1>1, <1>3, <1>5, ChangeFacts DEF IInv, Debt
  <2>2. Row(db') = Row(db)
    BY <1>5, <2>1 DEF Row
  <2>3. CASE pc[r] = "renote"
    BY <1>4, <2>1, <2>3 DEF Reopening, IInv, TypeOK
  <2>4. CASE pc[r] = "restate"
    <3>1. pc'[r] = "reopen"
      BY <2>2, <2>4 DEF Goto, IInv, TypeOK
    <3>2. QED
      BY <2>1, <3>1 DEF Reopening
  <2>5. CASE pc[r] = "reopen"
    <3>1. db' # Apply(op, db)
      BY <1>1, <1>5, <2>1, <2>5, ApplyIs, ReopenedIs DEF Reopening
    <3>2. QED
      BY <2>1, <2>5, <3>1 DEF Reopening
  <2>6. QED
    BY <2>3, <2>4, <2>5
<1>6. ASSUME db'.status = "none", booked' \/ claimer' # NoRequest PROVE Pending'
  <2>1. db.status = "none" /\ Pending
    BY <1>1, <1>3, <1>6, ChangeFacts DEF IInv, Debt
  <2>2. QED
    BY <1>4, <2>1 DEF Pending, IInv, TypeOK
<1>7. QED
  BY <1>5, <1>6

\* Everything but the debt, for a write that does not decide the claim.
LEMMA WroteKeeps ==
  ASSUME IInv, NEW r \in Requests, NEW op \in Ops, NEW changed \in Places, NEW unchanged \in Places,
         Wrote(r, op, changed, unchanged),
         Moves(r, op, changed), Moves(r, op, unchanged), pc[r] # "hold",
         UNCHANGED <<gate, claimer, served, booked, run, sends, exposed>>
  PROVE  TypeOK' /\ Sends' /\ Gate' /\ Waits' /\ Final' /\ Unexposed' /\ Seen'
<1>1. TypeOK'
  BY WroteTypes DEF IInv, TypeOK, Rows
<1>2. Sends' /\ Seen'
  BY ChangeKeeps DEF Wrote, refund
<1>3. PICK place \in {changed, unchanged} : Goto(r, place)
  BY DEF Wrote
<1>4. Moves(r, op, place) /\ place \in Places
  OBVIOUS
<1>5. Gate' /\ Waits' /\ Final'
  BY <1>3, <1>4, MoveKeeps DEF Wrote
<1>6. Unexposed'
  BY <1>3, <1>4, MoveUnexposed DEF Wrote
<1>7. QED
  BY <1>1, <1>2, <1>5, <1>6

LEMMA BookRefusedKeeps == ASSUME IInv, NEW r \in Requests, BookRefused(r) PROVE IInv'
<1>1. pc[r] = "refused" /\ UNCHANGED <<gate, claimer, served, booked, run, sends, exposed>>
  BY DEF BookRefused, refund
<1>2. Wrote(r, "bookRefused", "over", "over")
  BY WriteIs DEF BookRefused, IInv, Ops
<1>3. TypeOK' /\ Sends' /\ Gate' /\ Waits' /\ Final' /\ Unexposed' /\ Seen'
  BY <1>1, <1>2, WroteKeeps DEF Moves, Ops, Places
<1>4. Debt'
  BY <1>1, <1>2, BookedDebt DEF Bookings, Places
<1>5. QED
  BY <1>3, <1>4 DEF IInv

LEMMA BookUnclaimedKeeps == ASSUME IInv, NEW r \in Requests, BookUnclaimed(r) PROVE IInv'
<1>1. UNCHANGED <<gate, claimer, served, booked, run, sends, exposed>>
  BY DEF BookUnclaimed, refund
<1>2. CASE pc[r] = "unclaimed" /\ Write(r, "bookFinalize", "over", "renote")
  <2>1. Wrote(r, "bookFinalize", "over", "renote")
    BY <1>2, WriteIs DEF IInv, Ops
  <2>2. TypeOK' /\ Sends' /\ Gate' /\ Waits' /\ Final' /\ Unexposed' /\ Seen'
    BY <1>1, <1>2, <2>1, WroteKeeps DEF Moves, Ops, Places
  <2>3. Debt'
    BY <1>1, <1>2, <2>1, BookedDebt DEF Bookings, Places
  <2>4. QED
    BY <2>2, <2>3 DEF IInv
<1>3. CASE pc[r] = "renote" /\ Write(r, "renote", "over", "over")
  <2>1. Wrote(r, "renote", "over", "over")
    BY <1>3, WriteIs DEF IInv, Ops
  <2>2. TypeOK' /\ Sends' /\ Gate' /\ Waits' /\ Final' /\ Unexposed' /\ Seen'
    BY <1>1, <1>3, <2>1, WroteKeeps DEF Moves, Ops, Places
  <2>3. Debt'
    BY <1>1, <1>3, <2>1, NotedDebt DEF Places
  <2>4. QED
    BY <2>2, <2>3 DEF IInv
<1>4. QED
  BY <1>2, <1>3 DEF BookUnclaimed

LEMMA BookUnservedKeeps == ASSUME IInv, NEW r \in Requests, BookUnserved(r) PROVE IInv'
<1>1. UNCHANGED <<gate, claimer, served, booked, run, sends, exposed>>
  BY DEF BookUnserved, refund
<1>2. CASE pc[r] = "unserved" /\ Write(r, "bookUnserved", "over", "restate")
  <2>1. Wrote(r, "bookUnserved", "over", "restate")
    BY <1>2, WriteIs DEF IInv, Ops
  <2>2. TypeOK' /\ Sends' /\ Gate' /\ Waits' /\ Final' /\ Unexposed' /\ Seen'
    BY <1>1, <1>2, <2>1, WroteKeeps DEF Moves, Ops, Places
  <2>3. Debt'
    BY <1>1, <1>2, <2>1, BookedDebt DEF Bookings, Places
  <2>4. QED
    BY <2>2, <2>3 DEF IInv
<1>3. CASE pc[r] = "restate" /\ Write(r, "restate", "over", "reopen")
  <2>1. Wrote(r, "restate", "over", "reopen")
    BY <1>3, WriteIs DEF IInv, Ops
  <2>2. TypeOK' /\ Sends' /\ Gate' /\ Waits' /\ Final' /\ Unexposed' /\ Seen'
    BY <1>1, <1>3, <2>1, WroteKeeps DEF Moves, Ops, Places
  <2>3. Debt'
    BY <1>1, <1>3, <2>1, NotedDebt DEF Places
  <2>4. QED
    BY <2>2, <2>3 DEF IInv
<1>4. CASE pc[r] = "reopen" /\ Write(r, "reopen", "over", "over")
  <2>1. Wrote(r, "reopen", "over", "over")
    BY <1>4, WriteIs DEF IInv, Ops
  <2>2. TypeOK' /\ Sends' /\ Gate' /\ Waits' /\ Final' /\ Unexposed' /\ Seen'
    BY <1>1, <1>4, <2>1, WroteKeeps DEF Moves, Ops, Places
  <2>3. Debt'
    BY <1>1, <1>4, <2>1, NotedDebt DEF Places
  <2>4. QED
    BY <2>2, <2>3 DEF IInv
<1>5. QED
  BY <1>2, <1>3, <1>4 DEF BookUnserved

LEMMA RecordServedKeeps == ASSUME IInv, NEW r \in Requests, RecordServed(r) PROVE IInv'
<1>1. UNCHANGED <<gate, claimer, served, booked, run, sends, exposed>>
  BY DEF RecordServed, refund
<1>2. CASE pc[r] = "say" /\ Write(r, "renoteVoid", "over", "over")
  <2>1. Wrote(r, "renoteVoid", "over", "over")
    BY <1>2, WriteIs DEF IInv, Ops
  <2>2. TypeOK' /\ Sends' /\ Gate' /\ Waits' /\ Final' /\ Unexposed' /\ Seen'
    BY <1>1, <1>2, <2>1, WroteKeeps DEF Moves, Ops, Places
  <2>3. Debt'
    BY <1>1, <1>2 DEF IInv, Gate, Debt
  <2>4. QED
    BY <2>2, <2>3 DEF IInv
<1>3. CASE pc[r] = "served"
  <2>1. PICK next \in {"say", "over"} : Lands(r, "void", "over", next) \/ Fails(r, "void", next)
    BY <1>3 DEF RecordServed
  <2>2. Wrote(r, "void", "over", next)
    BY <2>1, LandsIs, FailsIs DEF IInv, Ops
  <2>3. TypeOK' /\ Sends' /\ Gate' /\ Waits' /\ Final' /\ Unexposed' /\ Seen'
    BY <1>1, <1>3, <2>2, WroteKeeps DEF Moves, Ops, Places
  <2>4. Debt'
    BY <1>1, <1>3 DEF IInv, Gate, Debt
  <2>5. QED
    BY <2>3, <2>4 DEF IInv
<1>4. QED
  BY <1>2, <1>3 DEF RecordServed

\* The claim: the debt is voided, or the mirror knows it as refunded.
LEMMA ClaimForServeKeeps == ASSUME IInv, NEW r \in Requests, ClaimForServe(r) PROVE IInv'
<1>1. pc[r] = "hold" /\ UNCHANGED <<gate, claimer, served, booked, run, sends>>
  BY DEF ClaimForServe, refund
<1>2. r = claimer /\ served = {} /\ \A q \in Requests : pc[q] \in Claimed => q = r
  BY <1>1 DEF IInv, Gate, Final, Claimed
<1>3. PICK next \in {"run", "over"} :
        /\ \/ /\ Lands(r, "hold", "run", next)
              /\ next = "run" => ~Refunded(At[r])'
              /\ exposed' = (Row(db') = Row(db) /\ (Booking \/ mirror'[At[r]] # Row(db)))
           \/ Fails(r, "hold", next) /\ exposed' = TRUE
        /\ next = "over" => Refunded(At[r]) \/ Refunded(At[r])'
  BY DEF ClaimForServe
<1>4. Wrote(r, "hold", "run", next)
  BY <1>3, LandsIs, FailsIs DEF IInv, Ops
<1>5. TypeOK'
  <2>1. exposed' \in BOOLEAN
    BY <1>3
  <2>2. /\ db' \in Rows /\ mirror' \in [Procs -> [status : Statuses, note : Notes]]
        /\ journal' \in Seq(Ops) /\ pc' \in [Requests -> Places] /\ lost' \in BOOLEAN
    BY <1>4, WroteTypes DEF IInv, Ops, Places
  <2>3. QED
    BY <1>1, <2>1, <2>2 DEF IInv, TypeOK, Rows
<1>6. Sends' /\ Seen'
  BY <1>1, <1>4, ChangeKeeps DEF Wrote, Ops, refund
<1>7. PICK place \in {"run", next} : Goto(r, place)
  BY <1>4 DEF Wrote
<1>8. Gate' /\ Waits' /\ Final'
  BY <1>1, <1>4, <1>7, MoveKeeps DEF Wrote, Moves, Ops, Places
<1>9. db \in Rows /\ Apply("hold", db) = Voided(db)
  BY ApplyIs DEF IInv, TypeOK, Rows, Ops
<1>10. Unexposed'
  <2>1. SUFFICES ASSUME ~exposed', \E q \in Requests : pc'[q] = "run"
                 PROVE  \/ db'.status = "void"
                        \/ /\ db'.status = "none" /\ "bookRefused" \notin Waiting'
                           /\ \A q \in Requests : pc'[q] # "refused"
    BY <1>1, <1>2 DEF Unexposed
  <2>2. Lands(r, "hold", "run", next) /\ (next = "run" => ~Refunded(At[r])')
    BY <1>3, <2>1
  <2>3. db' = Voided(db) /\ Goto(r, IF Row(db') # Row(db) THEN "run" ELSE next)
    BY <1>9, <2>2 DEF Lands
  <2>4. CASE Row(db') # Row(db)
    BY <1>9, <2>3, <2>4, VoidedIs DEF Row
  <2>5. CASE Row(db') = Row(db)
    <3>1. ~Booking /\ mirror'[At[r]] = Row(db)
      BY <1>3, <2>1, <2>5
    <3>2. pc' = [pc EXCEPT ![r] = next]
      BY <2>3, <2>5 DEF Goto
    <3>3. next = "run"
      BY <1>2, <2>1, <3>2 DEF Claimed, IInv, TypeOK
    <3>4. db.status \notin {"sending", "paid"}
      BY <2>2, <3>1, <3>3 DEF Refunded, Row
    <3>5. db'.status = db.status /\ db.status # "owed"
      BY <1>9, <2>3, <2>5, VoidedIs DEF Row
    <3>6. "bookRefused" \notin Waiting /\ \A q \in Requests : pc[q] # "refused"
      BY <3>1 DEF Booking, Waiting
    <3>7. "bookRefused" \notin Waiting' /\ \A q \in Requests : pc'[q] # "refused"
      BY <1>4, <3>2, <3>3, <3>6 DEF Wrote, IInv, TypeOK
    <3>8. QED
      BY <1>9, <3>4, <3>5, <3>7 DEF Rows, Statuses
  <2>6. QED
    BY <2>4, <2>5
<1>11. Debt'
  <2>1. SUFFICES ASSUME ~lost'
                 PROVE  /\ db'.status = "void" => Reopening'
                        /\ db'.status = "none" => Pending'
    BY DEF Debt
  <2>2. ~lost /\ (db' # db => ~LateHold("hold"))
    BY <1>4, <2>1 DEF Wrote
  <2>3. Changes("hold") /\ "hold" \in Ops /\ "hold" \notin Bookings
    BY <1>4 DEF Wrote, Ops, Bookings
  <2>4. next = "over" => \/ db.status # "none" /\ db.note = "other"
                         \/ db'.status # "none" /\ db'.note = "other"
    <3>1. At[r] \in Procs
      OBVIOUS
    <3>2. Refunded(At[r]) => db.status # "none" /\ db.note = "other"
      BY <3>1 DEF IInv, Seen
    <3>3. Refunded(At[r])' => db'.status # "none" /\ db'.note = "other"
      BY <1>6, <3>1 DEF Seen, Refunded
    <3>4. QED
      BY <1>3, <3>2, <3>3
  <2>5. next = "over" => db'.status # "none" /\ db'.note = "other"
    BY <1>9, <2>3, <2>4, ChangeFacts
  <2>6. pc'[r] = place
    BY <1>7 DEF Goto, IInv, TypeOK
  <2>7. ASSUME db'.status = "void" PROVE Reopening'
    <3>1. db.status # "void"
      BY <1>1, <1>2, <2>2 DEF IInv, Debt, Reopening, Waits, Claimed
    <3>2. db.status = "owed" /\ db' # db
      BY <1>9, <2>3, <2>7, <3>1, ChangeFacts
    <3>3. db.note = "refused"
      BY <2>2, <3>2 DEF LateHold
    <3>4. db'.note = "held"
      BY <1>9, <2>3, <3>2, <3>3, ChangeFacts
    <3>5. pc'[r] = "run"
      BY <1>7, <2>5, <2>6, <3>4
    <3>6. QED
      BY <3>4, <3>5 DEF Reopening
  <2>8. ASSUME db'.status = "none" PROVE Pending'
    <3>1. pc'[r] = "run"
      BY <1>7, <2>5, <2>6, <2>8
    <3>2. QED
      BY <3>1 DEF Pending
  <2>9. QED
    BY <2>7, <2>8
<1>12. QED
  BY <1>5, <1>6, <1>8, <1>10, <1>11 DEF IInv

------------------------------------------------------------------------------
(* The journal's drain                                                      *)

LEMMA ReplayKeeps == ASSUME IInv, NEW p \in Procs, Replay(p) PROVE IInv'
<1> DEFINE op == Head(journal)
<1>1. /\ journal # <<>> /\ db' = Apply(op, db) /\ journal' \in {Tail(journal), journal}
      /\ mirror' = [mirror EXCEPT ![p] = Row(db')] /\ lost' = (lost \/ LateHold(op))
      /\ UNCHANGED <<gate, claimer, pc, served, booked, run, sends, exposed>>
  BY DEF Replay, See, requests, refund
<1>2. /\ journal' \in Seq(Ops) /\ op \in Ops /\ op \in Waiting
      /\ Waiting' \subseteq Waiting /\ Waiting \subseteq Waiting' \cup {op}
  BY <1>1, JournalReplays DEF IInv, TypeOK
<1> HIDE DEF op
<1>3. Changes(op) /\ Sees /\ db \in Rows
  BY <1>1 DEF Changes, Sees, IInv, TypeOK, Rows
<1>4. TypeOK'
  <2>1. db' \in Rows
    BY <1>2, <1>3, ChangeFacts
  <2>2. mirror' \in [Procs -> [status : Statuses, note : Notes]]
    BY <1>3, <2>1, SeesTypes DEF IInv
  <2>3. lost' \in BOOLEAN
    BY <1>1
  <2>4. QED
    BY <1>1, <1>2, <2>1, <2>2, <2>3 DEF IInv, TypeOK, Rows
<1>5. Sends' /\ Seen'
  BY <1>1, <1>2, <1>3, ChangeKeeps DEF refund
<1>6. Gate' /\ Waits'
  BY <1>1, <1>2 DEF IInv, Gate, Waits
<1>7. Final'
  <2>1. db'.mark = "void" => served # {}
    BY <1>2, <1>3, ChangeFacts DEF IInv, Final, Waits
  <2>2. QED
    BY <1>1, <1>2, <2>1 DEF IInv, Final
<1>8. Unexposed'
  <2>1. SUFFICES ASSUME ~exposed, served # {} \/ \E q \in Requests : pc[q] = "run"
                 PROVE  \/ db'.status = "void"
                        \/ /\ db'.status = "none" /\ "bookRefused" \notin Waiting
                           /\ \A q \in Requests : pc[q] # "refused"
    BY <1>1, <1>2 DEF Unexposed
  <2>2. op \notin {"reopen", "bookUnserved", "bookFinalize"}
    BY <1>2, <2>1 DEF IInv, Gate, Waits, Final, Claimed
  <2>3. \/ db.status = "void"
        \/ /\ db.status = "none" /\ "bookRefused" \notin Waiting
           /\ \A q \in Requests : pc[q] # "refused"
    BY <2>1 DEF IInv, Unexposed
  <2>4. QED
    BY <1>2, <1>3, <2>2, <2>3, ChangeFacts DEF Bookings
<1>9. Debt'
  <2>1. SUFFICES ASSUME served = {}, ~lost, ~LateHold(op)
                 PROVE  /\ db'.status = "void" => Reopening'
                        /\ db'.status = "none" /\ (booked \/ claimer # NoRequest) => Pending'
    BY <1>1 DEF Debt
  <2>2. op \notin {"void", "renoteVoid"} /\ db.mark # "void"
    BY <1>2, <2>1 DEF IInv, Waits, Final
  <2>3. ASSUME db'.status = "void", db.status = "void" PROVE Reopening'
    <3>1. Reopening /\ db'.note = db.note
      BY <1>2, <1>3, <2>1, <2>2, <2>3, ChangeFacts DEF IInv, Debt
    <3>2. op # "reopen"
      BY <1>1, <1>2, <1>3, <2>3, <3>1, ApplyIs, ReopenedIs DEF Reopening
    <3>3. QED
      BY <1>1, <1>2, <3>1, <3>2 DEF Reopening
  <2>4. ASSUME db'.status = "void", db.status # "void" PROVE Reopening'
    <3>1. op = "hold" /\ db.status = "owed" /\ db' # db
      BY <1>2, <1>3, <2>2, <2>4, ChangeFacts
    <3>2. db.note = "refused" /\ pc[claimer] # "over"
      BY <2>1, <3>1 DEF LateHold
    <3>3. db'.note = "held"
      BY <1>2, <1>3, <3>1, <3>2, ChangeFacts
    <3>4. claimer \in Requests /\ pc[claimer] \in {"run", "unserved", "restate", "reopen"}
      BY <1>2, <2>1, <3>1, <3>2 DEF IInv, TypeOK, Waits, Gate, Claimed
    <3>5. QED
      BY <1>1, <3>3, <3>4 DEF Reopening
  <2>5. ASSUME db'.status = "none", booked \/ claimer # NoRequest PROVE Pending'
    <3>1. db.status = "none" /\ Pending
      BY <1>2, <1>3, <2>1, <2>5, ChangeFacts DEF IInv, Debt
    <3>2. op \notin Bookings
      BY <1>1, <1>2, <1>3, <2>2, <2>5, <3>1, ApplyIs, BookedIs
    <3>3. QED
      BY <1>1, <1>2, <3>1, <3>2 DEF Pending, Bookings
  <2>6. QED
    BY <2>3, <2>4, <2>5
<1>10. QED
  BY <1>4, <1>5, <1>6, <1>7, <1>8, <1>9 DEF IInv

------------------------------------------------------------------------------
(* The refund run, the refresh and a crash                                  *)

\* The run or the operator moves an owed row, or one that is being sent.
LEMMA ResolveKeeps ==
  ASSUME IInv, NEW p \in Procs, NEW status \in {"owed", "sending", "paid"}, NEW next,
         db.status \in {"owed", "sending"}, Resolve(p, status, next),
         UNCHANGED <<journal, requests, ghosts>>
  PROVE  /\ db' \in Rows /\ mirror' \in [Procs -> [status : Statuses, note : Notes]]
         /\ db' = db \/ db'.status = status
         /\ run' = next => db'.status = status \/ run' = "idle"
         /\ run' \in {next, "idle"}
         /\ Gate' /\ Waits' /\ Final' /\ Unexposed' /\ Seen' /\ Debt'
<1>1. db' = db \/ db' = [db EXCEPT !.status = status, !.note = "other"]
  BY DEF Resolve
<1>2. db \in Rows /\ db' \in Rows
  BY <1>1 DEF IInv, TypeOK, Rows, Statuses, Notes
<1>3. Sees
  BY DEF Resolve, Sees, See
<1>4. mirror' \in [Procs -> [status : Statuses, note : Notes]]
  BY <1>2, <1>3, SeesTypes DEF IInv
<1>5. db'.status \in {"owed", "sending", "paid"} /\ db'.mark = db.mark
  BY <1>1, <1>2 DEF Rows
<1>6. Waiting' = Waiting /\ UNCHANGED <<gate, claimer, pc, served, booked, exposed, lost>>
  BY DEF Waiting, requests, ghosts
<1>7. Gate' /\ Waits' /\ Final'
  BY <1>5, <1>6 DEF IInv, Gate, Waits, Final
<1>8. Unexposed' /\ Debt'
  BY <1>5, <1>6 DEF IInv, Unexposed, Debt
<1>9. Seen'
  <2>1. CASE db' = db
    <3>1. ASSUME NEW q \in Procs, mirror'[q].status \in {"sending", "paid"}
          PROVE  Refunded(q) \/ db'.status \in {"sending", "paid"}
      BY <1>3, <3>1 DEF IInv, TypeOK, Sees, Refunded, Row
    <3>2. QED
      BY <2>1, <3>1 DEF IInv, Seen, Refunded
  <2>2. CASE db' = [db EXCEPT !.status = status, !.note = "other"]
    BY <1>2, <2>2 DEF Seen, Rows
  <2>3. QED
    BY <1>1, <2>1, <2>2
<1>10. /\ db' = db \/ db'.status = status
       /\ run' = next => db'.status = status \/ run' = "idle"
       /\ run' \in {next, "idle"}
  BY <1>2 DEF Resolve, Rows
<1>11. QED
  BY <1>2, <1>4, <1>7, <1>8, <1>9, <1>10

LEMMA RefundRunKeeps ==
  ASSUME IInv, NEW p \in Procs, ClaimForSend(p) \/ Paid(p) \/ Release(p) \/ ByHand(p)
  PROVE  IInv'
<1> USE DEF IInv, TypeOK, Sends, Rows, requests, ghosts
<1>1. CASE ClaimForSend(p)
  BY <1>1, ResolveKeeps DEF ClaimForSend, Claimable
<1>2. CASE Paid(p)
  BY <1>2, ResolveKeeps DEF Paid
<1>3. CASE Release(p)
  BY <1>3, ResolveKeeps DEF Release
<1>4. CASE ByHand(p)
  BY <1>4, ResolveKeeps DEF ByHand
<1>5. QED
  BY <1>1, <1>2, <1>3, <1>4

LEMMA SendKeeps == ASSUME IInv, Send PROVE IInv'
<1>1. /\ run = "send" /\ run' \in {"paid", "idle", "release"}
      /\ (sends' = sends + 1 /\ run' # "release") \/ sends' = sends
      /\ UNCHANGED <<db, mirror, journal, gate, claimer, pc, served, booked, exposed, lost>>
  BY DEF Send, requests, ghosts
<1>2. sends = 0 /\ db.status = "sending"
  BY <1>1 DEF IInv, Sends
<1>3. TypeOK' /\ Sends'
  BY <1>1, <1>2 DEF IInv, TypeOK, Sends
<1>4. Waiting' = Waiting
  BY <1>1 DEF Waiting
<1>5. Gate' /\ Waits' /\ Final' /\ Unexposed' /\ Seen' /\ Debt'
  BY <1>1, <1>4 DEF IInv, Gate, Waits, Final, Unexposed, Seen, Refunded, Debt, Reopening, Pending
<1>6. QED
  BY <1>3, <1>5 DEF IInv

LEMMA RefreshKeeps == ASSUME IInv, NEW p \in Procs, Refresh(p) PROVE IInv'
<1>1. /\ mirror' = [mirror EXCEPT ![p] = Row(db')]
      /\ UNCHANGED <<db, journal, gate, claimer, pc, served, booked, run, sends, exposed, lost>>
  BY DEF Refresh, See, requests, refund, ghosts
<1>2. Changes("hold") /\ Sees /\ "hold" \in Ops /\ UNCHANGED refund /\ Waiting' = Waiting
  BY <1>1 DEF Changes, Sees, Ops, refund, Waiting
<1>3. Sends' /\ Seen'
  BY <1>2, ChangeKeeps
<1>4. mirror' \in [Procs -> [status : Statuses, note : Notes]]
  BY <1>1, <1>2, SeesTypes DEF IInv, TypeOK, Rows
<1>5. TypeOK'
  BY <1>1, <1>4 DEF IInv, TypeOK
<1>6. Gate' /\ Waits' /\ Final' /\ Unexposed' /\ Debt'
  BY <1>1, <1>2 DEF IInv, Gate, Waits, Final, Unexposed, Debt, Reopening, Pending
<1>7. QED
  BY <1>3, <1>5, <1>6 DEF IInv

\* A crash ends the requests of its container; what they had not written is
\* lost.
LEMMA CrashKeeps == ASSUME IInv, NEW p \in Procs, Crash(p) PROVE IInv'
<1>1. /\ pc' = [r \in Requests |-> IF At[r] = p /\ pc[r] # "idle" THEN "over" ELSE pc[r]]
      /\ gate' = IF gate = "held" /\ \E r \in Requests : At[r] = p /\ pc[r] = "gate" THEN "free" ELSE gate
      /\ lost' = (lost \/ \E r \in Requests : At[r] = p /\ pc[r] \notin {"idle", "gate", "over"})
      /\ mirror' = [mirror EXCEPT ![p] = Row(db')]
      /\ UNCHANGED <<db, journal, claimer, served, booked, run, sends, exposed>>
  BY DEF Crash, See, refund
<1>2. Changes("hold") /\ Sees /\ "hold" \in Ops /\ UNCHANGED refund /\ Waiting' = Waiting
  BY <1>1 DEF Changes, Sees, Ops, refund, Waiting
<1>3. Sends' /\ Seen'
  BY <1>2, ChangeKeeps
<1>4. mirror' \in [Procs -> [status : Statuses, note : Notes]]
  BY <1>1, <1>2, SeesTypes DEF IInv, TypeOK, Rows
<1>5. \A r \in Requests : pc'[r] = pc[r] \/ (pc'[r] = "over" /\ At[r] = p /\ pc[r] # "idle")
  BY <1>1 DEF IInv, TypeOK
<1>6. TypeOK'
  <2>1. pc' \in [Requests -> Places]
    BY <1>1 DEF IInv, TypeOK, Places
  <2>2. gate' \in {"free", "held", "spent"} /\ lost' \in BOOLEAN
    BY <1>1 DEF IInv, TypeOK
  <2>3. QED
    BY <1>1, <1>4, <2>1, <2>2 DEF IInv, TypeOK
<1>7. Gate'
  <2>1. ASSUME NEW r \in Requests, pc'[r] = "gate" PROVE gate' = "held"
    BY <1>1, <2>1 DEF IInv, Gate
  <2>2. gate = "spent" => gate' = "spent"
    BY <1>1
  <2>3. QED
    BY <1>1, <1>5, <2>1, <2>2 DEF IInv, Gate, Claimed
<1>8. Waits' /\ Final'
  <2>1. gate = "spent" => gate' = "spent"
    BY <1>1
  <2>2. claimer # NoRequest => pc'[claimer] = pc[claimer] \/ pc'[claimer] = "over"
    BY <1>5 DEF IInv, TypeOK
  <2>3. QED
    BY <1>1, <1>2, <2>1, <2>2 DEF IInv, Waits, Final, Claimed
<1>9. Unexposed'
  BY <1>1, <1>2, <1>5 DEF IInv, Unexposed
<1>10. Debt'
  <2>1. SUFFICES ASSUME served = {}, ~lost'
                 PROVE  /\ db.status = "void" => Reopening'
                        /\ db.status = "none" /\ (booked \/ claimer # NoRequest) => Pending'
    BY <1>1 DEF Debt
  <2>2. ~lost /\ \A r \in Requests : At[r] = p => pc[r] \in {"idle", "gate", "over"}
    BY <1>1, <2>1
  <2>3. \A r \in Requests : pc[r] \notin {"idle", "gate", "over"} => pc'[r] = pc[r]
    BY <1>5, <2>2
  <2>4. Reopening => Reopening'
    BY <1>1, <1>2, <2>3 DEF Reopening
  <2>5. Pending => Pending'
    BY <1>2, <2>3 DEF Pending
  <2>6. QED
    BY <2>1, <2>2, <2>4, <2>5 DEF IInv, Debt
<1>11. QED
  BY <1>3, <1>6, <1>7, <1>8, <1>9, <1>10 DEF IInv

------------------------------------------------------------------------------
(* The theorems                                                             *)

LEMMA StepKeeps == IInv /\ [Next]_vars => IInv'
<1> SUFFICES ASSUME IInv, [Next]_vars PROVE IInv'
  OBVIOUS
<1>1. CASE UNCHANGED vars
  <2>1. UNCHANGED <<db, mirror, journal, gate, claimer, pc, run, sends, served, booked, exposed, lost>>
    BY <1>1 DEF vars, requests, refund, ghosts
  <2>2. Waiting' = Waiting
    BY <2>1 DEF Waiting
  <2>3. TypeOK' /\ Sends' /\ Gate' /\ Waits' /\ Final'
    BY <2>1, <2>2 DEF IInv, TypeOK, Sends, Gate, Waits, Final
  <2>4. Unexposed' /\ Seen' /\ Debt'
    BY <2>1, <2>2 DEF IInv, Unexposed, Seen, Refunded, Debt, Reopening, Pending
  <2>5. QED
    BY <2>3, <2>4 DEF IInv
<1>2. ASSUME NEW r \in Requests,
             \/ Present(r) \/ RefuseInput(r) \/ ClaimDisallowed(r) \/ Finalize(r)
             \/ ClaimForServe(r) \/ Serve(r) \/ NotServed(r) \/ Books(r)
      PROVE  IInv'
  BY <1>2, PresentKeeps, RefuseInputKeeps, ClaimDisallowedKeeps, FinalizeKeeps,
     ClaimForServeKeeps, ServeKeeps, NotServedKeeps, BookRefusedKeeps, BookUnclaimedKeeps,
     BookUnservedKeeps, RecordServedKeeps DEF Books
<1>3. ASSUME NEW p \in Procs,
             \/ Replay(p) \/ Refresh(p) \/ Crash(p)
             \/ ClaimForSend(p) \/ Paid(p) \/ Release(p) \/ ByHand(p)
      PROVE  IInv'
  BY <1>3, ReplayKeeps, RefreshKeeps, CrashKeeps, RefundRunKeeps
<1>4. CASE Send
  BY <1>4, SendKeeps
<1>5. QED
  BY <1>1, <1>2, <1>3, <1>4 DEF Next

\* The strengthening holds in every reachable state.
THEOREM Inductive == Spec => []IInv
<1>1. Init => IInv
  BY Initially
<1>2. IInv /\ [Next]_vars => IInv'
  BY StepKeeps
<1>3. QED
  BY <1>1, <1>2, PTL DEF Spec

\* Every variable of the ledger, its journal and the refund run keeps its type.
THEOREM TypeCorrect == Spec => []TypeOK
<1>1. IInv => TypeOK
  BY DEF IInv
<1>2. QED
  BY <1>1, Inductive, PTL

\* The transfer is refunded once, whatever fails, crashes or is resolved by
\* hand (claimRefundForSend, markRefundPaid, releaseStuckSend).
THEOREM RefundedOnce == Spec => []SentOnce
<1>1. IInv => SentOnce
  BY DEF IInv, Sends, SentOnce
<1>2. QED
  BY <1>1, Inductive, PTL

\* A run that was served is not refunded, unless its claim could not void the
\* debt (claimForServe, served).
THEOREM ServedIsFinal == Spec => []ServedNotRefunded
<1>1. IInv => ServedNotRefunded
  BY DEF IInv, TypeOK, Sends, Unexposed, ServedNotRefunded
<1>2. QED
  BY <1>1, Inductive, PTL

\* What was refused or not served is owed, being sent or paid once nothing is
\* left to be written, unless a crash or a late hold lost it (the journal's
\* entries, replayDeadLetters, bookOwed and reopen).
THEOREM DebtKept == Spec => []DebtStands
<1>1. IInv /\ Undelivered => Waiting = {}
  BY DEF Undelivered, Waiting
<1>2. IInv => DebtStands
  BY <1>1 DEF IInv, TypeOK, Debt, Reopening, Pending, Undelivered, DebtStands, Stands, Statuses
<1>3. QED
  BY <1>2, Inductive, PTL

\* No step takes the mark of a served run back, or sends its debt.
LEMMA StepVoid ==
  ASSUME IInv, [Next]_vars, db.mark = "void"
  PROVE  db'.mark = "void" /\ (db'.status = "sending" => db.status = "sending")
<1>1. db \in Rows /\ served # {} /\ "reopen" \notin Waiting /\ \A r \in Requests : pc[r] # "reopen"
  BY DEF IInv, TypeOK, Rows, Final, Gate, Claimed
<1>2. CASE db' = db
  BY <1>2
<1>3. ASSUME NEW op \in Ops, Changes(op), op # "reopen"
      PROVE  db'.mark = "void" /\ (db'.status = "sending" => db.status = "sending")
  BY <1>1, <1>3, ChangeFacts
<1>4. ASSUME NEW r \in Requests, ClaimForServe(r) \/ Books(r) PROVE \E op \in Ops \ {"reopen"} : Changes(op)
  <2>1. ASSUME NEW op \in Ops, NEW a, NEW b, Write(r, op, a, b) PROVE Changes(op)
    BY <2>1, WriteIs DEF Wrote, IInv
  <2>2. ASSUME NEW op \in Ops, NEW a, NEW b, Lands(r, op, a, b) \/ Fails(r, op, b) PROVE Changes(op)
    BY <2>2, LandsIs, FailsIs DEF Wrote, IInv
  <2>3. CASE ClaimForServe(r)
    BY <2>2, <2>3 DEF ClaimForServe, Ops
  <2>4. CASE BookRefused(r) \/ BookUnclaimed(r)
    BY <2>1, <2>4 DEF BookRefused, BookUnclaimed, Ops
  <2>5. CASE BookUnserved(r)
    BY <1>1, <2>1, <2>5 DEF BookUnserved, Ops
  <2>6. CASE RecordServed(r)
    BY <2>1, <2>2, <2>6 DEF RecordServed, Ops
  <2>7. QED
    BY <1>4, <2>3, <2>4, <2>5, <2>6 DEF Books
<1>5. ASSUME NEW p \in Procs, Replay(p) PROVE \E op \in Ops \ {"reopen"} : Changes(op)
  <2>1. journal \in Seq(Ops) /\ journal # <<>> /\ journal' \in {Tail(journal), journal}
        /\ db' = Apply(Head(journal), db)
    BY <1>5 DEF Replay, IInv, TypeOK
  <2>2. Head(journal) \in Ops /\ Head(journal) \in Waiting
    BY <2>1, JournalReplays
  <2>3. QED
    BY <1>1, <2>1, <2>2 DEF Changes
<1>6. ASSUME NEW p \in Procs, Paid(p) \/ Release(p) \/ ByHand(p)
      PROVE  db'.mark = "void" /\ (db'.status = "sending" => db.status = "sending")
  BY <1>1, <1>6 DEF Paid, Release, ByHand, Resolve, Rows
<1>7. ASSUME NEW r \in Requests,
             \/ Present(r) \/ RefuseInput(r) \/ ClaimDisallowed(r) \/ Finalize(r)
             \/ Serve(r) \/ NotServed(r)
      PROVE  db' = db
  BY <1>7 DEF Present, RefuseInput, ClaimDisallowed, Finalize, Serve, NotServed
<1>8. ASSUME NEW p \in Procs, Refresh(p) \/ Crash(p) PROVE db' = db
  BY <1>8 DEF Refresh, Crash
<1>9. ASSUME NEW p \in Procs, ClaimForSend(p) PROVE FALSE
  BY <1>9 DEF ClaimForSend, Claimable
<1>10. Send \/ UNCHANGED vars => db' = db
  BY DEF Send, vars
<1>11. QED
  BY <1>2, <1>3, <1>4, <1>5, <1>6, <1>7, <1>8, <1>9, <1>10 DEF Next

\* The mark of a served run outlives every booking that lands later, and its
\* debt is never claimed for sending (INSERT_OWED_SQL, claimRefundForSend).
THEOREM VoidStays == Spec => VoidIsFinal
<1>1. IInv /\ [Next]_vars => [db.mark = "void" =>
        db'.mark = "void" /\ (db'.status = "sending" => db.status = "sending")]_vars
  BY StepVoid
<1>2. QED
  BY <1>1, Inductive, PTL DEF Spec, VoidIsFinal

==============================================================================
