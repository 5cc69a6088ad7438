----------------------------- MODULE RefundLedger -----------------------------
(***************************************************************************)
(* The debt of one Tempo push transfer in the refund ledger                *)
(* (src/src/refund-ledger.js, src/src/tempo-push-debts.js), from the       *)
(* requests that present the transfer to the run that refunds it.          *)
(*                                                                         *)
(* The transfer is final before the first request.  A request refused on   *)
(* its input books the transfer as owed and may be sent again corrected;   *)
(* the claim of that one voids the debt before its handler runs, and opens *)
(* it again if the run is not served.  The refund run claims an owed debt, *)
(* sends the money and marks it paid.  Each change is one guarded statement*)
(* in Postgres, written ahead to a journal that is replayed in order, and  *)
(* read back in a mirror each container keeps of the row.                  *)
(*                                                                         *)
(* A write is one step: its entry is journaled before and removed after it.*)
(* A write that fails, with or without having landed, leaves its entry.    *)
(***************************************************************************)
EXTENDS Naturals, Sequences

CONSTANTS
  Requests,  \* the requests that carry the transfer's credential
  Procs,     \* the containers
  NoRequest, \* no request
  At,        \* the container each request reaches
  Leases,    \* TRUE: an entry may be held by another container's drain, or its
             \* removal fail, while later writes land
  Refunds,   \* TRUE: the refund run is dispatched
  Crashes    \* TRUE: containers may crash

ASSUME LedgerAssumption == NoRequest \notin Requests /\ At \in [Requests -> Procs]

VARIABLES
  db,       \* the row (its status and note) and the evidence's mark
  mirror,   \* each container's copy of the row
  journal,  \* the changes that wait, oldest first
  gate,     \* the replay key: "free", "held" by a request, or "spent"
  claimer,  \* the request the relay claimed the transfer for
  pc,       \* where each request is
  run,      \* where the refund run is
  sends,    \* how many times the refund was broadcast
  served,   \* the requests answered 200
  booked,   \* a refusal was to be booked
  exposed,  \* the claim was served on the word of a mirror, or beside a refusal not yet booked
  lost      \* the run's container crashed, or its debt was voided under a note nothing reopens

requests == <<gate, claimer, pc, served, booked>>
refund   == <<run, sends>>
ghosts   == <<exposed, lost>>
vars     == <<db, mirror, journal, requests, refund, ghosts>>

Statuses == {"none", "owed", "sending", "paid", "void"}
\* What the guards tell apart in a note: refused on input, refused at finalize,
\* held for a claim, held and served, anything else.
Notes  == {"refused", "finalize", "held", "served", "other"}
Ops    == {"bookRefused", "bookFinalize", "bookUnserved", "void", "hold", "reopen",
           "renoteVoid", "restate", "renote"}
Places == {"idle", "gate", "refused", "unclaimed", "renote", "hold", "run",
           "unserved", "restate", "reopen", "served", "say", "over"}

TypeOK ==
  /\ db \in [status : Statuses, note : Notes, mark : {"none", "owed", "void"}]
  /\ mirror \in [Procs -> [status : Statuses, note : Notes]]
  /\ journal \in Seq(Ops)
  /\ gate \in {"free", "held", "spent"}
  /\ claimer \in Requests \cup {NoRequest}
  /\ pc \in [Requests -> Places]
  /\ run \in {"idle", "send", "paid", "release"}
  /\ sends \in Nat
  /\ served \subseteq Requests
  /\ booked \in BOOLEAN /\ exposed \in BOOLEAN /\ lost \in BOOLEAN

Row(d) == [status |-> d.status, note |-> d.note]

Init ==
  /\ db = [status |-> "none", note |-> "other", mark |-> "none"]
  /\ mirror = [p \in Procs |-> Row(db)]
  /\ journal = <<>>
  /\ gate = "free" /\ claimer = NoRequest
  /\ pc = [r \in Requests |-> "idle"]
  /\ run = "idle" /\ sends = 0
  /\ served = {} /\ booked = FALSE
  /\ exposed = FALSE /\ lost = FALSE

Goto(r, place) == pc' = [pc EXCEPT ![r] = place]

------------------------------------------------------------------------------
(* The statements, as functions of the row and its mark.                    *)

\* Mutant of Booked: the insert does not read the mark.
BookedUnmarked(d, note) ==
  IF d.status = "none" THEN [status |-> "owed", note |-> note, mark |-> "owed"] ELSE d

\* INSERT_OWED_SQL: the mark first, unless there is one; the row if it reads owed.
Booked(d, note) ==
  IF d.mark = "void" THEN d
  ELSE IF d.status = "none" THEN [status |-> "owed", note |-> note, mark |-> "owed"]
  ELSE [d EXCEPT !.mark = "owed"]

\* An owed debt is void, its note "...; claimed on retry".
Voided(d) ==
  IF d.status = "owed"
  THEN [d EXCEPT !.status = "void", !.note = IF @ = "refused" THEN "held" ELSE "other"]
  ELSE d

Marked(d) == [d EXCEPT !.mark = "void"]

\* A held debt is owed again, and so is its mark.
Reopened(d) ==
  IF d.status = "void" /\ d.note = "held"
  THEN [status |-> "owed", note |-> "other", mark |-> IF d.mark = "none" THEN "none" ELSE "owed"]
  ELSE d

Renoted(d, status, from, to) ==
  IF d.status = status /\ d.note = from THEN [d EXCEPT !.note = to] ELSE d

\* OWED_CHANGES and the insert.
Apply(op, d) ==
  CASE op = "bookRefused"  -> Booked(d, "refused")
    [] op = "bookFinalize" -> Booked(d, "finalize")
    [] op = "bookUnserved" -> Booked(d, "other")
    [] op = "void"         -> Voided(Marked(d))
    [] op = "hold"         -> Voided(d)
    [] op = "reopen"       -> Reopened(d)
    [] op = "renoteVoid"   -> Renoted(d, "void", "held", "served")
    [] op = "restate"      -> Renoted(d, "owed", "refused", "other")
    [] op = "renote"       -> Renoted(d, "owed", "refused", "finalize")

------------------------------------------------------------------------------
(* The writer                                                               *)

\* Before a write the waiting entries land, unless another container's drain
\* holds them.
Ahead == Leases \/ journal = <<>>

See(p) == mirror' = [mirror EXCEPT ![p] = Row(db')]

\* A hold that voids a debt once its run's end was written, or under a note
\* nothing reopens, loses it.
LateHold(op) ==
  /\ op = "hold" /\ db.status = "owed"
  /\ db.note # "refused" \/ pc[claimer] = "over"

\* The change lands and is answered: whether the row changed.  The mirror takes
\* the row it returned, or reads it back, which may fail.
Lands(r, op, changed, unchanged) ==
  /\ Ahead
  /\ db' = Apply(op, db)
  /\ See(At[r]) \/ (Row(db') = Row(db) /\ UNCHANGED mirror)
  /\ journal' \in {journal} \cup (IF Leases THEN {Append(journal, op)} ELSE {})
  /\ Goto(r, IF Row(db') # Row(db) THEN changed ELSE unchanged)
  /\ lost' = (lost \/ LateHold(op))

\* The write fails, before or after the statement (the void's first of two)
\* landed: its entry waits, and the caller reads false.
Fails(r, op, unchanged) ==
  /\ db' \in {db} \cup (IF Ahead THEN {Apply(op, db)} ELSE {})
             \cup (IF Ahead /\ op = "void" THEN {Marked(db)} ELSE {})
  /\ journal' = Append(journal, op)
  /\ Goto(r, unchanged)
  /\ lost' = (lost \/ (db' # db /\ LateHold(op)))
  /\ UNCHANGED mirror

Write(r, op, changed, unchanged) == Lands(r, op, changed, unchanged) \/ Fails(r, op, unchanged)

\* replayDeadLetters: the oldest entry lands and goes; one whose removal fails
\* stays.
Replay(p) ==
  /\ journal # <<>>
  /\ db' = Apply(Head(journal), db)
  /\ See(p)
  /\ journal' \in {Tail(journal)} \cup (IF Leases THEN {journal} ELSE {})
  /\ lost' = (lost \/ LateHold(Head(journal)))
  /\ UNCHANGED <<requests, refund, exposed>>

\* refresh, every 15 seconds.
Refresh(p) ==
  /\ UNCHANGED db /\ See(p)
  /\ mirror' # mirror
  /\ UNCHANGED <<journal, requests, refund, ghosts>>

------------------------------------------------------------------------------
(* A request                                                                *)

\* The guard of the credential, held while the gate decides.
Present(r) ==
  /\ pc[r] = "idle" /\ gate = "free"
  /\ gate' = "held"
  /\ Goto(r, "gate")
  /\ UNCHANGED <<db, mirror, journal, claimer, served, booked, refund, ghosts>>

\* The body is refused: the key is free before the debt is booked (the sender
\* is read from the chain in between).
RefuseInput(r) ==
  /\ pc[r] = "gate"
  /\ gate' = "free"
  /\ booked' = TRUE
  /\ Goto(r, "refused")
  /\ UNCHANGED <<db, mirror, journal, claimer, served, refund, ghosts>>

BookRefused(r) ==
  /\ pc[r] = "refused"
  /\ Write(r, "bookRefused", "over", "over")
  /\ UNCHANGED <<gate, claimer, served, booked, refund, exposed>>

\* pushClaimAllowed: the mirror knows the debt as refunded.
Refunded(p) == mirror[p].status \in {"sending", "paid"}

ClaimDisallowed(r) ==
  /\ pc[r] = "gate" /\ Refunded(At[r])
  /\ gate' = "spent"
  /\ Goto(r, "over")
  /\ UNCHANGED <<db, mirror, journal, claimer, served, booked, refund, ghosts>>

\* The relay claims the hash, refuses to (which is booked, unless a party is on
\* the sanctions list or the hash already claimed), or cannot be reached.
Finalize(r) ==
  /\ pc[r] = "gate" /\ ~Refunded(At[r])
  /\ \/ gate' = "spent" /\ claimer' = r /\ Goto(r, "hold") /\ UNCHANGED booked
     \/ gate' = "spent" /\ booked' = TRUE /\ Goto(r, "unclaimed") /\ UNCHANGED claimer
     \/ gate' = "spent" /\ Goto(r, "over") /\ UNCHANGED <<claimer, booked>>
     \/ gate' = "free" /\ Goto(r, "over") /\ UNCHANGED <<claimer, booked>>
  /\ UNCHANGED <<db, mirror, journal, served, refund, ghosts>>

\* notClaimed: a new row, or the input-refused one becomes it.
BookUnclaimed(r) ==
  /\ \/ pc[r] = "unclaimed" /\ Write(r, "bookFinalize", "over", "renote")
     \/ pc[r] = "renote" /\ Write(r, "renote", "over", "over")
  /\ UNCHANGED <<gate, claimer, served, booked, refund, exposed>>

\* A refusal is still to be booked.
Booking == \/ \E q \in Requests : pc[q] = "refused"
           \/ \E i \in 1 .. Len(journal) : journal[i] = "bookRefused"

\* Mutant of ClaimForServe: it answers from the mirror.
ClaimForServeMirror(r) ==
  /\ pc[r] = "hold"
  /\ Goto(r, IF Refunded(At[r]) THEN "over" ELSE "run")
  /\ UNCHANGED <<db, mirror, journal, gate, claimer, served, booked, refund, ghosts>>

\* claimForServe: the debt is voided before the handler runs.  When nothing was
\* voided, the mirror says whether it is refunded.
ClaimForServe(r) ==
  /\ pc[r] = "hold"
  /\ \/ /\ Lands(r, "hold", "run", IF Refunded(At[r])' THEN "over" ELSE "run")
        /\ exposed' = (Row(db') = Row(db) /\ (Booking \/ mirror'[At[r]] # Row(db)))
     \/ /\ Fails(r, "hold", IF Refunded(At[r]) THEN "over" ELSE "run")
        /\ exposed' = TRUE
  /\ UNCHANGED <<gate, claimer, served, booked, refund>>

\* A 200 goes out.
Serve(r) ==
  /\ pc[r] = "run"
  /\ served' = served \cup {r}
  /\ Goto(r, "served")
  /\ UNCHANGED <<db, mirror, journal, gate, claimer, booked, refund, ghosts>>

\* served: the debt is void for good, and a held one says it was served.
RecordServed(r) ==
  /\ \/ pc[r] = "served" /\ Lands(r, "void", "over", IF (mirror[At[r]] = [status |-> "void", note |-> "held"])' THEN "say" ELSE "over")
     \/ pc[r] = "served" /\ Fails(r, "void", IF mirror[At[r]] = [status |-> "void", note |-> "held"] THEN "say" ELSE "over")
     \/ pc[r] = "say" /\ Write(r, "renoteVoid", "over", "over")
  /\ UNCHANGED <<gate, claimer, served, booked, refund, exposed>>

\* The handler fails, or the buyer leaves before the first byte.
NotServed(r) ==
  /\ pc[r] = "run"
  /\ Goto(r, "unserved")
  /\ UNCHANGED <<db, mirror, journal, gate, claimer, served, booked, refund, ghosts>>

\* Mutant of BookUnserved: a held debt is not opened again.
BookUnservedHeld(r) ==
  /\ \/ pc[r] = "unserved" /\ Write(r, "bookUnserved", "over", "restate")
     \/ pc[r] = "restate" /\ Write(r, "restate", "over", "over")
  /\ UNCHANGED <<gate, claimer, served, booked, refund, exposed>>

\* A new debt; else the owed one restated; else the held one opened again.  The
\* statements of handlerFailed and of hungUp, which differ in the text they note.
BookUnserved(r) ==
  /\ \/ pc[r] = "unserved" /\ Write(r, "bookUnserved", "over", "restate")
     \/ pc[r] = "restate" /\ Write(r, "restate", "over", "reopen")
     \/ pc[r] = "reopen" /\ Write(r, "reopen", "over", "over")
  /\ UNCHANGED <<gate, claimer, served, booked, refund, exposed>>

------------------------------------------------------------------------------
(* The refund run                                                           *)

\* The run and the operator write through some container, unjournaled: such a
\* write lands and is answered, lands unheard, or does not land.
Resolve(p, status, next) ==
  \/ /\ Ahead
     /\ db' = [db EXCEPT !.status = status, !.note = "other"]
     /\ \/ See(p) /\ run' = next
        \/ UNCHANGED mirror /\ run' = "idle"
  \/ UNCHANGED <<db, mirror>> /\ run' = "idle"

\* Mutant of Claimable: a row that is being sent is claimed again.
ClaimableSending == db.status \in {"owed", "sending"} /\ db.mark # "void"

\* The row is owed, whatever it was when it was listed, and no mark says it
\* was served.
Claimable == db.status = "owed" /\ db.mark # "void"

\* claimRefundForSend.
ClaimForSend(p) ==
  /\ Refunds /\ run = "idle" /\ Claimable
  /\ Resolve(p, "sending", "send")
  /\ UNCHANGED <<journal, requests, sends, ghosts>>

\* The transfer is broadcast; or it failed, before or with nobody knowing.
Send ==
  /\ run = "send"
  /\ \/ sends' = sends + 1 /\ run' \in {"paid", "idle"}
     \/ sends' = sends /\ run' \in {"release", "idle"}
  /\ UNCHANGED <<db, mirror, journal, requests, ghosts>>

\* markRefundPaid.
Paid(p) ==
  /\ run = "paid" /\ db.status \in {"owed", "sending"}
  /\ Resolve(p, "paid", "idle")
  /\ UNCHANGED <<journal, requests, sends, ghosts>>

\* releaseStuckSend, by the run.
Release(p) ==
  /\ run = "release" /\ db.status = "sending"
  /\ Resolve(p, "owed", "idle")
  /\ UNCHANGED <<journal, requests, sends, ghosts>>

\* A person looks on the chain what became of a row stuck in sending.
ByHand(p) ==
  /\ run = "idle" /\ db.status = "sending"
  /\ Resolve(p, IF sends > 0 THEN "paid" ELSE "owed", "idle")
  /\ UNCHANGED <<journal, requests, sends, ghosts>>

Crash(p) ==
  /\ Crashes
  /\ pc' = [r \in Requests |-> IF At[r] = p /\ pc[r] # "idle" THEN "over" ELSE pc[r]]
  /\ gate' = IF gate = "held" /\ \E r \in Requests : At[r] = p /\ pc[r] = "gate" THEN "free" ELSE gate
  /\ lost' = (lost \/ \E r \in Requests : At[r] = p /\ pc[r] \notin {"idle", "gate", "over"})
  /\ UNCHANGED db /\ See(p)
  /\ UNCHANGED <<journal, claimer, served, booked, refund, exposed>>

------------------------------------------------------------------------------

Books(r) == BookRefused(r) \/ BookUnclaimed(r) \/ BookUnserved(r) \/ RecordServed(r)

Next ==
  \/ \E r \in Requests :
       \/ Present(r) \/ RefuseInput(r) \/ ClaimDisallowed(r) \/ Finalize(r)
       \/ ClaimForServe(r) \/ Serve(r) \/ NotServed(r) \/ Books(r)
  \/ \E p \in Procs :
       \/ Replay(p) \/ Refresh(p) \/ Crash(p)
       \/ ClaimForSend(p) \/ Paid(p) \/ Release(p) \/ ByHand(p)
  \/ Send

Spec == Init /\ [][Next]_vars

------------------------------------------------------------------------------
(* Properties                                                               *)

\* "a double refund costs money twice" (refund-ledger.js): whatever fails,
\* crashes, is released or resolved by hand, the transfer is refunded once.
SentOnce == sends <= 1

\* "Never both served and refunded" (tempo-push-debts.js), unless the claim
\* could not void the debt: its write or the read of the row failed, or a
\* refusal was still to be booked.
ServedNotRefunded == served # {} /\ sends > 0 => exposed

\* The mark of a served run outlives every booking that lands later: no such
\* debt is ever claimed for sending.
VoidIsFinal ==
  [][db.mark = "void" =>
       db'.mark = "void" /\ (db'.status = "sending" => db.status = "sending")]_vars

\* Nothing is left to be written for a transfer that was refused or claimed,
\* and not served.
Undelivered ==
  /\ journal = <<>> /\ \A r \in Requests : pc[r] \in {"idle", "over"}
  /\ served = {} /\ (booked \/ claimer # NoRequest)

Stands == db.status \in {"owed", "sending", "paid"}

\* Its debt then stands, whichever writes failed and however the journal and
\* the requests took turns, unless a crash or a late hold lost it.
DebtStands == Undelivered /\ ~lost => Stands

==============================================================================
