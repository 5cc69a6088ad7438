---------------------------- MODULE HumanCheckout ----------------------------
(***************************************************************************)
(* One paid checkout session of the human front door                       *)
(* (src/src/human-checkout.js, with the state database), driven by the     *)
(* polls of several containers.                                            *)
(*                                                                         *)
(* The session is one row: a "generating" claim, a delivered report, or an *)
(* error whose refund is owed or recorded.  A container claims the row,    *)
(* generates, and writes the final record under its claim; it beats while  *)
(* its job runs.  A claim silent for the stale window is taken over: once  *)
(* to generate again, then to refund.  A final record the database did not *)
(* take is kept in a journal (Redis, or the container's disk) and replayed.*)
(*                                                                         *)
(* Every takeover writes one more than the takeovers it saw, so a claim is *)
(* known by its place in that sequence: claim n carries takeovers = n - 1. *)
(* A container runs one poll or job for the session at a time (inFlight);  *)
(* two polls that both reach Stripe are told apart by nothing the row or   *)
(* the idempotent refund would notice.                                     *)
(***************************************************************************)
EXTENDS Naturals, FiniteSets

CONSTANTS
  Boxes,        \* the containers
  Journals,     \* where a record the database refused may go: "redis", "disk"
  MaxTakeovers, \* claims generated again after an abandonment
  ClaimCap,     \* bound: no fault happens under the last claim
  LostReplies,  \* TRUE: a statement may commit and its reply be lost
  Crashes       \* TRUE: a container may crash, with or without its disk

ASSUME CheckoutAssumption ==
  /\ Journals \subseteq {"redis", "disk"}
  /\ MaxTakeovers \in Nat
  /\ ClaimCap \in Nat \ {0}

VARIABLES
  journal,   \* where this behavior's containers keep such a record first
  row,       \* the session's row in the database
  cut,       \* the containers that do not reach the database
  pc,        \* where each container's poll or job is
  seen,      \* the claim a poll found stale (0: no row)
  owned,     \* the claim each container beats and writes its records under (0: none)
  got,       \* Stripe returned a refund to the job
  pending,   \* the final record each container could not write
  redis,     \* the records kept in the shared journal
  disk,      \* the records kept on each container's disk
  refunded,  \* Stripe has refunded the payment
  delivered  \* the claims whose report was answered and delivered

process == <<cut, pc, seen, owned, got, pending>>
kept    == <<redis, disk>>
vars    == <<journal, row, process, kept, refunded, delivered>>

\* A final record, made under a claim: a report, an owed or a recorded refund.
Finals == [status : {"done", "owed", "refunded"}, n : Nat]
NoRec  == [status |-> "none", n |-> 0]

Places == {"idle", "journal", "claim", "generate", "report", "owe", "refund", "record", "keep"}

\* The row's final states are those of a record; fresh: a sign of life within
\* the stale window; made: marked generatedAt.
TypeOK ==
  /\ journal \in Journals
  /\ row \in [status : {"none", "generating", "done", "owed", "refunded"}, n : Nat,
              fresh : BOOLEAN, made : BOOLEAN]
  /\ cut \subseteq Boxes
  /\ pc \in [Boxes -> Places]
  /\ seen \in [Boxes -> Nat]
  /\ owned \in [Boxes -> Nat]
  /\ got \in [Boxes -> BOOLEAN]
  /\ pending \in [Boxes -> Finals \cup {NoRec}]
  /\ redis \subseteq Finals
  /\ disk \in [Boxes -> SUBSET Finals]
  /\ refunded \in BOOLEAN
  /\ delivered \subseteq Nat

Init ==
  /\ journal \in Journals
  /\ row = [status |-> "none", n |-> 0, fresh |-> FALSE, made |-> FALSE]
  /\ cut = {}
  /\ pc = [p \in Boxes |-> "idle"]
  /\ seen = [p \in Boxes |-> 0]
  /\ owned = [p \in Boxes |-> 0]
  /\ got = [p \in Boxes |-> FALSE]
  /\ pending = [p \in Boxes |-> NoRec]
  /\ redis = {} /\ disk = [p \in Boxes |-> {}]
  /\ refunded = FALSE
  /\ delivered = {}

Goto(p, place) == pc' = [pc EXCEPT ![p] = place]

\* A poll or job that is over keeps nothing of what it saw.
Forget(p) == seen' = [seen EXCEPT ![p] = 0] /\ got' = [got EXCEPT ![p] = FALSE]

Reaches(p) == p \notin cut

\* Faults stop under the last claim.
Faulty == row.n < ClaimCap

------------------------------------------------------------------------------
(* The statements                                                           *)

\* pgPutFinal: a record replaces a claim of its writer (any, for a writer with
\* no claim) or an error whose refund is not recorded, by another error.
Replaces(rec, claim) ==
  \/ row.status = "none"
  \/ row.status = "generating" /\ claim \in {0, row.n}
  \/ row.status = "owed" /\ rec.status # "done"

PutFinal(rec, claim) ==
  row' = IF Replaces(rec, claim)
         THEN [status |-> rec.status, n |-> rec.n, fresh |-> FALSE, made |-> FALSE]
         ELSE row

\* The row holds this very record: its first write landed, its reply was lost.
Holds(rec) == row.status = rec.status /\ row.n = rec.n

\* landFinal, answered: the claim is let go; an owed record that landed is
\* refunded next, one the row refused is not.
Lands(p, rec, next) ==
  /\ Reaches(p)
  /\ PutFinal(rec, owned[p])
  /\ owned' = [owned EXCEPT ![p] = 0]
  /\ Goto(p, IF Replaces(rec, owned[p]) THEN next ELSE "idle")
  /\ Forget(p)
  /\ UNCHANGED <<journal, cut, pending, kept, refunded>>

\* landFinal, failed: the database is away, or took the record and did not say
\* so.  The record waits here and goes to a journal.
LandFails(p, rec) ==
  /\ \/ ~Reaches(p) /\ UNCHANGED row
     \/ Reaches(p) /\ LostReplies /\ Faulty /\ PutFinal(rec, owned[p])
  /\ pending' = [pending EXCEPT ![p] = rec]
  /\ Goto(p, "keep")
  /\ Forget(p)
  /\ UNCHANGED <<journal, cut, owned, kept, refunded, delivered>>

\* An entry carries the claim its record was made under.
Entry(p) == [pending[p] EXCEPT !.n = owned[p]]

\* Mutant of Keep: a record on the container's disk is answered at once.
KeepAnswered(p) ==
  /\ pc[p] = "keep"
  /\ disk' = [disk EXCEPT ![p] = @ \cup {Entry(p)}]
  /\ UNCHANGED redis
  /\ delivered' = delivered \cup (IF pending[p].status = "done" THEN {pending[p].n} ELSE {})
  /\ Goto(p, "idle")
  /\ UNCHANGED <<journal, row, cut, seen, owned, got, pending, refunded>>

\* addAsync: in Redis the record is answered and delivered at once; on disk it
\* waits for the replay that books it.
Keep(p) ==
  /\ pc[p] = "keep"
  /\ \/ /\ journal = "redis"
        /\ redis' = redis \cup {Entry(p)}
        /\ delivered' = delivered \cup (IF pending[p].status = "done" THEN {pending[p].n} ELSE {})
        /\ UNCHANGED disk
     \/ /\ journal = "disk"
        /\ disk' = [disk EXCEPT ![p] = @ \cup {Entry(p)}]
        /\ UNCHANGED <<redis, delivered>>
  /\ Goto(p, "idle")
  /\ UNCHANGED <<journal, row, cut, seen, owned, got, pending, refunded>>

------------------------------------------------------------------------------
(* fulfill: a poll reads the row and, when there is nothing to answer,       *)
(* claims the session.                                                      *)

\* A container whose own record waits answers from that, or "generating".
Look(p) ==
  /\ pc[p] = "idle" /\ Reaches(p) /\ pending[p] = NoRec
  /\ \/ row.status = "none" /\ Goto(p, "claim")
     \/ row.status = "generating" /\ ~row.fresh /\ Goto(p, "journal")
     \/ row.status = "owed" /\ Goto(p, "refund")
  /\ seen' = [seen EXCEPT ![p] = IF row.status = "generating" THEN row.n ELSE 0]
  /\ UNCHANGED <<journal, row, cut, owned, got, pending, kept, refunded, delivered>>

\* The entries of the journals made under the claim that looks stale.
Mine(p) == { e \in redis \cup disk[p] : e.n \in {0, seen[p]} }

\* Before a takeover, a record for this claim in a journal is booked.
CheckJournal(p) ==
  /\ pc[p] = "journal" /\ Reaches(p)
  /\ \/ /\ Mine(p) = {}
        /\ Goto(p, "claim")
        /\ UNCHANGED <<row, seen, got, delivered>>
     \/ \E e \in Mine(p) :
          /\ PutFinal(e, e.n)
          /\ delivered' = delivered \cup
               (IF e.status = "done" /\ e \notin redis /\ (Replaces(e, e.n) \/ Holds(e))
                THEN {e.n} ELSE {})
          /\ Goto(p, "idle")
          /\ Forget(p)
  /\ UNCHANGED <<journal, cut, owned, pending, kept, refunded>>

\* The journal or the database cannot be read: the claim is left alone.
PollEnds(p) ==
  /\ \/ pc[p] = "journal"
     \/ pc[p] = "claim" /\ ~Reaches(p)
  /\ Goto(p, "idle")
  /\ Forget(p)
  /\ UNCHANGED <<journal, row, cut, owned, pending, kept, refunded, delivered>>

\* pgClaim: no row, or the stale claim the poll saw, silent still.
Claimable(p) ==
  \/ row.status = "none" /\ seen[p] = 0
  \/ row.status = "generating" /\ row.n = seen[p] /\ seen[p] # 0 /\ ~row.fresh

ClaimRow ==
  row' = [status |-> "generating", n |-> row.n + 1, fresh |-> TRUE, made |-> FALSE]

\* A claim abandoned too often is taken to be refunded, unless it says its
\* report was made.
Claim(p) ==
  /\ pc[p] = "claim" /\ Reaches(p)
  /\ IF Claimable(p)
     THEN /\ ClaimRow
          /\ owned' = [owned EXCEPT ![p] = row.n + 1]
          /\ Goto(p, IF row.n > MaxTakeovers /\ ~row.made THEN "owe" ELSE "generate")
     ELSE Goto(p, "idle") /\ UNCHANGED <<row, owned>>
  /\ Forget(p)
  /\ UNCHANGED <<journal, cut, pending, kept, refunded, delivered>>

\* The claim landed and its reply was lost: nobody owns it.
ClaimLost(p) ==
  /\ pc[p] = "claim" /\ Reaches(p)
  /\ LostReplies /\ row.n + 1 < ClaimCap
  /\ Claimable(p)
  /\ ClaimRow
  /\ Goto(p, "idle")
  /\ Forget(p)
  /\ UNCHANGED <<journal, cut, owned, pending, kept, refunded, delivered>>

------------------------------------------------------------------------------
(* The job                                                                  *)

\* Mutant of JobStops: the claim is beaten after its job ended.
JobStopsBeating(p) ==
  /\ pc[p] = "generate" /\ ~Reaches(p)
  /\ Goto(p, "idle")
  /\ UNCHANGED <<journal, row, cut, seen, owned, got, pending, kept, refunded, delivered>>

\* A read the job needs before it generates failed.
JobStops(p) ==
  /\ pc[p] = "generate" /\ ~Reaches(p)
  /\ owned' = [owned EXCEPT ![p] = 0]
  /\ Goto(p, "idle")
  /\ UNCHANGED <<journal, row, cut, seen, got, pending, kept, refunded, delivered>>

\* The report is made, or it failed (or the buyer has failed too often).
Generate(p) ==
  /\ pc[p] = "generate"
  /\ \/ Goto(p, "report")
     \/ Goto(p, "owe")
  /\ UNCHANGED <<journal, row, cut, seen, owned, got, pending, kept, refunded, delivered>>

Report(p) == [status |-> "done", n |-> owned[p]]
Owed(p)   == [status |-> "owed", n |-> owned[p]]
\* The refund recorded, or still owed.
Outcome(p) == [status |-> IF got[p] THEN "refunded" ELSE "owed", n |-> owned[p]]

\* A report that landed is delivered; one the row refused is not.
LandReport(p) ==
  /\ pc[p] = "report"
  /\ Lands(p, Report(p), "idle")
  /\ delivered' = delivered \cup (IF Replaces(Report(p), owned[p]) THEN {owned[p]} ELSE {})

\* Mutant of LandOwed: the refund is issued on the strength of a refused record.
LandOwedAnyhow(p) ==
  /\ pc[p] = "owe" /\ Reaches(p)
  /\ PutFinal(Owed(p), owned[p])
  /\ owned' = [owned EXCEPT ![p] = 0]
  /\ Goto(p, "refund")
  /\ Forget(p)
  /\ UNCHANGED <<journal, cut, pending, kept, refunded, delivered>>

\* The owed record lands before the refund is issued.
LandOwed(p) == pc[p] = "owe" /\ Lands(p, Owed(p), "refund") /\ UNCHANGED delivered

\* Stripe refunds the payment, once (the call carries a key of its own), or
\* fails; it may have refunded and failed to say so.
Refund(p) ==
  /\ pc[p] = "refund"
  /\ \E ok \in BOOLEAN, made \in BOOLEAN :
       /\ ok => made
       /\ refunded' = (refunded \/ made)
       /\ got' = [got EXCEPT ![p] = ok]
  /\ Goto(p, "record")
  /\ UNCHANGED <<journal, row, cut, seen, owned, pending, kept, delivered>>

LandOutcome(p) == pc[p] = "record" /\ Lands(p, Outcome(p), "idle") /\ UNCHANGED delivered

ReportFails(p)  == pc[p] = "report" /\ LandFails(p, Report(p))
OwedFails(p)    == pc[p] = "owe" /\ LandFails(p, Owed(p))
OutcomeFails(p) == pc[p] = "record" /\ LandFails(p, Outcome(p))

------------------------------------------------------------------------------
(* Timers: the replay of the journals and the heartbeat.                    *)

\* bookJournaled, for an entry of the shared journal or of the own disk.  The
\* entry goes once its write committed; a removal or a reply that is lost
\* leaves it to be replayed.
Replay(p, e) ==
  /\ Reaches(p) /\ e \in redis \cup disk[p] /\ pc[p] # "keep"
  /\ PutFinal(e, e.n)
  /\ LET booked == Replaces(e, e.n) \/ Holds(e)
     IN \/ /\ delivered' = delivered \cup
                (IF e.status = "done" /\ booked /\ e \notin redis THEN {e.n} ELSE {})
           /\ IF pending[p] = NoRec
              THEN UNCHANGED <<pending, owned>>
              ELSE pending' = [pending EXCEPT ![p] = NoRec] /\ owned' = [owned EXCEPT ![p] = 0]
           /\ redis' = redis \ {e}
           /\ disk' = [disk EXCEPT ![p] = @ \ {e}]
        \/ LostReplies /\ row' # row /\ UNCHANGED <<delivered, pending, owned, kept>>
  /\ UNCHANGED <<journal, cut, pc, seen, got, refunded>>

\* A container that still owns the claim on the row refreshes it, and says so
\* when the report it made has not landed.
Beat(p) ==
  /\ Reaches(p) /\ row.status = "generating" /\ owned[p] = row.n
  /\ row' = [row EXCEPT !.fresh = TRUE, !.made = @ \/ pending[p].status = "done"]
  /\ row' # row
  /\ UNCHANGED <<journal, process, kept, refunded, delivered>>

\* The stale window passes without a beat; keeping a record takes seconds.
Silence ==
  /\ row.status = "generating" /\ row.fresh
  /\ \A p \in Boxes : pc[p] # "keep"
  /\ \A p \in Boxes : owned[p] = row.n => ~Reaches(p)
  /\ row' = [row EXCEPT !.fresh = FALSE]
  /\ UNCHANGED <<journal, process, kept, refunded, delivered>>

------------------------------------------------------------------------------
(* Faults                                                                   *)

Cut(p) ==
  /\ Reaches(p) /\ Faulty
  /\ cut' = cut \cup {p}
  /\ UNCHANGED <<journal, row, pc, seen, owned, got, pending, kept, refunded, delivered>>

Mend(p) ==
  /\ p \in cut
  /\ cut' = cut \ {p}
  /\ UNCHANGED <<journal, row, pc, seen, owned, got, pending, kept, refunded, delivered>>

\* The container restarts, on its disk or as a new one.
Crash(p) ==
  /\ Crashes /\ Faulty
  /\ Goto(p, "idle")
  /\ owned' = [owned EXCEPT ![p] = 0]
  /\ pending' = [pending EXCEPT ![p] = NoRec]
  /\ disk' \in {disk, [disk EXCEPT ![p] = {}]}
  /\ Forget(p)
  /\ UNCHANGED <<journal, row, cut, redis, refunded, delivered>>

------------------------------------------------------------------------------

Step(p) ==
  \/ Look(p) \/ CheckJournal(p) \/ Claim(p)
  \/ Generate(p) \/ LandReport(p) \/ LandOwed(p) \/ Refund(p) \/ LandOutcome(p)
  \/ ReportFails(p) \/ OwedFails(p) \/ OutcomeFails(p) \/ Keep(p)

Next ==
  \/ \E p \in Boxes : \/ Step(p) \/ PollEnds(p) \/ ClaimLost(p) \/ JobStops(p) \/ Beat(p)
                      \/ Cut(p) \/ Mend(p) \/ Crash(p)
                      \/ \E e \in redis \cup disk[p] : Replay(p, e)
  \/ Silence

Spec == Init /\ [][Next]_vars

\* The buyer's page polls, jobs go on, timers fire; the database and the
\* journal come back, and a poll meets them often enough while they are there.
FairSpec ==
  /\ Spec
  /\ \A p \in Boxes :
       /\ WF_vars(Step(p)) /\ WF_vars(Beat(p)) /\ WF_vars(Mend(p))
       /\ SF_vars(Look(p)) /\ SF_vars(CheckJournal(p)) /\ SF_vars(Claim(p))
       /\ SF_vars(\E e \in redis \cup disk[p] : Replay(p, e))
  /\ WF_vars(Silence)

------------------------------------------------------------------------------
(* Properties                                                               *)

\* "a refund is never issued that no record names" (human-checkout.js): where
\* the payment was refunded, the row says owed or refunded, whatever crashed,
\* was taken over or was replayed.
RefundIsRecorded == refunded => row.status \in {"owed", "refunded"}

\* ONE OUTCOME PER PURCHASE, with the journal on the containers' disks: the
\* report the buyer was answered is the one the row keeps.
DeliveredIsKept ==
  journal = "disk" => \A n \in delivered : row.status = "done" /\ row.n = n

\* The same with the shared journal: no purchase is delivered and refunded.
OneOutcome == ~(refunded /\ delivered # {})

\* A paid session does not stay "generating": it ends as a report or an error.
PaidEnds == <>(row.status \in {"done", "owed", "refunded"})

==============================================================================
