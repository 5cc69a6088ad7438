--------------------------- MODULE SettlementClaims ---------------------------
(***************************************************************************)
(* One signed EVM authorization, the requests that carry it, and who may   *)
(* answer for it (src/src/settlement-claims.js, settle-onchain-proof.js,   *)
(* late-settlements.js and their hooks in payments.js).                    *)
(*                                                                         *)
(* A request whose handler is done claims the authorization's nonce, asks  *)
(* a facilitator to settle, and is answered if it settled; a settlement    *)
(* that failed may be recovered from the chain, once the request owns its  *)
(* transaction.  A failure that names a transaction is booked, and the     *)
(* book owes the buyer what landed for a call that was not answered.  An   *)
(* entry that is too old, or that too many passes failed on, is left to    *)
(* the operator.                                                           *)
(*                                                                         *)
(* A claim is a SET NX in Redis with a copy in the process; where Redis    *)
(* does not answer a command, the process's own copy decides.  A claim in  *)
(* flight outlives its request; one that settled, or may yet, outlives the *)
(* authorization.  One transaction moves the money: the nonce is used once.*)
(*                                                                         *)
(* Assumed of the outside: a facilitator's success is of the transaction   *)
(* this very request had broadcast, and a fallback's may be of another's   *)
(* (a cached result).  What proves a transfer to be the request's own, its *)
(* time among others, is left to choice.                                   *)
(***************************************************************************)
EXTENDS FiniteSets, Naturals

CONSTANTS
  Requests,    \* the requests that carry the authorization
  Procs,       \* the processes
  At,          \* the process each request reaches
  NoOne,       \* nobody
  Late,        \* the book, as a holder of the transaction's claim
  MaxFailures, \* bound: claim commands that fail
  Crashes,     \* TRUE: processes may crash
  PassesFail   \* TRUE: a pass of the book may fail to read the chain, or to record the debt

ASSUME SettlementAssumption ==
  /\ At \in [Requests -> Procs]
  /\ NoOne \notin Requests /\ Late \notin Requests /\ NoOne # Late
  /\ MaxFailures \in Nat

VARIABLES
  redis,     \* the holder of each key in Redis
  local,     \* the holder of each key in each process's copy
  longR,     \* the nonce's claim in Redis was made long
  longL,     \* the processes whose copy of it was
  pc,        \* where each request is
  sent,      \* the requests whose claim or extension has a write to send or on its way
  submitted, \* the requests a transaction was broadcast for
  landed,    \* the request whose transaction moved the money
  expired,   \* the authorization can no longer move it
  served,    \* the requests answered 200
  sale,      \* the transaction is a recorded sale
  booked,    \* the requests whose failed settlement is in the book
  unresolved, \* those of them that no pass looks at any more
  owing,     \* the entry a pass of the book is about to record as owed
  owed,      \* the refund ledger, or its journal, owes the transaction
  failures,  \* claim commands that failed
  failed,    \* the keys they were about
  recovered, \* the requests answered for a recovered settlement
  lost       \* a request crashed between its claim of the transaction and its answer

claims == <<redis, local, longR, longL>>
chain  == <<submitted, landed, expired>>
book   == <<booked, unresolved, owing, owed>>
faults == <<failures, failed>>
vars   == <<claims, pc, sent, chain, served, sale, book, faults, recovered, lost>>

Keys    == {"nonce", "tx"}
Holders == Requests \cup {Late, NoOne}

\* The claims a request makes, in the order in which it may make them, with
\* what follows each.
Claiming ==
  [claim     |-> [key |-> "nonce", won |-> "ask",       lost |-> "over"],
   reclaim   |-> [key |-> "nonce", won |-> "prove",     lost |-> "release"],
   take      |-> [key |-> "tx",    won |-> "recovered", lost |-> "release"],
   takeNamed |-> [key |-> "tx",    won |-> "recovered", lost |-> "named"],
   note      |-> [key |-> "tx",    won |-> "answer",    lost |-> "answer"]]

\* The extensions of its nonce claim, with what follows each.
Extending == [settled |-> "note", recovered |-> "answerR", named |-> "book"]

Places == DOMAIN Claiming \cup DOMAIN Extending \cup
          {"idle", "ask", "asked", "prove", "release", "book", "answer", "answerR", "sale", "over"}

TypeOK ==
  /\ redis \in [Keys -> Holders] /\ local \in [Procs -> [Keys -> Holders]]
  /\ longR \in BOOLEAN /\ longL \subseteq Procs
  /\ pc \in [Requests -> Places]
  /\ sent \subseteq Requests /\ submitted \subseteq Requests
  /\ landed \in Requests \cup {NoOne}
  /\ expired \in BOOLEAN /\ sale \in BOOLEAN /\ owed \in BOOLEAN
  /\ served \subseteq Requests /\ booked \subseteq Requests /\ unresolved \subseteq Requests
  /\ owing \in Requests \cup {NoOne}
  /\ failures \in 0 .. MaxFailures /\ failed \subseteq Keys
  /\ recovered \subseteq Requests /\ lost \in BOOLEAN

Init ==
  /\ redis = [k \in Keys |-> NoOne] /\ local = [p \in Procs |-> redis]
  /\ longR = FALSE /\ longL = {}
  /\ pc = [r \in Requests |-> "idle"]
  /\ sent = {} /\ submitted = {} /\ landed = NoOne /\ expired = FALSE
  /\ served = {} /\ sale = FALSE
  /\ booked = {} /\ unresolved = {} /\ owing = NoOne /\ owed = FALSE
  /\ failures = 0 /\ failed = {} /\ recovered = {} /\ lost = FALSE

Goto(r, place) == pc' = [pc EXCEPT ![r] = place]

Here(r, k) == local[At[r]][k]

------------------------------------------------------------------------------
(* The claims                                                               *)

\* Mutant of SetNX: a plain SET.
SetAnyway(k, h) == [redis EXCEPT ![k] = h]

\* SET NX of a key in Redis.
SetNX(k, h) == [redis EXCEPT ![k] = IF @ = NoOne THEN h ELSE @]

Fail(k) ==
  /\ failures < MaxFailures
  /\ failures' = failures + 1
  /\ failed' = failed \cup {k}

\* localSet, with the short life of a claim in flight.
Copy(p, k, h) ==
  /\ local' = [local EXCEPT ![p][k] = h]
  /\ longL' = IF k = "nonce" THEN longL \ {p} ELSE longL

\* What the SET NX wrote in Redis is as long as it asked for.
Fresh(k, long) == longR' = IF k = "nonce" /\ redis[k] = NoOne THEN long ELSE longR

\* claimSettlementKey: another holder in this process refuses the claim, and is
\* written to Redis for the life it has left; nobody looks whether that failed.
RefusedHere(r) ==
  /\ pc[r] \in DOMAIN Claiming /\ r \notin sent
  /\ LET step == Claiming[pc[r]]
         k    == step.key
     IN /\ Here(r, k) \notin {NoOne, r}
        /\ \/ UNCHANGED <<redis, longR>>
           \/ redis' = SetNX(k, Here(r, k)) /\ Fresh(k, At[r] \in longL)
        /\ Goto(r, step.lost)
  /\ UNCHANGED <<local, longL, sent, chain, served, sale, book, faults, recovered, lost>>

\* The claim is the request's own here, or nobody's: the SET NX is sent.
SendClaim(r) ==
  /\ pc[r] \in DOMAIN Claiming /\ r \notin sent
  /\ Here(r, Claiming[pc[r]].key) \in {NoOne, r}
  /\ sent' = sent \cup {r}
  /\ UNCHANGED <<claims, pc, chain, served, sale, book, faults, recovered, lost>>

\* Redis answers: the key is this request's, new or already, or another's.
ClaimAnswered(r) ==
  /\ pc[r] \in DOMAIN Claiming /\ r \in sent
  /\ LET step == Claiming[pc[r]]
         k    == step.key
     IN /\ redis' = SetNX(k, r)
        /\ Fresh(k, FALSE)
        /\ IF redis[k] = NoOne THEN Copy(At[r], k, r) ELSE UNCHANGED <<local, longL>>
        /\ Goto(r, IF redis'[k] = r THEN step.won ELSE step.lost)
  /\ sent' = sent \ {r}
  /\ UNCHANGED <<chain, served, sale, book, faults, recovered, lost>>

\* Redis does not answer (the SET NX, or the GET after it), and may have done
\* it: the same claim is made in this process.
ClaimUnanswered(r) ==
  /\ pc[r] \in DOMAIN Claiming /\ r \in sent
  /\ LET step == Claiming[pc[r]]
         k    == step.key
     IN /\ Fail(k)
        /\ \/ UNCHANGED <<redis, longR>>
           \/ redis[k] = NoOne /\ redis' = SetNX(k, r) /\ Fresh(k, FALSE)
        /\ IF Here(r, k) = NoOne THEN Copy(At[r], k, r) ELSE UNCHANGED <<local, longL>>
        /\ Goto(r, IF Here(r, k) \in {NoOne, r} THEN step.won ELSE step.lost)
  /\ sent' = sent \ {r}
  /\ UNCHANGED <<chain, served, sale, book, recovered, lost>>

\* extendSettlementKey, its GET: another holder's key is left alone.
ReadOwner(r) ==
  /\ pc[r] \in DOMAIN Extending /\ r \notin sent
  /\ IF redis["nonce"] \in {NoOne, r}
     THEN sent' = sent \cup {r} /\ UNCHANGED pc
     ELSE Goto(r, Extending[pc[r]]) /\ UNCHANGED sent
  /\ UNCHANGED <<claims, chain, served, sale, book, faults, recovered, lost>>

CopyLong(p, h) == local' = [local EXCEPT ![p]["nonce"] = h] /\ longL' = longL \cup {p}

\* Its SET, whoever holds the key by now.
Extend(r) ==
  /\ pc[r] \in DOMAIN Extending /\ r \in sent
  /\ redis' = [redis EXCEPT !["nonce"] = r] /\ longR' = TRUE
  /\ CopyLong(At[r], r)
  /\ Goto(r, Extending[pc[r]])
  /\ sent' = sent \ {r}
  /\ UNCHANGED <<chain, served, sale, book, faults, recovered, lost>>

\* Either fails: the copy is extended, if it is not another's.
ExtendUnanswered(r) ==
  /\ pc[r] \in DOMAIN Extending
  /\ Fail("nonce")
  /\ \/ UNCHANGED <<redis, longR>>
     \/ r \in sent /\ redis' = [redis EXCEPT !["nonce"] = r] /\ longR' = TRUE
  /\ IF Here(r, "nonce") \in {NoOne, r} THEN CopyLong(At[r], r) ELSE UNCHANGED <<local, longL>>
  /\ Goto(r, Extending[pc[r]])
  /\ sent' = sent \ {r}
  /\ UNCHANGED <<chain, served, sale, book, recovered, lost>>

Freed(r, f) == [f EXCEPT !["nonce"] = IF @ = r THEN NoOne ELSE @]

\* releaseSettlementKey: the own copy, then the key if Redis says it is the own.
Release(r) ==
  /\ pc[r] = "release"
  /\ local' = [local EXCEPT ![At[r]] = Freed(r, @)]
  /\ \/ redis' = Freed(r, redis) /\ UNCHANGED faults
     \/ Fail("nonce") /\ redis' \in {redis, Freed(r, redis)}
  /\ Goto(r, "over")
  /\ UNCHANGED <<longR, longL, sent, chain, served, sale, book, recovered, lost>>

------------------------------------------------------------------------------
(* A request                                                                *)

\* The handler is done, and the authorization is claimed before the settle.
Settle(r) ==
  /\ pc[r] = "idle"
  /\ Goto(r, "claim")
  /\ UNCHANGED <<claims, sent, chain, served, sale, book, faults, recovered, lost>>

\* The facilitator, or a fallback, is asked, and may broadcast.
Ask(r) ==
  /\ pc[r] = "ask"
  /\ submitted' \in {submitted, submitted \cup {r}}
  /\ Goto(r, "asked")
  /\ UNCHANGED <<claims, sent, landed, expired, served, sale, book, faults, recovered, lost>>

\* Its answer.
Hear(r) ==
  /\ pc[r] = "asked"
  /\ \/ landed = r /\ Goto(r, "settled")                       \* settled
     \/ landed # NoOne /\ Goto(r, "reclaim")                   \* "already on chain"
     \/ landed # NoOne /\ Goto(r, "take")                      \* settled by a fallback
     \/ r \in submitted /\ Goto(r, "named")                    \* failed, naming its transaction
     \/ Goto(r, "release")                                     \* failed
  /\ UNCHANGED <<claims, sent, chain, served, sale, book, faults, recovered, lost>>

\* It failed, naming its transaction; the receipt of that was read in time, and
\* it is no sale.
HearPending(r) ==
  /\ pc[r] = "asked" /\ landed = r /\ ~sale
  /\ Goto(r, "takeNamed")
  /\ UNCHANGED <<claims, sent, chain, served, sale, book, faults, recovered, lost>>

\* Mutant of Prove: the chain's proof is enough, its transaction is not claimed.
ProveUnclaimed(r) ==
  /\ pc[r] = "prove"
  /\ \/ ~sale /\ Goto(r, "recovered")
     \/ Goto(r, "release")
  /\ UNCHANGED <<claims, sent, chain, served, sale, book, faults, recovered, lost>>

\* recoverAlreadyOnChain: the chain proves the transfer this request's and no
\* sale, or does not.
Prove(r) ==
  /\ pc[r] = "prove"
  /\ \/ ~sale /\ Goto(r, "take")
     \/ Goto(r, "release")
  /\ UNCHANGED <<claims, sent, chain, served, sale, book, faults, recovered, lost>>

\* The late-settlement hook.
Book(r) ==
  /\ pc[r] = "book"
  /\ booked' = booked \cup {r}
  /\ Goto(r, "over")
  /\ UNCHANGED <<claims, sent, chain, served, sale, unresolved, owing, owed, faults, recovered, lost>>

Answer(r) ==
  /\ pc[r] \in {"answer", "answerR"}
  /\ served' = served \cup {r}
  /\ recovered' = recovered \cup (IF pc[r] = "answerR" THEN {r} ELSE {})
  /\ Goto(r, "sale")
  /\ UNCHANGED <<claims, sent, chain, sale, book, faults, lost>>

RecordSale(r) ==
  /\ pc[r] = "sale"
  /\ sale' = TRUE
  /\ Goto(r, "over")
  /\ UNCHANGED <<claims, sent, chain, served, book, faults, recovered, lost>>

------------------------------------------------------------------------------
(* The chain                                                                *)

Land(r) ==
  /\ r \in submitted /\ landed = NoOne /\ ~expired
  /\ landed' = r
  /\ UNCHANGED <<claims, pc, sent, submitted, expired, served, sale, book, faults, recovered, lost>>

Expire ==
  /\ landed = NoOne /\ ~expired
  /\ expired' = TRUE
  /\ UNCHANGED <<claims, pc, sent, submitted, landed, served, sale, book, faults, recovered, lost>>

------------------------------------------------------------------------------
(* The book: leased passes, in any process                                  *)

\* The entries that passes take.
Pending == booked \ unresolved

\* Reverted, or absent and past its validity: nothing is owed.
Close(e) ==
  /\ e \in Pending /\ landed # e
  /\ landed # NoOne \/ expired
  /\ booked' = booked \ {e}
  /\ UNCHANGED <<claims, pc, sent, chain, served, sale, unresolved, owing, owed, faults, recovered, lost>>

\* wasServed, by its sale.
Sold(e) ==
  /\ e \in Pending /\ landed = e /\ sale /\ owing = NoOne
  /\ booked' = booked \ {e}
  /\ UNCHANGED <<claims, pc, sent, chain, served, sale, unresolved, owing, owed, faults, recovered, lost>>

\* Mutant of Check: only the sale is looked at.
CheckSaleOnly(p, e) ==
  /\ p \in Procs /\ e \in Pending /\ landed = e /\ ~sale /\ owing = NoOne
  /\ owing' = e
  /\ UNCHANGED <<claims, pc, sent, chain, served, sale, booked, unresolved, owed, faults, recovered, lost>>

\* Mutant of Check: a claim the book made before counts as another's.
CheckAnew(p, e) ==
  /\ e \in Pending /\ landed = e /\ owing = NoOne
  /\ IF local[p]["tx"] = NoOne /\ redis["tx"] = NoOne
     THEN /\ redis' = SetNX("tx", Late)
          /\ local' = [local EXCEPT ![p]["tx"] = Late]
          /\ owing' = e /\ UNCHANGED booked
     ELSE booked' = booked \ {e} /\ UNCHANGED <<redis, local, owing>>
  /\ UNCHANGED <<longR, longL, pc, sent, chain, served, sale, unresolved, owed, faults, recovered, lost>>

\* wasServed, by its claim, taken for the book (its sale was not there, or could
\* not be read): another holder's transaction is dropped.
Check(p, e) ==
  /\ e \in Pending /\ landed = e /\ owing = NoOne
  /\ LET holder == IF local[p]["tx"] = NoOne THEN Late ELSE local[p]["tx"]
         Take(wins) ==
           /\ local' = [local EXCEPT ![p]["tx"] = IF wins THEN holder ELSE @]
           /\ IF holder = Late /\ (wins \/ redis'["tx"] = Late)
              THEN owing' = e /\ UNCHANGED booked
              ELSE booked' = booked \ {e} /\ UNCHANGED owing
     IN \/ redis' = SetNX("tx", holder) /\ Take(redis["tx"] = NoOne) /\ UNCHANGED faults
        \/ Fail("tx") /\ redis' \in {redis, SetNX("tx", holder)} /\ Take(TRUE)
  /\ UNCHANGED <<longR, longL, pc, sent, chain, served, sale, unresolved, owed, recovered, lost>>

\* The debt is in the refund ledger; the entry goes.
Owe ==
  /\ owing # NoOne
  /\ owed' = TRUE
  /\ booked' = booked \ {owing}
  /\ owing' = NoOne
  /\ UNCHANGED <<claims, pc, sent, chain, served, sale, unresolved, faults, recovered, lost>>

\* The debt was not read back, or the pass threw before it was written: the
\* entry stays for the next pass.
OweUnseen ==
  /\ PassesFail /\ owing # NoOne
  /\ owed' \in {owed, TRUE}
  /\ owing' = NoOne
  /\ UNCHANGED <<claims, pc, sent, chain, served, sale, booked, unresolved, faults, recovered, lost>>

\* The pass's last look at an entry: its transaction has not landed in MAX_AGE_MS
\* and the authorization is still good, or the chain could not be read for that
\* long, or FAILURE_LIMIT passes threw.
GiveUp(e) ==
  /\ e \in Pending /\ owing \in {NoOne, e}
  /\ PassesFail \/ (landed # e /\ ~expired)
  /\ unresolved' = unresolved \cup {e}
  /\ owing' = NoOne
  /\ UNCHANGED <<claims, pc, sent, chain, served, sale, booked, owed, faults, recovered, lost>>

------------------------------------------------------------------------------
(* Time and crashes                                                         *)

\* A claim in flight that nobody extended lapses after its request.
Lapsed(h, isLong) == h # NoOne /\ ~isLong /\ pc[h] = "over"

LapseShared ==
  /\ Lapsed(redis["nonce"], longR)
  /\ redis' = [redis EXCEPT !["nonce"] = NoOne]
  /\ UNCHANGED <<local, longR, longL, pc, sent, chain, served, sale, book, faults, recovered, lost>>

LapseCopy(p) ==
  /\ Lapsed(local[p]["nonce"], p \in longL)
  /\ local' = [local EXCEPT ![p]["nonce"] = NoOne]
  /\ UNCHANGED <<redis, longR, longL, pc, sent, chain, served, sale, book, faults, recovered, lost>>

Working(r) == pc[r] \notin {"idle", "over"}

\* The process restarts; what it claimed in Redis stays.  A pass of the book may
\* have run in it.
Crash(p) ==
  /\ Crashes
  /\ \E r \in Requests : At[r] = p /\ Working(r)
  /\ LET dead == { r \in Requests : At[r] = p /\ Working(r) }
     IN /\ pc' = [r \in Requests |-> IF r \in dead THEN "over" ELSE pc[r]]
        /\ sent' = sent \ dead
        /\ lost' = (lost \/ \E r \in dead : pc[r] \in {"recovered", "answerR"})
  /\ local' = [local EXCEPT ![p] = [k \in Keys |-> NoOne]] /\ longL' = longL \ {p}
  /\ owing' \in {owing, NoOne}
  /\ UNCHANGED <<redis, longR, chain, served, sale, booked, unresolved, owed, faults, recovered>>

------------------------------------------------------------------------------

Step(r) ==
  \/ RefusedHere(r) \/ SendClaim(r) \/ ClaimAnswered(r) \/ ClaimUnanswered(r)
  \/ ReadOwner(r) \/ Extend(r) \/ ExtendUnanswered(r) \/ Release(r)
  \/ Ask(r) \/ Hear(r) \/ HearPending(r) \/ Prove(r) \/ Book(r) \/ Answer(r) \/ RecordSale(r)

Pass(e) == Close(e) \/ Sold(e) \/ \E p \in Procs : Check(p, e)

Next ==
  \/ \E r \in Requests : Settle(r) \/ Step(r) \/ Land(r) \/ Pass(r) \/ GiveUp(r)
  \/ \E p \in Procs : LapseCopy(p) \/ Crash(p)
  \/ Expire \/ LapseShared \/ Owe \/ OweUnseen

Spec == Init /\ [][Next]_vars

\* Requests go on and passes recur until an entry is given up; not every one of
\* them crashes, and a debt that passes record again and again is read back.
FairSpec ==
  /\ Spec
  /\ \A r \in Requests : WF_vars(Step(r)) /\ WF_vars(Pass(r))
  /\ SF_vars(Owe)

------------------------------------------------------------------------------
(* Properties                                                               *)

\* One authorization, one answer: however its copies are spread over processes,
\* retried, crashed and recovered from the chain, at most one of them is answered
\* 200, unless Redis did not answer a command about the nonce, when a process's
\* own copy decides and another process knows nothing of it.
\* (The header of settlement-claims.js: one signed authorization, one answer.)
AnsweredOnce == Cardinality(served) <= 1 \/ "nonce" \in failed

\* Even when the claims of the nonce fail, one transaction is the recovered
\* settlement of one request only: the claim of the transaction stands behind
\* them, unless Redis failed there too.
RecoveredOnce == Cardinality(recovered) <= 1 \/ "tx" \in failed

\* A transaction that a pass of the book records as owed answers no request,
\* before or after: the book takes the claim a recovery would need, and sees the
\* one a recovery took.
OwedNotServed == owed => served = {} \/ "tx" \in failed

\* A booked transaction that lands is owed to its buyer or has answered a
\* request in the end, whatever crashes, unless its entry was given up and waits
\* for the operator, or the request that took the transaction crashed before
\* its answer.
NamedSettles ==
  \A r \in Requests :
    r \in booked /\ landed = r ~> owed \/ served # {} \/ r \in unresolved \/ lost

==============================================================================
