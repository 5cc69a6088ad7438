---------------------------- MODULE CreditsClaim ----------------------------
(***************************************************************************)
(* Turning a paid Stripe Checkout session into a credits key               *)
(* (src/src/credits.js, claim and issue, on the state database).           *)
(*                                                                         *)
(* A session may be claimed several times at once: by the thanks page, by  *)
(* its reload, by the webhook, on any server process.  One claim decides   *)
(* it: it mints a key, or it refuses the purchase and refunds it.  Claims  *)
(* of one buyer are serialized by a chain inside each process and, with    *)
(* the shared store, by one Redis lock per buyer key; a lock that is not   *)
(* obtained, or that expires under a slow claim, stops nothing.  Everything*)
(* a claim reads it reads before a later await, so every read and every    *)
(* write is a step of its own.                                             *)
(***************************************************************************)
EXTENDS Totals, Sequences

CONSTANTS
  Sessions,    \* paid checkout sessions
  Claims,      \* claim attempts
  Servers,     \* server processes
  SessionOf,   \* the session each claim is for
  ServerOf,    \* the process each claim runs on
  Email, Card, \* the buyer of each session
  Pack,        \* what each session paid
  DailyMax,    \* creditsDailyMaxCents: what one buyer may be issued in a day
  NoTaxId,     \* the sessions billed in the EU or UK with no tax ID
  RefundedBefore, \* the sessions whose payment may be back before any claim
  SharedStore, \* TRUE: the buyer locks are shared through Redis
  CardReadFails, \* TRUE: reading the payment's card may fail
  StripeFails, \* TRUE: a refund call, or the write of its outcome, may fail
  Crashes,     \* TRUE: a process may crash
  NoClaim      \* the holder of a free lock

ASSUME ClaimAssumption ==
  /\ SessionOf \in [Claims -> Sessions]
  /\ ServerOf \in [Claims -> Servers]
  /\ Pack \in [Sessions -> Nat \ {0}]
  /\ NoTaxId \subseteq Sessions
  /\ NoClaim \notin Claims
  /\ IsFiniteSet(Claims)
  /\ DailyMax \in Nat

ASSUME RefundAssumption == RefundedBefore \subseteq Sessions

VARIABLES
  outcome,   \* the session's entry in the claim index
  rows,      \* the key records, each named by the claim that wrote it
  issued,    \* the claims whose key the index carries
  returned,  \* the sessions whose payment Stripe has refunded in full
  refunds,   \* how many refunds this code made of each session
  pc,        \* where each claim is
  cardKnown, \* whether the claim could read the card
  sawBack,   \* whether buyerOf saw the payment refunded in full
  chain,     \* buyerChains: per process, the claims waiting and running, in order
  lock,      \* the Redis lock of each buyer key
  unguarded  \* the claims that decide, or decided, without their locks

store  == <<outcome, rows, issued>>
stripe == <<returned, refunds>>
seen   == <<cardKnown, sawBack>>
locks  == <<chain, lock, unguarded>>
vars   == <<store, stripe, pc, seen, locks>>

Outcomes == {"none", "minted", "pending", "refunded", "failed"}

Places == {"idle", "buyer", "chain", "lock", "lockEmail", "recheck", "decide", "insert", "index",
           "orphan", "refuse", "refuseRefunded", "refund", "recordYes", "recordNo",
           "unlock", "done", "dead"}

Keys == { Email[s] : s \in Sessions } \cup { Card[s] : s \in Sessions }

TypeOK ==
  /\ outcome \in [Sessions -> Outcomes]
  /\ rows \subseteq Claims /\ issued \subseteq Claims
  /\ returned \subseteq Sessions
  /\ refunds \in [Sessions -> Nat]
  /\ pc \in [Claims -> Places]
  /\ cardKnown \in [Claims -> BOOLEAN] /\ sawBack \in [Claims -> BOOLEAN]
  /\ chain \in [Servers -> Seq(Claims)]
  /\ lock \in [Keys -> Claims \cup {NoClaim}]
  /\ unguarded \subseteq Claims

Init ==
  /\ outcome = [s \in Sessions |-> "none"]
  /\ rows = {} /\ issued = {}
  /\ returned \in SUBSET RefundedBefore
  /\ refunds = [s \in Sessions |-> 0]
  /\ pc = [cl \in Claims |-> "idle"]
  /\ cardKnown = [cl \in Claims |-> FALSE] /\ sawBack = [cl \in Claims |-> FALSE]
  /\ chain = [p \in Servers |-> <<>>]
  /\ lock = [k \in Keys |-> NoClaim]
  /\ unguarded = {}

------------------------------------------------------------------------------

\* withBuyerLock's keys: the card sorts before the email.
KeysOf(cl) == (IF cardKnown[cl] THEN {Card[SessionOf[cl]]} ELSE {}) \cup {Email[SessionOf[cl]]}

FirstKey(cl) == IF cardKnown[cl] THEN Card[SessionOf[cl]] ELSE Email[SessionOf[cl]]

Goto(cl, place) == pc' = [pc EXCEPT ![cl] = place]

\* claim: a session already decided is answered from the index.
Begin(cl) ==
  /\ pc[cl] = "idle"
  /\ Goto(cl, IF outcome[SessionOf[cl]] = "none" THEN "buyer" ELSE "done")
  /\ UNCHANGED <<store, stripe, seen, locks>>

\* buyerOf: who bought, and what Stripe has refunded, read before the lock; a
\* read that fails leaves the card unknown and the refund unseen.  The claim
\* then joins its process's chain.
ReadBuyer(cl, reads) ==
  /\ pc[cl] = "buyer"
  /\ reads \/ CardReadFails
  /\ cardKnown' = [cardKnown EXCEPT ![cl] = reads]
  /\ sawBack' = [sawBack EXCEPT ![cl] = reads /\ SessionOf[cl] \in returned]
  /\ chain' = [chain EXCEPT ![ServerOf[cl]] = Append(@, cl)]
  /\ Goto(cl, "chain")
  /\ UNCHANGED <<store, stripe, lock, unguarded>>

\* The claim's turn in the chain of its first key.
MyTurn(cl) ==
  LET line == chain[ServerOf[cl]]
  IN \A i \in 1 .. Len(line) :
       line[i] # cl /\ FirstKey(line[i]) = FirstKey(cl)
         => \E j \in 1 .. i : line[j] = cl

EnterChain(cl) ==
  /\ pc[cl] = "chain"
  /\ MyTurn(cl)
  /\ Goto(cl, IF SharedStore THEN "lock" ELSE "recheck")
  /\ UNCHANGED <<store, stripe, seen, locks>>

\* Mutant of TakeLock: the lock of the first key is enough.
TakeFirstLock(cl) ==
  /\ pc[cl] \in {"lock", "lockEmail"}
  /\ lock[FirstKey(cl)] = NoClaim
  /\ lock' = [lock EXCEPT ![FirstKey(cl)] = cl]
  /\ Goto(cl, "recheck")
  /\ UNCHANGED <<store, stripe, seen, chain, unguarded>>

\* sharedBuyerLock: the locks are taken one at a time, in order.
TakeLock(cl) ==
  /\ pc[cl] \in {"lock", "lockEmail"}
  /\ LET next == IF pc[cl] = "lock" THEN FirstKey(cl) ELSE Email[SessionOf[cl]]
     IN /\ lock[next] = NoClaim
        /\ lock' = [lock EXCEPT ![next] = cl]
        /\ Goto(cl, IF next = Email[SessionOf[cl]] THEN "recheck" ELSE "lockEmail")
  /\ UNCHANGED <<store, stripe, seen, chain, unguarded>>

Freed(gone) == [k \in Keys |-> IF lock[k] \in gone THEN NoClaim ELSE lock[k]]

\* Redis fails, or the wait is exceeded: the locks taken so far are released and
\* the claim decides in its process's order only.
GiveUpLock(cl) ==
  /\ pc[cl] \in {"lock", "lockEmail"}
  /\ lock' = Freed({cl})
  /\ unguarded' = unguarded \cup {cl}
  /\ Goto(cl, "recheck")
  /\ UNCHANGED <<store, stripe, seen, chain>>

\* issue: the index is read again under the lock.
Recheck(cl) ==
  /\ pc[cl] = "recheck"
  /\ Goto(cl, IF outcome[SessionOf[cl]] = "none" THEN "decide" ELSE "unlock")
  /\ UNCHANGED <<store, stripe, seen, locks>>

\* What a key record says of its buyer.
Carries(cl, k) == k \in KeysOf(cl)

\* boughtInDayCents: the records of this buyer that are not this session's.
BoughtInDay(cl) ==
  Total([r \in Claims |-> Pack[SessionOf[r]]],
        { r \in rows : /\ SessionOf[r] # SessionOf[cl]
                       /\ \E k \in KeysOf(cl) : Carries(r, k) })

\* The tax ID, then the daily limit, then a payment already refunded, then a key.
Decide(cl) ==
  LET s == SessionOf[cl]
  IN /\ pc[cl] = "decide"
     /\ Goto(cl, IF s \in NoTaxId \/ BoughtInDay(cl) + Pack[s] > DailyMax THEN "refuse"
                 ELSE IF sawBack[cl] THEN "refuseRefunded" ELSE "insert")
     /\ UNCHANGED <<store, stripe, seen, locks>>

\* The record first, then the claim of the session for it.
InsertKey(cl) ==
  /\ pc[cl] = "insert"
  /\ rows' = rows \cup {cl}
  /\ Goto(cl, "index")
  /\ UNCHANGED <<outcome, issued, stripe, seen, locks>>

\* Mutant of ClaimIndex: the write is not conditional.
ClaimIndexBlind(cl, value, won, lost) ==
  outcome' = [outcome EXCEPT ![SessionOf[cl]] = value] /\ Goto(cl, won)

\* claimSessionPg: one conditional statement on the index row.
ClaimIndex(cl, value, won, lost) ==
  LET s == SessionOf[cl]
  IN IF outcome[s] = "none"
     THEN outcome' = [outcome EXCEPT ![s] = value] /\ Goto(cl, won)
     ELSE UNCHANGED outcome /\ Goto(cl, lost)

MintKey(cl) ==
  /\ pc[cl] = "index"
  /\ ClaimIndex(cl, "minted", "unlock", "orphan")
  /\ issued' = IF outcome[SessionOf[cl]] = "none" THEN issued \cup {cl} ELSE issued
  /\ UNCHANGED <<rows, stripe, seen, locks>>

\* Another claim won the session: this record is deleted (best effort).
DropOrphan(cl) ==
  /\ pc[cl] = "orphan"
  /\ \/ rows' = rows \ {cl}
     \/ StripeFails /\ UNCHANGED rows
  /\ Goto(cl, "unlock")
  /\ UNCHANGED <<outcome, issued, stripe, seen, locks>>

\* Mutant of Refuse: the refund is made although another claim won the session.
RefuseBlind(cl) ==
  /\ pc[cl] = "refuse"
  /\ ClaimIndex(cl, "pending", "refund", "refund")
  /\ UNCHANGED <<rows, issued, stripe, seen, locks>>

\* Mutant of Refuse: the refusal is recorded without an outcome.
RefuseBare(cl) ==
  /\ pc[cl] = "refuse"
  /\ ClaimIndex(cl, "refused", "refund", "unlock")
  /\ UNCHANGED <<rows, issued, stripe, seen, locks>>

\* refuseSession, of a payment to refund.
Refuse(cl) ==
  /\ pc[cl] = "refuse"
  /\ ClaimIndex(cl, "pending", "refund", "unlock")
  /\ UNCHANGED <<rows, issued, stripe, seen, locks>>

\* refuseSession, of a payment refunded already: recorded with its outcome.
RefuseRefunded(cl) ==
  /\ pc[cl] = "refuseRefunded"
  /\ ClaimIndex(cl, "refunded", "unlock", "unlock")
  /\ UNCHANGED <<rows, issued, stripe, seen, locks>>

\* Mutant of MakeRefund: the refund call's error is not looked at.
MakeRefundEager(cl) ==
  LET s == SessionOf[cl]
  IN /\ pc[cl] = "refund"
     /\ \/ /\ s \notin returned
           /\ returned' = returned \cup {s}
           /\ refunds' = [refunds EXCEPT ![s] = @ + 1]
        \/ /\ StripeFails \/ s \in returned
           /\ UNCHANGED stripe
     /\ Goto(cl, "recordYes")
     /\ UNCHANGED <<store, seen, locks>>

\* refuseAndRefund: Stripe refunds the payment, though its reply may be lost, or
\* answers an error (it always does for a payment already refunded).
MakeRefund(cl) ==
  LET s == SessionOf[cl]
  IN /\ pc[cl] = "refund"
     /\ \/ /\ s \notin returned
           /\ returned' = returned \cup {s}
           /\ refunds' = [refunds EXCEPT ![s] = @ + 1]
           /\ Goto(cl, "recordYes") \/ (StripeFails /\ Goto(cl, "recordNo"))
        \/ /\ StripeFails \/ s \in returned
           /\ Goto(cl, "recordNo")
           /\ UNCHANGED stripe
     /\ UNCHANGED <<store, seen, locks>>

\* setRefusal touches a refused session only; its failure is swallowed.
SetRefusal(s, to) ==
  outcome' = IF outcome[s] \in {"pending", "refunded", "failed"}
             THEN [outcome EXCEPT ![s] = to] ELSE outcome

RecordRefund(cl) ==
  /\ pc[cl] \in {"recordYes", "recordNo"}
  /\ \/ SetRefusal(SessionOf[cl], IF pc[cl] = "recordYes" THEN "refunded" ELSE "failed")
     \/ StripeFails /\ UNCHANGED outcome
  /\ Goto(cl, "unlock")
  /\ UNCHANGED <<rows, issued, stripe, seen, locks>>

\* Mutant of Unlock: the chain does not move on.
UnlockKeepsChain(cl) ==
  /\ pc[cl] = "unlock"
  /\ lock' = Freed({cl})
  /\ Goto(cl, "done")
  /\ UNCHANGED <<store, stripe, seen, chain, unguarded>>

\* A line once the claim has left it.
Without(line, cl) ==
  LET at == CHOOSE i \in 1 .. Len(line) : line[i] = cl
  IN [i \in 1 .. Len(line) - 1 |-> line[IF i < at THEN i ELSE i + 1]]

\* The claim answers: its locks are released and the chain moves on.
Unlock(cl) ==
  /\ pc[cl] = "unlock"
  /\ lock' = Freed({cl})
  /\ chain' = [chain EXCEPT ![ServerOf[cl]] = Without(@, cl)]
  /\ Goto(cl, "done")
  /\ UNCHANGED <<store, stripe, seen, unguarded>>

AtWork(cl) == pc[cl] \notin {"idle", "done", "dead"}

\* The process restarts; the locks its claims held stay until they expire.
Crash(p) ==
  /\ Crashes
  /\ \E cl \in Claims : ServerOf[cl] = p /\ AtWork(cl)
  /\ pc' = [cl \in Claims |-> IF ServerOf[cl] = p /\ AtWork(cl) THEN "dead" ELSE pc[cl]]
  /\ chain' = [chain EXCEPT ![p] = <<>>]
  /\ UNCHANGED <<store, stripe, seen, lock, unguarded>>

\* BUYER_LOCK_MS passes on a lock whose holder crashed, or is still running: no
\* lock is renewed.
LockExpires(cl) ==
  /\ \E k \in Keys : lock[k] = cl
  /\ \/ pc[cl] = "dead" /\ UNCHANGED unguarded
     \/ pc[cl] # "dead" /\ unguarded' = unguarded \cup {cl}
  /\ \E k \in Keys : lock[k] = cl /\ lock' = [lock EXCEPT ![k] = NoClaim]
  /\ UNCHANGED <<store, stripe, pc, seen, chain>>

\* Mutant of ToRefund: a refusal stuck pending is not listed.
ToRefundFailed(s) == outcome[s] = "failed"

\* refusalsToRefund lists the session (failed, or pending with no claim left to
\* finish it); the operator refunds what is not refunded, then marks it.
ToRefund(s) ==
  \/ outcome[s] = "failed"
  \/ /\ outcome[s] = "pending"
     /\ \A cl \in Claims : SessionOf[cl] = s => pc[cl] \notin {"refund", "recordYes", "recordNo"}

RefundByHand(s) ==
  /\ ToRefund(s)
  /\ returned' = returned \cup {s}
  /\ SetRefusal(s, "refunded")
  /\ UNCHANGED <<rows, issued, refunds, pc, seen, locks>>

ClaimStep(cl) ==
  \/ Begin(cl) \/ ReadBuyer(cl, TRUE) \/ ReadBuyer(cl, FALSE) \/ EnterChain(cl)
  \/ TakeLock(cl) \/ GiveUpLock(cl) \/ Recheck(cl) \/ Decide(cl) \/ InsertKey(cl) \/ MintKey(cl)
  \/ DropOrphan(cl) \/ Refuse(cl) \/ RefuseRefunded(cl) \/ MakeRefund(cl)
  \/ RecordRefund(cl) \/ Unlock(cl)

Next ==
  \/ \E cl \in Claims : ClaimStep(cl) \/ LockExpires(cl)
  \/ \E p \in Servers : Crash(p)
  \/ \E s \in Sessions : RefundByHand(s)

Spec == Init /\ [][Next]_vars

\* A claim that has begun runs on unless its process crashes (it waits for a lock
\* until its deadline only), and the operator works through the list.
Fairness ==
  /\ \A cl \in Claims : WF_vars(AtWork(cl) /\ ClaimStep(cl))
  /\ \A s \in Sessions : WF_vars(RefundByHand(s))

FairSpec == Spec /\ Fairness

------------------------------------------------------------------------------
(* Safety *)

\* The keys the index has for a session.
KeysFor(s) == { cl \in issued : SessionOf[cl] = s }

\* A minted session has exactly one key, its record is there, and no session
\* without a key recorded in the index has one.
OneKeyPerSession ==
  \A s \in Sessions :
    /\ KeysFor(s) \subseteq rows
    /\ Cardinality(KeysFor(s)) = IF outcome[s] = "minted" THEN 1 ELSE 0

\* The code refunds a session at most once, and never one it minted a key for.
KeyOrRefund ==
  \A s \in Sessions : refunds[s] > 0 => refunds[s] = 1 /\ outcome[s] # "minted"

\* A refusal recorded as refunded is refunded at Stripe.
RefundedIsTrue == \A s \in Sessions : outcome[s] = "refunded" => s \in returned

Loaded(claims) == Total([r \in Claims |-> Pack[SessionOf[r]]], claims)

\* Two claims of one buyer that keep their locks cannot both pass the daily limit
\* on the same total, on one process or on two: the keys they are issued for an
\* email, or for a card, never exceed it.
DailyLimit ==
  \A k \in Keys : Loaded({ r \in issued \ unguarded : Carries(r, k) }) <= DailyMax

------------------------------------------------------------------------------
(* Implementation of PackPurchase *)

Refused == { s \in Sessions : outcome[s] \in {"pending", "refunded", "failed"} }

Repaid == { s \in Sessions : outcome[s] = "refunded" }

Purchase == INSTANCE PackPurchase WITH
  KeyIds <- Claims, sold <- issued, refused <- Refused, repaid <- Repaid, paidBack <- returned

\* Whatever claims race, fail or crash, and however the refund of a refused one
\* goes, a paid session is decided once, for one key or a repayment.
ImplementsPackPurchase == Purchase!Spec

------------------------------------------------------------------------------
(* Liveness *)

\* No claim waits for ever: not in its process's chain, not for a lock that a
\* crashed claim, or another claim of the buyer, holds.
ClaimsEnd == \A cl \in Claims : AtWork(cl) ~> ~AtWork(cl)

\* A refused session is refunded in the end, whatever failed or crashed.
RefusedIsRefunded == \A s \in Sessions : outcome[s] = "pending" ~> outcome[s] = "refunded"

=============================================================================
