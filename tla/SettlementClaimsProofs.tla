----------------------- MODULE SettlementClaimsProofs -----------------------
(***************************************************************************)
(* Proofs about SettlementClaims, for any number of requests and           *)
(* processes, with crashes and failing claim commands.                     *)
(*                                                                         *)
(* Two arguments, one per key.  While no command about the nonce fails, a  *)
(* request that has won it is the holder Redis names until it gives it up  *)
(* (Owner): a claim in flight does not lapse under a request that works,   *)
(* and nobody is answered before the claim was made long (Long), so what   *)
(* answered stays the holder for good.  While no command about the         *)
(* transaction fails, its claim is never given up (Copies): whoever is     *)
(* answered for a recovery (Recovering), or is owed by the book (Owing),   *)
(* is its holder.  The requests that were simply answered do not claim it: *)
(* theirs is the transaction that landed (Settled), and the book has only  *)
(* requests that were not answered (Booked).                               *)
(***************************************************************************)
EXTENDS SettlementClaims, FiniteSetTheorems, TLAPS

\* The places a request reaches by winning the nonce, until it is over.
Owning == Places \ {"idle", "claim", "over"}

\* The requests whose answer rests on the nonce: they work, or were answered.
Owners == { r \in Requests : pc[r] \in Owning } \cup served

Owner == "nonce" \notin failed => \A r \in Owners : redis["nonce"] = r

\* Answered, or past the extension that comes before the answer.
Extended == { r \in Requests : pc[r] \in {"note", "answer", "answerR"} } \cup served

Long == "nonce" \notin failed => (Extended # {} => longR)

Copies == "tx" \notin failed => \A p \in Procs : local[p]["tx"] \in {NoOne, redis["tx"]}

Recovering ==
  "tx" \notin failed =>
    \A r \in Requests : pc[r] \in {"recovered", "answerR"} \/ r \in recovered => redis["tx"] = r

Owing == "tx" \notin failed => (owing # NoOne \/ owed => redis["tx"] = Late)

\* A request answered for its own settlement is the one whose transaction landed.
Settled ==
  \A r \in Requests : pc[r] \in {"settled", "note", "answer"} \/ r \in served \ recovered => landed = r

\* What the book has, or owes, was not answered and will not be.
Booked ==
  /\ \A r \in served : pc[r] \in {"sale", "over"}
  /\ \A r \in booked : pc[r] = "over" /\ r \notin served
  /\ owing # NoOne \/ owed => landed \in Requests /\ pc[landed] = "over" /\ landed \notin served

IInv == TypeOK /\ Owner /\ Long /\ Copies /\ Recovering /\ Owing /\ Settled /\ Booked

USE SettlementAssumption

\* The tables of the claims and extensions, entry by entry.
LEMMA Claimings ==
  /\ DOMAIN Claiming = {"claim", "reclaim", "take", "takeNamed", "note"}
  /\ Claiming["claim"] = [key |-> "nonce", won |-> "ask", lost |-> "over"]
  /\ Claiming["reclaim"] = [key |-> "nonce", won |-> "prove", lost |-> "release"]
  /\ Claiming["take"] = [key |-> "tx", won |-> "recovered", lost |-> "release"]
  /\ Claiming["takeNamed"] = [key |-> "tx", won |-> "recovered", lost |-> "named"]
  /\ Claiming["note"] = [key |-> "tx", won |-> "answer", lost |-> "answer"]
BY DEF Claiming

LEMMA Extendings ==
  /\ DOMAIN Extending = {"settled", "recovered", "named"}
  /\ Extending["settled"] = "note" /\ Extending["recovered"] = "answerR" /\ Extending["named"] = "book"
BY DEF Extending

LEMMA PlacesAre ==
  Places = {"claim", "reclaim", "take", "takeNamed", "note", "settled", "recovered", "named",
            "idle", "ask", "asked", "prove", "release", "book", "answer", "answerR", "sale", "over"}
BY Claimings, Extendings DEF Places

\* A claim is about a key, and goes on somewhere.
LEMMA ClaimGoesOn ==
  ASSUME NEW c \in DOMAIN Claiming
  PROVE  Claiming[c].key \in Keys /\ Claiming[c].won \in Places /\ Claiming[c].lost \in Places
BY Claimings, PlacesAre DEF Keys

LEMMA ExtensionGoesOn ==
  ASSUME NEW c \in DOMAIN Extending
  PROVE  Extending[c] \in Places
BY Extendings, PlacesAre

\* A write of the shared key, and of a copy, is one.
LEMMA Written ==
  ASSUME NEW k \in Keys, NEW h \in Holders, redis \in [Keys -> Holders]
  PROVE  SetNX(k, h) \in [Keys -> Holders]
BY DEF SetNX

\* What a copy of a claim writes is a copy.
LEMMA Copied ==
  ASSUME NEW p \in Procs, NEW k \in Keys, NEW h \in Holders, local \in [Procs -> [Keys -> Holders]]
  PROVE  [local EXCEPT ![p][k] = h] \in [Procs -> [Keys -> Holders]]
OBVIOUS

LEMMA CopyTyped ==
  ASSUME NEW p \in Procs, NEW k \in Keys, NEW h \in Holders,
         local \in [Procs -> [Keys -> Holders]], longL \subseteq Procs, Copy(p, k, h)
  PROVE  local' \in [Procs -> [Keys -> Holders]] /\ longL' \subseteq Procs
BY Copied DEF Copy

LEMMA CopyLongTyped ==
  ASSUME NEW p \in Procs, NEW h \in Holders,
         local \in [Procs -> [Keys -> Holders]], longL \subseteq Procs, CopyLong(p, h)
  PROVE  local' \in [Procs -> [Keys -> Holders]] /\ longL' \subseteq Procs
<1>1. "nonce" \in Keys
  BY DEF Keys
<1>2. QED
  BY <1>1, Copied DEF CopyLong

LEMMA InitTyped == Init => TypeOK
<1> SUFFICES ASSUME Init PROVE TypeOK
  OBVIOUS
<1>1. redis \in [Keys -> Holders]
  BY DEF Init, Holders
<1>2. local \in [Procs -> [Keys -> Holders]]
  BY <1>1 DEF Init
<1>3. pc \in [Requests -> Places] /\ failures \in 0 .. MaxFailures
  BY PlacesAre DEF Init
<1>4. landed = NoOne /\ owing = NoOne
  BY DEF Init
<1>5. longR = FALSE /\ expired = FALSE /\ sale = FALSE /\ owed = FALSE /\ lost = FALSE
  BY DEF Init
<1>6. unresolved = {} /\ longL = {} /\ sent = {} /\ submitted = {} /\ served = {} /\ booked = {} /\ failed = {} /\ recovered = {}
  BY DEF Init
<1>7. QED
  BY <1>1, <1>2, <1>3, <1>4, <1>5, <1>6 DEF TypeOK

\* Every variable keeps its type.
THEOREM TypeCorrect == Spec => []TypeOK
<1>1. Init => TypeOK
  BY InitTyped
<1>2. TypeOK /\ [Next]_vars => TypeOK'
  <2> SUFFICES ASSUME TypeOK, [Next]_vars PROVE TypeOK'
    OBVIOUS
  <2> USE PlacesAre, ClaimGoesOn, ExtensionGoesOn, Written, Copied DEF TypeOK, vars, claims, chain, book, faults, Goto, Fail
  <2>1. CASE UNCHANGED vars
    BY <2>1 DEF vars
  <2>2. ASSUME NEW r \in Requests, RefusedHere(r) PROVE TypeOK'
    <3> DEFINE k == Claiming[pc[r]].key
    <3>1. k \in Keys /\ Here(r, k) \in Holders
      BY <2>2 DEF RefusedHere, Here
    <3>2. redis' \in [Keys -> Holders]
      BY <2>2, <3>1 DEF RefusedHere
    <3>3. longR' \in BOOLEAN
      <4>1. longR' = longR \/ Fresh(k, At[r] \in longL)
        BY <2>2 DEF RefusedHere
      <4>2. longR' = longR \/ longR' = (At[r] \in longL)
        BY <4>1, Zenon DEF Fresh
      <4>3. CASE longR' = longR
        BY <4>3
      <4>4. CASE longR' = (At[r] \in longL)
        <5> HIDE DEF TypeOK
        <5>1. QED
          BY <4>4
      <4>5. QED
        BY <4>2, <4>3, <4>4
    <3>4. pc' \in [Requests -> Places]
      BY <2>2 DEF RefusedHere
    <3>5. QED
      BY <2>2, <3>2, <3>3, <3>4 DEF RefusedHere
  <2>3. ASSUME NEW r \in Requests, SendClaim(r) PROVE TypeOK'
    BY <2>3 DEF SendClaim
  <2>4. ASSUME NEW r \in Requests, ClaimAnswered(r) PROVE TypeOK'
    <3> DEFINE k == Claiming[pc[r]].key
    <3>1. k \in Keys /\ r \in Holders /\ At[r] \in Procs
      BY <2>4 DEF ClaimAnswered, Holders
    <3>2. redis' \in [Keys -> Holders]
      BY <2>4, <3>1 DEF ClaimAnswered
    <3>3. longR' \in BOOLEAN /\ pc' \in [Requests -> Places] /\ sent' \subseteq Requests
      BY <2>4 DEF ClaimAnswered, Fresh
    <3>4. local' \in [Procs -> [Keys -> Holders]] /\ longL' \subseteq Procs
      BY <2>4, <3>1, CopyTyped DEF ClaimAnswered
    <3>5. QED
      BY <2>4, <3>2, <3>3, <3>4 DEF ClaimAnswered
  <2>5. ASSUME NEW r \in Requests, ClaimUnanswered(r) PROVE TypeOK'
    <3> DEFINE k == Claiming[pc[r]].key
    <3>1. k \in Keys /\ r \in Holders /\ At[r] \in Procs
      BY <2>5 DEF ClaimUnanswered, Holders
    <3>2. redis' \in [Keys -> Holders]
      <4>1. redis' = redis \/ redis' = SetNX(k, r)
        BY <2>5 DEF ClaimUnanswered
      <4>2. QED
        BY <4>1, <3>1
    <3>3. longR' \in BOOLEAN /\ pc' \in [Requests -> Places] /\ sent' \subseteq Requests
      BY <2>5 DEF ClaimUnanswered, Fresh
    <3>4. local' \in [Procs -> [Keys -> Holders]] /\ longL' \subseteq Procs
      BY <2>5, <3>1, CopyTyped DEF ClaimUnanswered
    <3>5. failures' \in 0 .. MaxFailures /\ failed' \subseteq Keys
      BY <2>5, <3>1 DEF ClaimUnanswered
    <3>6. QED
      BY <2>5, <3>2, <3>3, <3>4, <3>5 DEF ClaimUnanswered
  <2>6. ASSUME NEW r \in Requests, ReadOwner(r) PROVE TypeOK'
    <3>1. sent' \subseteq Requests
      BY <2>6 DEF ReadOwner
    <3>2. pc' \in [Requests -> Places]
      <4>1. pc' = pc \/ pc' = [pc EXCEPT ![r] = Extending[pc[r]]]
        BY <2>6 DEF ReadOwner
      <4>2. Extending[pc[r]] \in Places
        BY <2>6, ExtensionGoesOn DEF ReadOwner
      <4>3. QED
        BY <4>1, <4>2
    <3>3. UNCHANGED <<claims, chain, served, sale, book, faults, recovered, lost>>
      BY <2>6 DEF ReadOwner
    <3>4. QED
      BY <3>1, <3>2, <3>3
  <2>7. ASSUME NEW r \in Requests, Extend(r) PROVE TypeOK'
    <3>1. "nonce" \in Keys /\ r \in Holders /\ At[r] \in Procs
      BY DEF Keys, Holders
    <3>2. local' \in [Procs -> [Keys -> Holders]] /\ longL' \subseteq Procs
      BY <2>7, <3>1, CopyLongTyped DEF Extend, Here
    <3>3. QED
      BY <2>7, <3>1, <3>2 DEF Extend
  <2>8. ASSUME NEW r \in Requests, ExtendUnanswered(r) PROVE TypeOK'
    <3>1. "nonce" \in Keys /\ r \in Holders /\ At[r] \in Procs
      BY DEF Keys, Holders
    <3>2. local' \in [Procs -> [Keys -> Holders]] /\ longL' \subseteq Procs
      BY <2>8, <3>1, CopyLongTyped DEF ExtendUnanswered, Here
    <3>3. redis' \in [Keys -> Holders] /\ longR' \in BOOLEAN
      <4>1. CASE redis' = redis /\ longR' = longR
        BY <4>1
      <4>2. CASE redis' = [redis EXCEPT !["nonce"] = r] /\ longR' = TRUE
        BY <3>1, <4>2
      <4>3. QED
        BY <2>8, <4>1, <4>2 DEF ExtendUnanswered
    <3>4. failures' \in 0 .. MaxFailures /\ failed' \subseteq Keys
      BY <2>8, <3>1 DEF ExtendUnanswered
    <3>5. pc' \in [Requests -> Places] /\ sent' \subseteq Requests
      BY <2>8 DEF ExtendUnanswered
    <3>6. QED
      BY <2>8, <3>2, <3>3, <3>4, <3>5 DEF ExtendUnanswered
  <2>9. ASSUME NEW r \in Requests, Release(r) PROVE TypeOK'
    <3>1. "nonce" \in Keys /\ NoOne \in Holders /\ At[r] \in Procs
      BY DEF Keys, Holders
    <3>2. \A f \in [Keys -> Holders] : Freed(r, f) \in [Keys -> Holders]
      BY <3>1 DEF Freed
    <3>3. local' \in [Procs -> [Keys -> Holders]]
      <4>1. local' = [local EXCEPT ![At[r]] = Freed(r, local[At[r]])] /\ local[At[r]] \in [Keys -> Holders]
        BY <2>9, <3>1 DEF Release
      <4>2. Freed(r, local[At[r]]) \in [Keys -> Holders]
        BY <3>2, <4>1
      <4>3. QED
        BY <4>1, <4>2
    <3>4. redis' \in [Keys -> Holders]
      <4>1. redis' = redis \/ redis' = Freed(r, redis)
        BY <2>9 DEF Release
      <4>2. QED
        BY <3>2, <4>1
    <3>5. QED
      BY <2>9, <3>1, <3>3, <3>4, PlacesAre DEF Release
  <2>10. ASSUME NEW r \in Requests, Ask(r) PROVE TypeOK'
    BY <2>10 DEF Ask
  <2>11. ASSUME NEW r \in Requests, Hear(r) PROVE TypeOK'
    BY <2>11 DEF Hear
  <2>12. ASSUME NEW r \in Requests, HearPending(r) PROVE TypeOK'
    BY <2>12 DEF HearPending
  <2>13. ASSUME NEW r \in Requests, Prove(r) PROVE TypeOK'
    BY <2>13 DEF Prove
  <2>14. ASSUME NEW r \in Requests, Book(r) PROVE TypeOK'
    BY <2>14 DEF Book
  <2>15. ASSUME NEW r \in Requests, Answer(r) PROVE TypeOK'
    BY <2>15 DEF Answer
  <2>16. ASSUME NEW r \in Requests, RecordSale(r) PROVE TypeOK'
    BY <2>16 DEF RecordSale
  <2>17. ASSUME NEW r \in Requests, Settle(r) PROVE TypeOK'
    BY <2>17 DEF Settle
  <2>18. ASSUME NEW r \in Requests, Land(r) PROVE TypeOK'
    BY <2>18 DEF Land
  <2>19. ASSUME NEW r \in Requests, Close(r) PROVE TypeOK'
    BY <2>19 DEF Close
  <2>20. ASSUME NEW r \in Requests, Sold(r) PROVE TypeOK'
    BY <2>20 DEF Sold
  <2>21. ASSUME NEW r \in Requests, NEW p \in Procs, Check(p, r) PROVE TypeOK'
    <3> DEFINE holder == IF local[p]["tx"] = NoOne THEN Late ELSE local[p]["tx"]
    <3>1. "tx" \in Keys /\ holder \in Holders /\ local[p]["tx"] \in Holders
      BY DEF Keys, Holders
    <3>2. redis' \in [Keys -> Holders]
      BY <2>21, <3>1 DEF Check
    <3>3. local' = [local EXCEPT ![p]["tx"] = holder] \/ local' = [local EXCEPT ![p]["tx"] = local[p]["tx"]]
      BY <2>21 DEF Check
    <3> HIDE DEF holder
    <3>4. local' \in [Procs -> [Keys -> Holders]]
      <4>1. \A h \in Holders : [local EXCEPT ![p]["tx"] = h] \in [Procs -> [Keys -> Holders]]
        BY <3>1, Copied
      <4>2. CASE local' = [local EXCEPT ![p]["tx"] = holder]
        BY <3>1, <4>1, <4>2
      <4>3. CASE local' = [local EXCEPT ![p]["tx"] = local[p]["tx"]]
        BY <3>1, <4>1, <4>3
      <4>4. QED
        BY <3>3, <4>2, <4>3
    <3>5. failures' \in 0 .. MaxFailures /\ failed' \subseteq Keys
      BY <2>21, <3>1 DEF Check, holder
    <3>6. owing' \in Requests \cup {NoOne} /\ booked' \subseteq Requests
      BY <2>21 DEF Check, holder
    <3>7. QED
      BY <2>21, <3>2, <3>4, <3>5, <3>6 DEF Check, holder
  <2>22. ASSUME NEW p \in Procs, LapseCopy(p) PROVE TypeOK'
    BY <2>22 DEF LapseCopy, Keys, Holders
  <2>23. ASSUME NEW p \in Procs, Crash(p) PROVE TypeOK'
    BY <2>23 DEF Crash, Keys, Holders
  <2>24. CASE Expire
    BY <2>24 DEF Expire
  <2>25. CASE LapseShared
    BY <2>25 DEF LapseShared, Keys, Holders
  <2>26. CASE Owe
    BY <2>26 DEF Owe
  <2>27. CASE OweUnseen
    BY <2>27 DEF OweUnseen
  <2>28. ASSUME NEW r \in Requests, GiveUp(r) PROVE TypeOK'
    BY <2>28 DEF GiveUp
  <2>29. QED
    BY <2>1, <2>2, <2>3, <2>4, <2>5, <2>6, <2>7, <2>8, <2>9, <2>10, <2>11, <2>12, <2>13, <2>14, <2>15, <2>16, <2>17, <2>18, <2>19, <2>20, <2>21, <2>22, <2>23, <2>24, <2>25, <2>26, <2>27, <2>28 DEF Next, Step, Pass
<1>3. QED
  BY <1>1, <1>2, PTL DEF Spec

\* What a claim's step does with its own key, won and lost.
LEMMA ClaimCases ==
  ASSUME NEW c \in DOMAIN Claiming
  PROVE  LET k == Claiming[c].key
             w == Claiming[c].won
             l == Claiming[c].lost
         IN \/ c = "claim" /\ k = "nonce" /\ w = "ask" /\ l = "over"
            \/ c = "reclaim" /\ k = "nonce" /\ w = "prove" /\ l = "release"
            \/ c \in {"take", "takeNamed"} /\ k = "tx" /\ w = "recovered" /\ l \in {"release", "named"}
            \/ c = "note" /\ k = "tx" /\ w = "answer" /\ l = "answer"
BY Claimings

\* A claim that Redis answers.
LEMMA AnsweredClaim ==
  ASSUME IInv, TypeOK', NEW r \in Requests, ClaimAnswered(r)
  PROVE  IInv'
<1> DEFINE k == Claiming[pc[r]].key
           w == Claiming[pc[r]].won
           l == Claiming[pc[r]].lost
<1>1. /\ redis' = SetNX(k, r)
      /\ Goto(r, IF redis'[k] = r THEN w ELSE l)
      /\ Fresh(k, FALSE)
      /\ IF redis[k] = NoOne THEN Copy(At[r], k, r) ELSE UNCHANGED <<local, longL>>
      /\ UNCHANGED <<chain, served, sale, book, faults, recovered, lost>>
      /\ pc[r] \in DOMAIN Claiming
  BY DEF ClaimAnswered
<1>2. \/ pc[r] = "claim" /\ k = "nonce" /\ w = "ask" /\ l = "over"
      \/ pc[r] = "reclaim" /\ k = "nonce" /\ w = "prove" /\ l = "release"
      \/ pc[r] \in {"take", "takeNamed"} /\ k = "tx" /\ w = "recovered" /\ l \in {"release", "named"}
      \/ pc[r] = "note" /\ k = "tx" /\ w = "answer" /\ l = "answer"
  BY <1>1, ClaimCases
<1> HIDE DEF k, w, l
<1> USE DEF IInv, TypeOK, Keys, Goto, chain, book, faults
<1>3. Owner'
  BY <1>1, <1>2, PlacesAre DEF Owner, Owners, Owning, SetNX
<1>4. Long'
  <2> SUFFICES ASSUME "nonce" \notin failed', NEW q \in Extended' PROVE longR'
    BY DEF Long
  <2>1. q \in Extended /\ q \in Requests
    BY <1>1, <1>2 DEF Extended
  <2>2. redis["nonce"] # NoOne
    BY <2>1, <1>1, PlacesAre DEF Extended, Owner, Owners, Owning
  <2>3. longR' = longR
    BY <1>1, <2>2 DEF Fresh
  <2>4. QED
    BY <1>1, <2>1, <2>3 DEF Long
<1>5. Copies'
  BY <1>1, <1>2 DEF Copies, SetNX, Copy
<1>6. Recovering' /\ Owing'
  BY <1>1, <1>2 DEF Recovering, Owing, SetNX
<1>7. Settled' /\ Booked'
  BY <1>1, <1>2 DEF Settled, Booked
<1>8. QED
  BY <1>3, <1>4, <1>5, <1>6, <1>7

\* A claim that Redis does not answer: it counts as failed, and what was argued
\* for its key ends there.
LEMMA UnansweredClaim ==
  ASSUME IInv, TypeOK', NEW r \in Requests, ClaimUnanswered(r)
  PROVE  IInv'
<1> DEFINE k == Claiming[pc[r]].key
           w == Claiming[pc[r]].won
           l == Claiming[pc[r]].lost
<1>1. /\ failed' = failed \cup {k}
      /\ (redis' = redis /\ longR' = longR) \/ (redis' = SetNX(k, r) /\ Fresh(k, FALSE))
      /\ Goto(r, IF Here(r, k) \in {NoOne, r} THEN w ELSE l)
      /\ Copy(At[r], k, r) \/ UNCHANGED <<local, longL>>
      /\ UNCHANGED <<chain, served, sale, book, recovered, lost>>
      /\ pc[r] \in DOMAIN Claiming
  BY DEF ClaimUnanswered, Fail
<1>2. \/ pc[r] = "claim" /\ k = "nonce" /\ w = "ask" /\ l = "over"
      \/ pc[r] = "reclaim" /\ k = "nonce" /\ w = "prove" /\ l = "release"
      \/ pc[r] \in {"take", "takeNamed"} /\ k = "tx" /\ w = "recovered" /\ l \in {"release", "named"}
      \/ pc[r] = "note" /\ k = "tx" /\ w = "answer" /\ l = "answer"
  BY <1>1, ClaimCases
<1> HIDE DEF k, w, l
<1> USE DEF IInv, TypeOK, Keys, Goto, chain, book
<1>3. Owner'
  BY <1>1, <1>2, PlacesAre DEF Owner, Owners, Owning, SetNX
<1>4. Long'
  <2> SUFFICES ASSUME "nonce" \notin failed', NEW q \in Extended' PROVE longR'
    BY DEF Long
  <2>1. q \in Extended /\ q \in Requests
    BY <1>1, <1>2 DEF Extended
  <2>2. k = "tx"
    BY <1>1, <1>2
  <2>3. longR' = longR
    BY <1>1, <2>2 DEF Fresh
  <2>4. QED
    BY <1>1, <2>1, <2>3 DEF Long
<1>5. Copies'
  <2>1. CASE k = "tx"
    BY <1>1, <2>1 DEF Copies
  <2>2. CASE k = "nonce"
    <3>1. redis'["tx"] = redis["tx"]
      BY <1>1, <2>2 DEF SetNX
    <3>2. \A p \in Procs : local'[p]["tx"] = local[p]["tx"]
      BY <1>1, <2>2 DEF Copy
    <3>3. QED
      BY <1>1, <2>2, <3>1, <3>2 DEF Copies
  <2>3. QED
    BY <1>2, <2>1, <2>2
<1>6. Recovering' /\ Owing'
  <2>1. CASE k = "tx"
    BY <1>1, <2>1 DEF Recovering, Owing
  <2>2. CASE k = "nonce"
    <3>1. redis'["tx"] = redis["tx"]
      BY <1>1, <2>2 DEF SetNX
    <3>2. Recovering'
      BY <1>1, <1>2, <2>2, <3>1 DEF Recovering
    <3>3. Owing'
      BY <1>1, <2>2, <3>1 DEF Owing
    <3>4. QED
      BY <3>2, <3>3
  <2>3. QED
    BY <1>2, <2>1, <2>2
<1>7. Settled' /\ Booked'
  BY <1>1, <1>2 DEF Settled, Booked
<1>8. QED
  BY <1>3, <1>4, <1>5, <1>6, <1>7

\* A claim that another holder in the process refuses: what it writes to Redis
\* is what was there, or is about a key nobody owns.
LEMMA RefusedClaim ==
  ASSUME IInv, TypeOK', NEW r \in Requests, RefusedHere(r)
  PROVE  IInv'
<1> DEFINE k == Claiming[pc[r]].key
           l == Claiming[pc[r]].lost
<1>1. /\ \/ UNCHANGED <<redis, longR>>
         \/ redis' = SetNX(k, Here(r, k)) /\ Fresh(k, At[r] \in longL)
      /\ Here(r, k) # NoOne
      /\ Goto(r, l)
      /\ UNCHANGED <<local, longL, sent, chain, served, sale, book, faults, recovered, lost>>
      /\ pc[r] \in DOMAIN Claiming
  BY DEF RefusedHere
<1>2. \/ pc[r] = "claim" /\ k = "nonce" /\ l = "over"
      \/ pc[r] = "reclaim" /\ k = "nonce" /\ l = "release"
      \/ pc[r] \in {"take", "takeNamed"} /\ k = "tx" /\ l \in {"release", "named"}
      \/ pc[r] = "note" /\ k = "tx" /\ l = "answer"
  BY <1>1, ClaimCases
<1> HIDE DEF k, l
<1> USE DEF IInv, TypeOK, Keys, Goto, chain, book, faults
<1>3. redis["nonce"] # NoOne => redis'["nonce"] = redis["nonce"] /\ longR' = longR
  BY <1>1, <1>2 DEF SetNX, Fresh
<1>4. "tx" \notin failed => redis'["tx"] = redis["tx"]
  <2>1. CASE k = "nonce"
    BY <1>1, <2>1 DEF SetNX
  <2>2. CASE k = "tx" /\ "tx" \notin failed
    <3>1. redis["tx"] # NoOne
      BY <1>1, <2>2 DEF Copies, Here
    <3>2. QED
      BY <1>1, <2>2, <3>1 DEF SetNX
  <2>3. QED
    BY <1>2, <2>1, <2>2
<1>5. Owner'
  <2>1. Owners' \subseteq Owners
    BY <1>1, <1>2, PlacesAre DEF Owners, Owning
  <2>2. Owners \subseteq Requests
    BY DEF Owners
  <2>3. QED
    BY <1>1, <1>3, <2>1, <2>2 DEF Owner
<1>6. Long'
  <2>1. Extended' \subseteq Extended
    BY <1>1, <1>2 DEF Extended
  <2>2. Extended \subseteq Owners /\ Owners \subseteq Requests
    BY PlacesAre DEF Extended, Owners, Owning
  <2>3. QED
    BY <1>1, <1>3, <2>1, <2>2 DEF Long, Owner
<1>7. Copies'
  BY <1>1, <1>4 DEF Copies
<1>8. Recovering' /\ Owing'
  BY <1>1, <1>2, <1>4 DEF Recovering, Owing
<1>9. Settled' /\ Booked'
  BY <1>1, <1>2 DEF Settled, Booked
<1>10. QED
  BY <1>5, <1>6, <1>7, <1>8, <1>9

\* A read of the owner sends the extension, or goes on without it.
LEMMA OwnerRead ==
  ASSUME IInv, TypeOK', NEW r \in Requests, ReadOwner(r)
  PROVE  IInv'
<1>1. /\ \/ pc' = pc
         \/ Goto(r, Extending[pc[r]]) /\ redis["nonce"] # r
      /\ UNCHANGED <<claims, chain, served, sale, book, faults, recovered, lost>>
      /\ pc[r] \in DOMAIN Extending
  BY DEF ReadOwner
<1>2. \/ pc[r] = "settled" /\ Extending[pc[r]] = "note"
      \/ pc[r] = "recovered" /\ Extending[pc[r]] = "answerR"
      \/ pc[r] = "named" /\ Extending[pc[r]] = "book"
  BY <1>1, Extendings
<1> USE DEF IInv, TypeOK, Keys, Goto, claims, chain, book, faults
<1>3. "nonce" \notin failed => pc' = pc
  <2>1. r \in Owners
    BY <1>2, PlacesAre DEF Owners, Owning
  <2>2. QED
    BY <1>1, <2>1 DEF Owner
<1>4. Owner' /\ Long'
  BY <1>1, <1>3 DEF Owner, Owners, Long, Extended
<1>5. Copies' /\ Owing'
  BY <1>1 DEF Copies, Owing
<1>6. Recovering'
  BY <1>1, <1>2 DEF Recovering
<1>7. Settled' /\ Booked'
  BY <1>1, <1>2 DEF Settled, Booked
<1>8. QED
  BY <1>4, <1>5, <1>6, <1>7

\* A facilitator's answer moves a request that holds the nonce on, and answers nobody.
LEMMA HeardAnswer ==
  ASSUME IInv, TypeOK', NEW r \in Requests, Hear(r)
  PROVE  IInv'
<1>1. /\ pc[r] = "asked"
      /\ \/ landed = r /\ Goto(r, "settled")
         \/ Goto(r, "reclaim") \/ Goto(r, "take") \/ Goto(r, "named") \/ Goto(r, "release")
      /\ UNCHANGED <<claims, sent, chain, served, sale, book, faults, recovered, lost>>
  BY DEF Hear
<1> USE DEF IInv, TypeOK, Goto, claims, chain, book, faults
<1>2. Owners' = Owners /\ Extended' = Extended
  BY <1>1, PlacesAre DEF Owners, Owning, Extended
<1>3. Owner' /\ Long'
  BY <1>1, <1>2 DEF Owner, Long
<1>4. Copies' /\ Recovering' /\ Owing'
  BY <1>1 DEF Copies, Recovering, Owing
<1>5. Settled' /\ Booked'
  BY <1>1 DEF Settled, Booked
<1>6. QED
  BY <1>3, <1>4, <1>5

\* An extension that Redis does not answer: what was argued for the nonce ends there.
LEMMA UnansweredExtension ==
  ASSUME IInv, TypeOK', NEW r \in Requests, ExtendUnanswered(r)
  PROVE  IInv'
<1>1. /\ failed' = failed \cup {"nonce"}
      /\ redis' = redis \/ redis' = [redis EXCEPT !["nonce"] = r]
      /\ CopyLong(At[r], r) \/ UNCHANGED <<local, longL>>
      /\ Goto(r, Extending[pc[r]])
      /\ UNCHANGED <<chain, served, sale, book, recovered, lost>>
      /\ pc[r] \in DOMAIN Extending
  BY DEF ExtendUnanswered, Fail
<1>2. \/ pc[r] = "settled" /\ Extending[pc[r]] = "note"
      \/ pc[r] = "recovered" /\ Extending[pc[r]] = "answerR"
      \/ pc[r] = "named" /\ Extending[pc[r]] = "book"
  BY <1>1, Extendings
<1> USE DEF IInv, TypeOK, Keys, Goto, chain, book
<1>3. redis'["tx"] = redis["tx"] /\ \A p \in Procs : local'[p]["tx"] = local[p]["tx"]
  BY <1>1 DEF CopyLong
<1>4. Owner' /\ Long'
  BY <1>1 DEF Owner, Long
<1>5. Copies'
  BY <1>1, <1>3 DEF Copies
<1>6. Recovering' /\ Owing'
  BY <1>1, <1>2, <1>3 DEF Recovering, Owing
<1>7. Settled' /\ Booked'
  BY <1>1, <1>2 DEF Settled, Booked
<1>8. QED
  BY <1>4, <1>5, <1>6, <1>7

\* IInv is inductive.
THEOREM Inductive == Spec => []IInv
<1>1. Init => IInv
  <2>1. Init => TypeOK
    BY InitTyped
  <2>2. Init => Owner /\ Long /\ Recovering /\ Owing /\ Settled /\ Booked
    BY DEF Init, Owner, Owners, Owning, Long, Extended, Recovering, Owing, Settled, Booked
  <2>3. Init => Copies
    BY DEF Init, Copies
  <2>4. QED
    BY <2>1, <2>2, <2>3 DEF IInv
<1>2. IInv /\ TypeOK' /\ [Next]_vars => IInv'
  <2> SUFFICES ASSUME IInv, TypeOK', [Next]_vars PROVE IInv'
    OBVIOUS
  <2> USE DEF IInv, TypeOK, Owner, Owners, Owning, Long, Extended, Copies, Recovering, Owing, Settled, Booked,
       vars, claims, chain, book, faults, Keys, Holders, Places, Claiming, Extending, Goto, Here, SetNX, Fail, Copy, Fresh, CopyLong, Freed, Lapsed, Working
  <2>1. CASE UNCHANGED vars
    BY <2>1 DEF vars
  <2>2. ASSUME NEW r \in Requests, RefusedHere(r) PROVE IInv'
    BY <2>2, RefusedClaim
  <2>3. ASSUME NEW r \in Requests, SendClaim(r) PROVE IInv'
    BY <2>3 DEF SendClaim
  <2>4. ASSUME NEW r \in Requests, ClaimAnswered(r) PROVE IInv'
    BY <2>4, AnsweredClaim
  <2>5. ASSUME NEW r \in Requests, ClaimUnanswered(r) PROVE IInv'
    BY <2>5, UnansweredClaim
  <2>6. ASSUME NEW r \in Requests, ReadOwner(r) PROVE IInv'
    BY <2>6, OwnerRead
  <2>7. ASSUME NEW r \in Requests, Extend(r) PROVE IInv'
    BY <2>7 DEF Extend
  <2>8. ASSUME NEW r \in Requests, ExtendUnanswered(r) PROVE IInv'
    BY <2>8, UnansweredExtension
  <2>9. ASSUME NEW r \in Requests, Release(r) PROVE IInv'
    BY <2>9 DEF Release
  <2>10. ASSUME NEW r \in Requests, Ask(r) PROVE IInv'
    BY <2>10 DEF Ask
  <2>11. ASSUME NEW r \in Requests, Hear(r) PROVE IInv'
    BY <2>11, HeardAnswer
  <2>12. ASSUME NEW r \in Requests, HearPending(r) PROVE IInv'
    BY <2>12 DEF HearPending
  <2>13. ASSUME NEW r \in Requests, Prove(r) PROVE IInv'
    BY <2>13 DEF Prove
  <2>14. ASSUME NEW r \in Requests, Book(r) PROVE IInv'
    BY <2>14 DEF Book
  <2>15. ASSUME NEW r \in Requests, Answer(r) PROVE IInv'
    BY <2>15 DEF Answer
  <2>16. ASSUME NEW r \in Requests, RecordSale(r) PROVE IInv'
    BY <2>16 DEF RecordSale
  <2>17. ASSUME NEW r \in Requests, Settle(r) PROVE IInv'
    BY <2>17 DEF Settle
  <2>18. ASSUME NEW r \in Requests, Land(r) PROVE IInv'
    BY <2>18 DEF Land
  <2>19. ASSUME NEW r \in Requests, Close(r) PROVE IInv'
    BY <2>19 DEF Close
  <2>20. ASSUME NEW r \in Requests, Sold(r) PROVE IInv'
    BY <2>20 DEF Sold
  <2>21. ASSUME NEW r \in Requests, NEW p \in Procs, Check(p, r) PROVE IInv'
    BY <2>21 DEF Check, Pending
  <2>22. ASSUME NEW p \in Procs, LapseCopy(p) PROVE IInv'
    BY <2>22 DEF LapseCopy
  <2>23. ASSUME NEW p \in Procs, Crash(p) PROVE IInv'
    BY <2>23 DEF Crash
  <2>24. CASE Expire
    BY <2>24 DEF Expire
  <2>25. CASE LapseShared
    BY <2>25 DEF LapseShared
  <2>26. CASE Owe
    BY <2>26 DEF Owe
  <2>27. CASE OweUnseen
    BY <2>27 DEF OweUnseen
  <2>28. ASSUME NEW r \in Requests, GiveUp(r) PROVE IInv'
    BY <2>28 DEF GiveUp
  <2>29. QED
    BY <2>1, <2>2, <2>3, <2>4, <2>5, <2>6, <2>7, <2>8, <2>9, <2>10, <2>11, <2>12, <2>13, <2>14, <2>15, <2>16, <2>17, <2>18, <2>19, <2>20, <2>21, <2>22, <2>23, <2>24, <2>25, <2>26, <2>27, <2>28 DEF Next, Step, Pass
<1>3. QED
  BY <1>1, <1>2, TypeCorrect, PTL DEF Spec

\* A set whose members are all one has at most one.
LEMMA AtMostOne ==
  ASSUME NEW S, \A q, r \in S : q = r
  PROVE  Cardinality(S) <= 1
<1>1. CASE S = {}
  BY <1>1, FS_EmptySet
<1>2. CASE S # {}
  <2>1. PICK r \in S : TRUE
    BY <1>2
  <2>2. S = {r}
    BY <2>1
  <2>3. Cardinality({r}) = 1
    BY FS_Singleton
  <2>4. QED
    BY <2>2, <2>3
<1>3. QED
  BY <1>1, <1>2

\* However the copies of one signed authorization are spread over processes,
\* retried, crashed and recovered from the chain, at most one of them is answered
\* 200, as long as Redis answers the commands about the nonce.
THEOREM AnsweredOnceAlways == Spec => []AnsweredOnce
<1>1. IInv => AnsweredOnce
  <2> SUFFICES ASSUME IInv, "nonce" \notin failed PROVE Cardinality(served) <= 1
    BY DEF AnsweredOnce
  <2>1. \A q, r \in served : q = r
    BY DEF IInv, Owner, Owners
  <2>2. QED
    BY <2>1, AtMostOne
<1>2. QED
  BY <1>1, Inductive, PTL

\* Until then, the copies are not settled side by side either: at most one is
\* between its claim and its end, and none is while another was answered.
OneSettles ==
  "nonce" \notin failed => \A q, r \in Owners : q = r

THEOREM OneSettlesAlways == Spec => []OneSettles
<1>1. IInv => OneSettles
  BY DEF IInv, Owner, OneSettles
<1>2. QED
  BY <1>1, Inductive, PTL

\* One transaction is the recovered settlement of one request only, whatever
\* became of the nonce's claims, as long as Redis answers those of the transaction.
THEOREM RecoveredOnceAlways == Spec => []RecoveredOnce
<1>1. IInv => RecoveredOnce
  <2> SUFFICES ASSUME IInv, "tx" \notin failed PROVE Cardinality(recovered) <= 1
    BY DEF RecoveredOnce
  <2>1. \A q, r \in recovered : q = r
    BY DEF IInv, TypeOK, Recovering
  <2>2. QED
    BY <2>1, AtMostOne
<1>2. QED
  BY <1>1, Inductive, PTL

\* A transaction that a pass of the book records as owed answers no request,
\* before or after.
THEOREM OwedNotServedAlways == Spec => []OwedNotServed
<1>1. IInv => OwedNotServed
  <2> SUFFICES ASSUME IInv, "tx" \notin failed, owed, NEW r \in served PROVE FALSE
    BY DEF OwedNotServed
  <2>1. redis["tx"] = Late /\ landed \notin served
    BY DEF IInv, Owing, Booked
  <2>2. CASE r \in recovered
    BY <2>1, <2>2, SettlementAssumption DEF IInv, TypeOK, Recovering
  <2>3. CASE r \notin recovered
    BY <2>1, <2>3 DEF IInv, TypeOK, Settled
  <2>4. QED
    BY <2>2, <2>3
<1>2. QED
  BY <1>1, Inductive, PTL
=============================================================================
