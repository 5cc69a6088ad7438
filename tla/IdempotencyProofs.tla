-------------------------- MODULE IdempotencyProofs --------------------------
(***************************************************************************)
(* Proofs about Idempotency, for any number of copies and processes, with  *)
(* failing commands, hang-ups and crashes.                                 *)
(*                                                                         *)
(* The argument: the local claim of a process names the one copy between   *)
(* its claim and its close (Local).  A process that knows the claim in     *)
(* Redis as its own is right (Shared), and so is a copy that is about to   *)
(* delete it (Deletes), until a delete fails: then a later delete may      *)
(* strike another's claim, and the copy it strikes is remembered.          *)
(***************************************************************************)
EXTENDS Idempotency, TLAPS

USE IdempotencyAssumption

\* The places between the local claim and the close that releases it.
Claimed == {"mark", "clear", "again", "run", "unheard"}

Local ==
  /\ \A c \in Calls : pc[c] \in Claimed => inFlight[At[c]] = c
  /\ \A p \in Procs : inFlight[p] # NoCall => At[inFlight[p]] = p /\ pc[inFlight[p]] \in Claimed

\* The claim in Redis is this copy's, or was until it was struck.
Holds(c) == claimR = c \/ c \in struck

Shared ==
  \A p \in heldInRedis :
    inFlight[p] # NoCall /\ pc[inFlight[p]] \in {"run", "unheard"} /\ Holds(inFlight[p])

Deletes ==
  \A c \in deleting : /\ pc[c] \notin Claimed \cup {"idle", "missed"}
                      /\ dropFailed \/ claimR = c

Storing == \A c \in Calls : pc[c] = "store" => c \in deleting /\ Holds(c)

\* Until a delete failed, no claim is anyone else's.
Unfailed ==
  ~dropFailed => /\ pendingRelease = {} /\ retrying = {} /\ struck = {}
                 /\ \A c \in Calls : pc[c] \notin {"clear", "again"}

IInv == TypeOK /\ Local /\ Shared /\ Deletes /\ Storing /\ Unfailed

THEOREM Initially == Init => IInv
<1> SUFFICES ASSUME Init PROVE IInv
  OBVIOUS
<1>1. TypeOK
  BY DEF Init, TypeOK, Places
<1>2. Local /\ Shared /\ Deletes /\ Storing /\ Unfailed
  BY DEF Init, Local, Shared, Deletes, Storing, Unfailed, Claimed
<1>3. QED
  BY <1>1, <1>2 DEF IInv

LEMMA DeleteTypes ==
  ASSUME TypeOK, NEW own, Delete(own)
  PROVE  claimR' = NoCall /\ struck' \subseteq Calls
  BY DEF TypeOK, Delete, Relied

\* Every variable keeps its type.
LEMMA StepTypes == TypeOK /\ [Next]_vars => TypeOK'
<1> SUFFICES ASSUME TypeOK, [Next]_vars PROVE TypeOK'
  OBVIOUS
<1> USE DEF TypeOK, Places, Goto, answers, claims, ghosts
<1>1. CASE UNCHANGED vars
  BY <1>1 DEF vars
<1>2. ASSUME NEW c \in Calls, Look(c) PROVE TypeOK'
  BY <1>2 DEF Look
<1>3. ASSUME NEW c \in Calls, Claiming(c) PROVE TypeOK'
  <2>1. CASE ClaimLocally(c)
    BY <2>1 DEF ClaimLocally
  <2>2. CASE TakeClaim(c)
    BY <2>2 DEF TakeClaim, Pass
  <2>3. CASE ClaimRefused(c)
    BY <2>3 DEF ClaimRefused
  <2>4. CASE ClearOwn(c)
    <3>1. claimR' = NoCall /\ struck' \subseteq Calls
      BY <2>4, DeleteTypes DEF ClearOwn
    <3>2. QED
      BY <2>4, <3>1 DEF ClearOwn
  <2>5. CASE ClaimFails(c)
    <3>1. claimR' \in Calls \cup {NoCall} /\ struck' \subseteq Calls
      BY <2>5, DeleteTypes DEF ClaimFails
    <3>2. pc' \in [Calls -> Places]
      BY <2>5 DEF ClaimFails, Pass
    <3>3. QED
      BY <2>5, <3>1, <3>2 DEF ClaimFails
  <2>6. QED
    BY <1>3, <2>1, <2>2, <2>3, <2>4, <2>5 DEF Claiming
<1>4. ASSUME NEW c \in Calls, Ending(c) PROVE TypeOK'
  <2>1. CASE Deliver(c)
    BY <2>1 DEF Deliver, Release
  <2>2. CASE Fail(c)
    BY <2>2 DEF Fail, Release
  <2>3. CASE HangUp(c)
    BY <2>3 DEF HangUp, Release
  <2>4. QED
    BY <1>4, <2>1, <2>2, <2>3 DEF Ending
<1>5. ASSUME NEW c \in Calls, Gone(c) \/ Store(c) PROVE TypeOK'
  <2>1. CASE EndFree(c)
    BY <2>1 DEF EndFree
  <2>2. CASE EndCharged(c)
    BY <2>2 DEF EndCharged
  <2>3. CASE Store(c)
    <3>1. answerR' \in BOOLEAN
      BY <2>3 DEF Store
    <3>2. QED
      BY <2>3, <3>1 DEF Store
  <2>4. QED
    BY <1>5, <2>1, <2>2, <2>3 DEF Gone
<1>6. ASSUME NEW c \in Calls, Drop(c) PROVE TypeOK'
  <2>1. claimR' \in Calls \cup {NoCall} /\ struck' \subseteq Calls
    BY <1>6, DeleteTypes DEF Drop
  <2>2. pendingRelease' \subseteq Procs /\ dropFailed' \in BOOLEAN
    BY <1>6 DEF Drop
  <2>3. QED
    BY <1>6, <2>1, <2>2 DEF Drop
<1>7. ASSUME NEW p \in Procs, RetryDrop(p) PROVE TypeOK'
  <2>1. claimR' = NoCall /\ struck' \subseteq Calls
    BY <1>7, DeleteTypes DEF RetryDrop
  <2>2. QED
    BY <1>7, <2>1 DEF RetryDrop
<1>8. ASSUME NEW p \in Procs, Crash(p) PROVE TypeOK'
  BY <1>8 DEF Crash
<1>9. CASE Lapse
  BY <1>9 DEF Lapse
<1>10. ASSUME NEW p \in Procs, SendRetry(p) PROVE TypeOK'
  BY <1>10 DEF SendRetry
<1>11. QED
  BY <1>1, <1>2, <1>3, <1>4, <1>5, <1>6, <1>7, <1>8, <1>9, <1>10 DEF Next

------------------------------------------------------------------------------
(* The local claim                                                          *)

\* A copy that moves between the places of a claim keeps its local claim.
LEMMA LocalKept ==
  ASSUME IInv, NEW c \in Calls, NEW place \in Places, Goto(c, place), UNCHANGED inFlight,
         pc[c] \in Claimed <=> place \in Claimed
  PROVE  Local'
  BY DEF IInv, TypeOK, Local, Goto

\* A copy that releases its claim, or is refused it, leaves those places.
LEMMA LocalReleased ==
  ASSUME IInv, NEW c \in Calls, NEW place \in Places \ Claimed, Goto(c, place),
         pc[c] \in Claimed, inFlight' = [inFlight EXCEPT ![At[c]] = NoCall]
  PROVE  Local'
  BY DEF IInv, TypeOK, Local, Goto

------------------------------------------------------------------------------
(* The claim in Redis                                                       *)

\* The copies that count on the claim in Redis and lose it are remembered.
Strikes ==
  /\ struck \subseteq struck'
  /\ \A c \in Calls : c \in Relied /\ Holds(c) => c \in struck'

\* The processes' claims, and every copy that has one or stores its answer,
\* stay where they are.
Stays ==
  /\ inFlight' = inFlight /\ heldInRedis' = heldInRedis
  /\ \A c \in Calls : \/ pc'[c] = pc[c]
                      \/ pc[c] \notin {"run", "unheard"} /\ pc'[c] # "store"
  /\ \A c \in Calls : c \in deleting /\ pc[c] = "store" => c \in deleting'

LEMMA DeleteStrikes == IInv /\ Delete({}) => Strikes
  BY DEF IInv, TypeOK, Delete, Strikes, Relied, Holds

LEMMA DeleteOwnStrikes ==
  ASSUME IInv, NEW c \in Calls, c \notin Relied, Delete({c})
  PROVE  Strikes
  BY DEF IInv, TypeOK, Delete, Strikes, Relied, Holds

\* What a delete leaves of the claims.
LEMMA DeleteKeeps == IInv /\ Strikes /\ Stays => Shared' /\ Storing'
<1> SUFFICES ASSUME IInv, Strikes, Stays PROVE Shared' /\ Storing'
  OBVIOUS
<1>1. Shared'
  <2> SUFFICES ASSUME NEW p \in heldInRedis
               PROVE  /\ inFlight[p] # NoCall /\ pc'[inFlight[p]] \in {"run", "unheard"}
                      /\ claimR' = inFlight[p] \/ inFlight[p] \in struck'
    BY DEF Shared, Holds, Stays
  <2>1. /\ inFlight[p] \in Calls /\ At[inFlight[p]] = p
        /\ pc[inFlight[p]] \in {"run", "unheard"} /\ Holds(inFlight[p])
    BY DEF IInv, TypeOK, Shared, Local
  <2>2. inFlight[p] \in Relied
    BY <2>1 DEF Relied
  <2>3. QED
    BY <2>1, <2>2 DEF Strikes, Stays
<1>2. Storing'
  <2> SUFFICES ASSUME NEW c \in Calls, pc'[c] = "store"
               PROVE  c \in deleting' /\ (claimR' = c \/ c \in struck')
    BY DEF Storing, Holds
  <2>1. pc[c] = "store"
    BY DEF Stays
  <2>2. c \in Relied /\ Holds(c) /\ c \in deleting
    BY <2>1 DEF Relied, IInv, Storing
  <2>3. QED
    BY <2>1, <2>2 DEF Strikes, Stays
<1>3. QED
  BY <1>1, <1>2

------------------------------------------------------------------------------
(* The steps                                                                *)

LEMMA LookKeeps ==
  ASSUME IInv, NEW c \in Calls, Look(c)
  PROVE  Local' /\ Shared' /\ Deletes' /\ Storing' /\ Unfailed'
<1>1. pc[c] = "idle" /\ pc' \in {[pc EXCEPT ![c] = "over"], [pc EXCEPT ![c] = "missed"]}
  BY DEF Look, Goto
<1>2. UNCHANGED <<claimR, inFlight, heldInRedis, pendingRelease, retrying, deleting, struck, dropFailed>>
  BY DEF Look, claims, ghosts
<1>3. QED
  BY <1>1, <1>2 DEF IInv, TypeOK, Local, Shared, Deletes, Storing, Unfailed, Holds, Claimed

LEMMA ClaimLocallyKeeps ==
  ASSUME IInv, NEW c \in Calls, ClaimLocally(c)
  PROVE  Local' /\ Shared' /\ Deletes' /\ Storing' /\ Unfailed'
<1>1. pc[c] = "missed"
  BY DEF ClaimLocally
<1>2. UNCHANGED <<claimR, heldInRedis, pendingRelease, retrying, deleting, struck, dropFailed>>
  BY DEF ClaimLocally, ghosts
<1>3. CASE inFlight[At[c]] = NoCall
  <2>1. pc' = [pc EXCEPT ![c] = "mark"] /\ inFlight' = [inFlight EXCEPT ![At[c]] = c]
    BY <1>3 DEF ClaimLocally, Goto
  <2>2. At[c] \notin heldInRedis
    BY <1>3 DEF IInv, Shared
  <2>3. Local'
    BY <1>1, <1>3, <2>1 DEF IInv, TypeOK, Local, Claimed
  <2>4. Shared' /\ Deletes' /\ Storing' /\ Unfailed'
    BY <1>1, <1>2, <2>1, <2>2 DEF IInv, TypeOK, Shared, Deletes, Storing, Unfailed, Holds
  <2>5. QED
    BY <2>3, <2>4
<1>4. CASE inFlight[At[c]] # NoCall
  <2>1. pc' = [pc EXCEPT ![c] = "over"] /\ inFlight' = inFlight
    BY <1>4 DEF ClaimLocally, Goto
  <2>2. QED
    BY <1>1, <1>2, <2>1 DEF IInv, TypeOK, Local, Shared, Deletes, Storing, Unfailed, Holds, Claimed
<1>5. QED
  BY <1>3, <1>4

LEMMA TakeClaimKeeps ==
  ASSUME IInv, NEW c \in Calls, TakeClaim(c)
  PROVE  Local' /\ Shared' /\ Deletes' /\ Storing' /\ Unfailed'
<1>1. pc[c] \in {"mark", "again"} /\ claimR = NoCall /\ claimR' = c
  BY DEF TakeClaim
<1>2. /\ heldInRedis' = heldInRedis \cup {At[c]} /\ pendingRelease' \subseteq pendingRelease
      /\ UNCHANGED <<inFlight, deleting, retrying, struck, dropFailed>>
  BY DEF TakeClaim, ghosts
<1>3. PICK place \in {"run", "unheard"} : pc' = [pc EXCEPT ![c] = place]
  BY DEF TakeClaim, Pass, Goto
<1>4. inFlight[At[c]] = c
  BY <1>1 DEF IInv, Local, Claimed
<1>5. Local'
  BY <1>1, <1>2, <1>3 DEF IInv, TypeOK, Local, Claimed
<1>6. Shared'
  <2> SUFFICES ASSUME NEW p \in heldInRedis'
               PROVE  /\ inFlight[p] # NoCall /\ pc'[inFlight[p]] \in {"run", "unheard"}
                      /\ claimR' = inFlight[p] \/ inFlight[p] \in struck'
    BY <1>2 DEF Shared, Holds
  <2>1. CASE p = At[c]
    BY <1>1, <1>3, <1>4, <2>1 DEF IInv, TypeOK, Holds
  <2>2. CASE p # At[c]
    BY <1>1, <1>2, <1>3, <2>2 DEF IInv, TypeOK, Local, Shared, Holds
  <2>3. QED
    BY <2>1, <2>2
<1>7. Deletes' /\ Storing' /\ Unfailed'
  BY <1>1, <1>2, <1>3 DEF IInv, TypeOK, Deletes, Storing, Unfailed, Holds, Claimed
<1>8. QED
  BY <1>5, <1>6, <1>7

LEMMA ClaimRefusedKeeps ==
  ASSUME IInv, NEW c \in Calls, ClaimRefused(c)
  PROVE  Local' /\ Shared' /\ Deletes' /\ Storing' /\ Unfailed'
<1>1. /\ pc[c] \in {"mark", "again"}
      /\ UNCHANGED <<claimR, heldInRedis, pendingRelease, retrying, deleting, struck, dropFailed>>
  BY DEF ClaimRefused, ghosts
<1>2. inFlight[At[c]] = c
  BY <1>1 DEF IInv, Local, Claimed
<1>3. At[c] \notin heldInRedis
  BY <1>1, <1>2 DEF IInv, Shared
<1>4. CASE pc[c] = "mark" /\ At[c] \in pendingRelease
  <2>1. pc' = [pc EXCEPT ![c] = "clear"] /\ UNCHANGED inFlight
    BY <1>4 DEF ClaimRefused, Goto
  <2>2. QED
    BY <1>1, <1>4, <2>1 DEF IInv, TypeOK, Local, Shared, Deletes, Storing, Unfailed, Holds, Claimed
<1>5. CASE ~(pc[c] = "mark" /\ At[c] \in pendingRelease)
  <2>1. Goto(c, "over") /\ inFlight' = [inFlight EXCEPT ![At[c]] = NoCall]
    BY <1>5 DEF ClaimRefused
  <2>2. Local'
    BY <1>1, <2>1, LocalReleased DEF Claimed, Places
  <2>3. Shared'
    <3> SUFFICES ASSUME NEW p \in heldInRedis
                 PROVE  /\ inFlight'[p] # NoCall /\ pc'[inFlight'[p]] \in {"run", "unheard"}
                        /\ claimR = inFlight'[p] \/ inFlight'[p] \in struck
      BY <1>1 DEF Shared, Holds
    <3>1. p # At[c] /\ inFlight[p] # c
      BY <1>1, <1>2, <1>3 DEF IInv, Shared
    <3>2. inFlight'[p] = inFlight[p] /\ pc'[inFlight[p]] = pc[inFlight[p]]
      BY <2>1, <3>1 DEF IInv, TypeOK, Shared, Goto
    <3>3. /\ inFlight[p] # NoCall /\ pc[inFlight[p]] \in {"run", "unheard"}
          /\ claimR = inFlight[p] \/ inFlight[p] \in struck
      BY DEF IInv, Shared, Holds
    <3>4. QED
      BY <3>2, <3>3
  <2>4. Deletes' /\ Storing' /\ Unfailed'
    BY <1>1, <2>1 DEF IInv, TypeOK, Deletes, Storing, Unfailed, Holds, Goto, Claimed
  <2>5. QED
    BY <2>2, <2>3, <2>4
<1>6. QED
  BY <1>4, <1>5

LEMMA ClearOwnKeeps ==
  ASSUME IInv, NEW c \in Calls, ClearOwn(c)
  PROVE  Local' /\ Shared' /\ Deletes' /\ Storing' /\ Unfailed'
<1>1. /\ pc[c] = "clear" /\ Delete({}) /\ pc' = [pc EXCEPT ![c] = "again"]
      /\ UNCHANGED <<inFlight, heldInRedis, deleting, retrying, dropFailed>>
  BY DEF ClearOwn, Goto
<1>2. Local'
  BY <1>1 DEF IInv, TypeOK, Local, Claimed
<1>3. Shared' /\ Storing'
  <2>1. Stays
    BY <1>1 DEF IInv, TypeOK, Stays
  <2>2. QED
    BY <1>1, <2>1, DeleteStrikes, DeleteKeeps
<1>4. dropFailed
  BY <1>1 DEF IInv, Unfailed
<1>5. Deletes' /\ Unfailed'
  BY <1>1, <1>4 DEF IInv, TypeOK, Deletes, Unfailed, Claimed
<1>6. QED
  BY <1>2, <1>3, <1>5

LEMMA ClaimFailsKeeps ==
  ASSUME IInv, NEW c \in Calls, ClaimFails(c)
  PROVE  Local' /\ Shared' /\ Deletes' /\ Storing' /\ Unfailed'
<1>1. /\ pc[c] \in {"mark", "clear", "again"}
      /\ UNCHANGED <<inFlight, heldInRedis, pendingRelease, retrying, deleting, dropFailed>>
  BY DEF ClaimFails
<1>2. PICK place \in {"run", "unheard"} : pc' = [pc EXCEPT ![c] = place]
  BY DEF ClaimFails, Pass, Goto
<1>3. Local'
  BY <1>1, <1>2 DEF IInv, TypeOK, Local, Claimed
<1>4. CASE UNCHANGED <<claimR, struck>>
  BY <1>1, <1>2, <1>4 DEF IInv, TypeOK, Local, Shared, Deletes, Storing, Unfailed, Holds, Claimed
<1>5. CASE claimR = NoCall /\ claimR' = c /\ UNCHANGED struck
  BY <1>1, <1>2, <1>5 DEF IInv, TypeOK, Local, Shared, Deletes, Storing, Unfailed, Holds, Claimed
<1>6. CASE pc[c] = "clear" /\ Delete({})
  <2>1. Shared' /\ Storing'
    <3>1. Stays
      BY <1>1, <1>2, <1>6 DEF IInv, TypeOK, Stays
    <3>2. QED
      BY <1>6, <3>1, DeleteStrikes, DeleteKeeps
  <2>2. dropFailed
    BY <1>6 DEF IInv, Unfailed
  <2>3. Deletes' /\ Unfailed'
    BY <1>1, <1>2, <2>2 DEF IInv, TypeOK, Deletes, Unfailed, Claimed
  <2>4. QED
    BY <1>3, <2>1, <2>3
<1>7. QED
  BY <1>3, <1>4, <1>5, <1>6 DEF ClaimFails

\* "close": the local claim goes, and the one in Redis if the process made it.
LEMMA ReleaseKeeps ==
  ASSUME IInv, NEW c \in Calls, pc[c] = "run", Release(c),
         NEW place \in {"store", "keep", "over", "gone"},
         place = "store" => At[c] \in heldInRedis,
         Goto(c, place), UNCHANGED <<claimR, pendingRelease, retrying, struck, dropFailed>>
  PROVE  Local' /\ Shared' /\ Deletes' /\ Storing' /\ Unfailed'
<1>1. /\ pc' = [pc EXCEPT ![c] = place]
      /\ inFlight' = [inFlight EXCEPT ![At[c]] = NoCall]
      /\ heldInRedis' = heldInRedis \ {At[c]}
      /\ deleting' = IF At[c] \in heldInRedis THEN deleting \cup {c} ELSE deleting
  BY DEF Release, Goto
<1>2. inFlight[At[c]] = c
  BY DEF IInv, Local, Claimed
<1>3. At[c] \in heldInRedis => Holds(c)
  BY <1>2 DEF IInv, Shared
<1>4. Local'
  BY <1>1, LocalReleased DEF Claimed, Places
<1>5. Shared'
  BY <1>1, <1>2 DEF IInv, TypeOK, Local, Shared, Holds
<1>6. Deletes' /\ Storing' /\ Unfailed'
  BY <1>1, <1>3 DEF IInv, TypeOK, Deletes, Storing, Unfailed, Holds, Claimed
<1>7. QED
  BY <1>4, <1>5, <1>6

LEMMA EndingKeeps ==
  ASSUME IInv, NEW c \in Calls, Ending(c)
  PROVE  Local' /\ Shared' /\ Deletes' /\ Storing' /\ Unfailed'
<1>1. CASE Deliver(c)
  BY <1>1, ReleaseKeeps DEF Deliver, ghosts
<1>2. CASE Fail(c)
  BY <1>2, ReleaseKeeps DEF Fail, ghosts
<1>3. CASE HangUp(c)
  BY <1>3, ReleaseKeeps DEF HangUp, ghosts
<1>4. QED
  BY <1>1, <1>2, <1>3 DEF Ending

\* A copy that is past its close moves on.
LEMMA GoneOrStoreKeeps ==
  ASSUME IInv, NEW c \in Calls, Gone(c) \/ Store(c)
  PROVE  Local' /\ Shared' /\ Deletes' /\ Storing' /\ Unfailed'
<1>1. /\ pc[c] \in {"gone", "store", "keep", "owe"}
      /\ \E place \in {"over", "owe", "served"} : pc' = [pc EXCEPT ![c] = place]
  BY DEF Gone, EndFree, EndCharged, Store, Goto
<1>2. UNCHANGED <<claimR, inFlight, heldInRedis, pendingRelease, retrying, deleting, struck, dropFailed>>
  BY DEF Gone, EndFree, EndCharged, Store, claims, ghosts
<1>3. QED
  BY <1>1, <1>2 DEF IInv, TypeOK, Local, Shared, Deletes, Storing, Unfailed, Holds, Claimed

LEMMA DropKeeps ==
  ASSUME IInv, NEW c \in Calls, Drop(c)
  PROVE  Local' /\ Shared' /\ Deletes' /\ Storing' /\ Unfailed'
<1>1. /\ c \in deleting /\ pc[c] # "store" /\ deleting' = deleting \ {c}
      /\ UNCHANGED <<pc, inFlight, heldInRedis, retrying>>
  BY DEF Drop
<1>2. c \notin Relied
  BY <1>1 DEF IInv, TypeOK, Local, Deletes, Relied, Claimed
<1>3. Local'
  BY <1>1 DEF IInv, Local
<1>4. CASE Delete({c})
  <2>1. Shared' /\ Storing'
    <3>1. Stays
      BY <1>1 DEF Stays
    <3>2. Strikes
      BY <1>2, <1>4, DeleteOwnStrikes
    <3>3. QED
      BY <3>1, <3>2, DeleteKeeps
  <2>2. claimR' = NoCall
    BY <1>4 DEF Delete
  <2>6. dropFailed \in BOOLEAN /\ dropFailed' \in BOOLEAN
    BY DEF IInv, TypeOK, Drop
  <2>3. dropFailed' = TRUE => Deletes' /\ Unfailed'
    BY <1>1 DEF IInv, Deletes, Unfailed
  <2>4. ASSUME dropFailed' = FALSE PROVE Deletes' /\ Unfailed'
    <3>1. dropFailed = FALSE /\ UNCHANGED pendingRelease
      BY <2>4 DEF Drop
    <3>2. claimR = c
      BY <1>1, <3>1 DEF IInv, Deletes
    <3>3. struck' = struck
      BY <1>4, <3>2 DEF Delete
    <3>4. \A d \in deleting : d = c
      BY <3>1, <3>2 DEF IInv, Deletes
    <3>5. QED
      BY <1>1, <3>1, <3>3, <3>4 DEF IInv, Deletes, Unfailed
  <2>5. QED
    BY <1>3, <2>1, <2>3, <2>4, <2>6
<1>5. CASE dropFailed' = TRUE /\ UNCHANGED <<claimR, struck>>
  BY <1>1, <1>3, <1>5 DEF IInv, Shared, Deletes, Storing, Unfailed, Holds
<1>6. QED
  BY <1>4, <1>5 DEF Drop

LEMMA SendRetryKeeps ==
  ASSUME IInv, NEW p \in Procs, SendRetry(p)
  PROVE  Local' /\ Shared' /\ Deletes' /\ Storing' /\ Unfailed'
<1>1. /\ p \in pendingRelease
      /\ UNCHANGED <<pc, claimR, inFlight, heldInRedis, deleting, struck, dropFailed>>
  BY DEF SendRetry, ghosts
<1>2. dropFailed
  BY <1>1 DEF IInv, Unfailed
<1>3. QED
  BY <1>1, <1>2 DEF IInv, Local, Shared, Deletes, Storing, Unfailed, Holds

LEMMA RetryDropKeeps ==
  ASSUME IInv, NEW p \in Procs, RetryDrop(p)
  PROVE  Local' /\ Shared' /\ Deletes' /\ Storing' /\ Unfailed'
<1>1. /\ p \in retrying /\ Delete({})
      /\ UNCHANGED <<pc, inFlight, heldInRedis, deleting, dropFailed>>
  BY DEF RetryDrop
<1>2. dropFailed
  BY <1>1 DEF IInv, Unfailed
<1>3. Shared' /\ Storing'
  <2>1. Stays
    BY <1>1 DEF Stays
  <2>2. QED
    BY <1>1, <2>1, DeleteStrikes, DeleteKeeps
<1>4. Local' /\ Deletes' /\ Unfailed'
  BY <1>1, <1>2 DEF IInv, Local, Deletes, Unfailed
<1>5. QED
  BY <1>3, <1>4

LEMMA LapseKeeps ==
  ASSUME IInv, Lapse
  PROVE  Local' /\ Shared' /\ Deletes' /\ Storing' /\ Unfailed'
<1>1. /\ deleting = {} /\ \A c \in Calls : pc[c] \notin {"run", "unheard"}
      /\ UNCHANGED <<pc, inFlight, heldInRedis, pendingRelease, retrying, deleting, struck, dropFailed>>
  BY DEF Lapse, Renews, ghosts
<1>2. heldInRedis = {}
  BY <1>1 DEF IInv, TypeOK, Shared
<1>3. QED
  BY <1>1, <1>2 DEF IInv, Local, Shared, Deletes, Storing, Unfailed

LEMMA CrashKeeps ==
  ASSUME IInv, NEW p \in Procs, Crash(p)
  PROVE  Local' /\ Shared' /\ Deletes' /\ Storing' /\ Unfailed'
<1>1. /\ \A c \in Calls : \/ pc'[c] = pc[c] /\ (At[c] # p \/ pc[c] \in {"idle", "served"})
                          \/ pc'[c] = "over" /\ At[c] = p
      /\ inFlight' = [inFlight EXCEPT ![p] = NoCall]
      /\ heldInRedis' = heldInRedis \ {p}
      /\ pendingRelease' \subseteq pendingRelease
      /\ retrying' \subseteq retrying
      /\ deleting' = { c \in deleting : At[c] # p }
      /\ UNCHANGED <<claimR, struck, dropFailed>>
  BY DEF IInv, TypeOK, Crash, ghosts
<1>2. Local'
  BY <1>1 DEF IInv, TypeOK, Local, Claimed
<1>3. Shared'
  <2> SUFFICES ASSUME NEW q \in heldInRedis, q # p
               PROVE  /\ inFlight'[q] # NoCall /\ pc'[inFlight'[q]] \in {"run", "unheard"}
                      /\ claimR' = inFlight'[q] \/ inFlight'[q] \in struck'
    BY <1>1 DEF Shared, Holds
  <2>1. inFlight'[q] = inFlight[q] /\ inFlight[q] \in Calls /\ At[inFlight[q]] = q
    BY <1>1 DEF IInv, TypeOK, Local, Shared
  <2>2. QED
    BY <1>1, <2>1 DEF IInv, Shared, Holds
<1>4. Deletes' /\ Storing' /\ Unfailed'
  BY <1>1 DEF IInv, TypeOK, Deletes, Storing, Unfailed, Holds, Claimed
<1>5. QED
  BY <1>2, <1>3, <1>4

LEMMA StepKeeps == IInv /\ [Next]_vars => IInv'
<1> SUFFICES ASSUME IInv, [Next]_vars PROVE IInv'
  OBVIOUS
<1>1. TypeOK'
  BY StepTypes DEF IInv
<1>2. Local' /\ Shared' /\ Deletes' /\ Storing' /\ Unfailed'
  <2>1. CASE UNCHANGED vars
    BY <2>1 DEF vars, claims, ghosts, IInv, Local, Shared, Deletes, Storing, Unfailed, Holds
  <2>2. ASSUME NEW c \in Calls,
               Look(c) \/ Claiming(c) \/ Ending(c) \/ Gone(c) \/ Store(c) \/ Drop(c)
        PROVE  Local' /\ Shared' /\ Deletes' /\ Storing' /\ Unfailed'
    BY <2>2, LookKeeps, ClaimLocallyKeeps, TakeClaimKeeps, ClaimRefusedKeeps, ClearOwnKeeps,
       ClaimFailsKeeps, EndingKeeps, GoneOrStoreKeeps, DropKeeps DEF Claiming
  <2>3. ASSUME NEW p \in Procs, SendRetry(p) \/ RetryDrop(p) \/ Crash(p)
        PROVE  Local' /\ Shared' /\ Deletes' /\ Storing' /\ Unfailed'
    BY <2>3, SendRetryKeeps, RetryDropKeeps, CrashKeeps
  <2>4. CASE Lapse
    BY <2>4, LapseKeeps
  <2>5. QED
    BY <2>1, <2>2, <2>3, <2>4 DEF Next
<1>3. QED
  BY <1>1, <1>2 DEF IInv

------------------------------------------------------------------------------
(* The theorems                                                             *)

\* The strengthening holds in every reachable state.
THEOREM Inductive == Spec => []IInv
<1>1. Init => IInv
  BY Initially
<1>2. IInv /\ [Next]_vars => IInv'
  BY StepKeeps
<1>3. QED
  BY <1>1, <1>2, PTL DEF Spec

\* Every variable of the middleware and its store keeps its type.
THEOREM TypeCorrect == Spec => []TypeOK
<1>1. IInv => TypeOK
  BY DEF IInv
<1>2. QED
  BY <1>1, Inductive, PTL

\* Two connected copies never run at once in one process, whatever Redis does
\* (claim, its first line).
THEOREM FloorHolds == Spec => []LocalFloor
<1>1. IInv => LocalFloor
  BY DEF IInv, Local, LocalFloor, Runs, Claimed
<1>2. QED
  BY <1>1, Inductive, PTL

\* Two connected copies whose processes both know the claim in Redis as theirs
\* do not run at once, unless a failed delete struck one (claim, release).
THEOREM SharedHolds == Spec => []SharedExclusion
<1>1. ASSUME IInv, NEW c \in Calls, NEW d \in Calls, c # d, Runs(c), Runs(d),
             {At[c], At[d]} \subseteq heldInRedis
      PROVE  dropFailed /\ {c, d} \cap struck # {}
  <2>1. inFlight[At[c]] = c /\ inFlight[At[d]] = d
    BY <1>1 DEF IInv, Local, Runs, Claimed
  <2>2. Holds(c) /\ Holds(d)
    BY <1>1, <2>1 DEF IInv, Shared
  <2>3. QED
    BY <1>1, <2>2 DEF IInv, Unfailed, Holds
<1>2. IInv => SharedExclusion
  BY <1>1 DEF SharedExclusion
<1>3. QED
  BY <1>2, Inductive, PTL

\* A copy that is still storing its answer holds the claim in Redis (set,
\* release).
THEOREM AnswerStoredFirst == Spec => []AnswerBeforeFree
<1>1. IInv => AnswerBeforeFree
  BY DEF IInv, Storing, Holds, AnswerBeforeFree
<1>2. QED
  BY <1>1, Inductive, PTL

==============================================================================
