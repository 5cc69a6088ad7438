----------------------------- MODULE Idempotency -----------------------------
(***************************************************************************)
(* Copies of one keyed call in the idempotency middleware                  *)
(* (src/src/idempotency.js) and its store (src/src/idempotency-store.js).  *)
(*                                                                         *)
(* All copies carry one Idempotency-Key, one body and one prepaid credits  *)
(* key, the credential that does not refuse its own second use: each has   *)
(* passed the credits gate and reaches the middleware of some process.     *)
(* A copy looks for the stored answer, claims the call in the process and  *)
(* then in Redis, runs, and on the end of its response stores the answer   *)
(* and releases both claims.  The connection may close at any time.        *)
(*                                                                         *)
(* Each Redis command is a step that is answered, or fails and may have    *)
(* taken effect.  Failures are shorter than the life a renewed claim has   *)
(* left (90 to 120 seconds), so a delete is retried before the claim it is *)
(* about could lapse.                                                      *)
(***************************************************************************)
EXTENDS FiniteSets, Naturals

CONSTANTS
  Calls,       \* the copies of the call
  Procs,       \* the processes
  NoCall,      \* no copy
  At,          \* the process each copy reaches
  Failures,    \* TRUE: Redis commands may fail
  Crashes      \* TRUE: processes may crash

ASSUME IdempotencyAssumption == NoCall \notin Calls /\ At \in [Calls -> Procs]

VARIABLES
  pc,             \* where each copy is
  answerR,        \* Redis holds the stored answer
  answerL,        \* the processes that hold it
  claimR,         \* the copy whose claim is in Redis (Redis knows only that there is one)
  inFlight,       \* the copy that holds each process's local claim
  heldInRedis,    \* the processes that know the claim in Redis as theirs
  pendingRelease, \* the processes whose delete of it failed
  deleting,       \* the copies whose delete is on its way
  retrying,       \* the processes whose second delete is
  struck,         \* the copies whose claim another's delete removed
  dropFailed      \* a delete has failed

answers == <<answerR, answerL>>
claims  == <<claimR, inFlight, heldInRedis, pendingRelease, deleting, retrying>>
ghosts  == <<struck, dropFailed>>
vars    == <<pc, answers, claims, ghosts>>

\* A copy that was replayed, refused or not paid for is over; a paid and
\* delivered one is served once its answer was sent to Redis.
Places == {"idle", "missed", "mark", "clear", "again", "run", "gone", "unheard",
           "store", "keep", "owe", "served", "over"}

TypeOK ==
  /\ pc \in [Calls -> Places]
  /\ answerR \in BOOLEAN
  /\ answerL \subseteq Procs
  /\ claimR \in Calls \cup {NoCall}
  /\ inFlight \in [Procs -> Calls \cup {NoCall}]
  /\ heldInRedis \subseteq Procs
  /\ pendingRelease \subseteq Procs
  /\ deleting \subseteq Calls /\ retrying \subseteq Procs
  /\ struck \subseteq Calls /\ dropFailed \in BOOLEAN

Init ==
  /\ pc = [c \in Calls |-> "idle"]
  /\ answerR = FALSE /\ answerL = {}
  /\ claimR = NoCall
  /\ inFlight = [p \in Procs |-> NoCall]
  /\ heldInRedis = {} /\ pendingRelease = {} /\ deleting = {} /\ retrying = {}
  /\ struck = {} /\ dropFailed = FALSE

Goto(c, place) == pc' = [pc EXCEPT ![c] = place]

\* The claims in Redis that a copy still counts on: it runs, or its answer is
\* on its way.
Relied == { c \in Calls : \/ inFlight[At[c]] = c /\ At[c] \in heldInRedis
                          \/ pc[c] = "store" }

\* DEL: the claim goes, whoever made it.
Delete(own) ==
  /\ claimR' = NoCall
  /\ struck' = struck \cup (({claimR} \cap Relied) \ own)

------------------------------------------------------------------------------
(* The answer, then the claim                                               *)

\* get: Redis first, then (a miss, or a failure) the process's own store.
Look(c) ==
  /\ pc[c] = "idle"
  /\ \E heard \in {TRUE, ~Failures} :
       Goto(c, IF At[c] \in answerL \/ (heard /\ answerR) THEN "over" ELSE "missed")
  /\ UNCHANGED <<answers, claims, ghosts>>

\* claim, its first line: a duplicate in this process is refused.
ClaimLocally(c) ==
  /\ pc[c] = "missed"
  /\ IF inFlight[At[c]] = NoCall
     THEN Goto(c, "mark") /\ inFlight' = [inFlight EXCEPT ![At[c]] = c]
     ELSE Goto(c, "over") /\ UNCHANGED inFlight
  /\ UNCHANGED <<answers, claimR, heldInRedis, pendingRelease, deleting, retrying, ghosts>>

\* The copy passes.  A client that left while the claim was awaited closed its
\* response before anyone listened for the close.
Pass(c) == \E place \in {"run", "unheard"} : Goto(c, place)

\* SET NX, accepted.
TakeClaim(c) ==
  /\ pc[c] \in {"mark", "again"} /\ claimR = NoCall
  /\ claimR' = c
  /\ heldInRedis' = heldInRedis \cup {At[c]}
  /\ pendingRelease' = pendingRelease \ {At[c]}
  /\ Pass(c)
  /\ UNCHANGED <<answers, inFlight, deleting, retrying, ghosts>>

\* SET NX, refused: the claim is this process's own, not yet deleted, or
\* another copy's.
ClaimRefused(c) ==
  /\ pc[c] \in {"mark", "again"} /\ claimR # NoCall
  /\ IF pc[c] = "mark" /\ At[c] \in pendingRelease
     THEN Goto(c, "clear") /\ UNCHANGED inFlight
     ELSE Goto(c, "over") /\ inFlight' = [inFlight EXCEPT ![At[c]] = NoCall]
  /\ UNCHANGED <<answers, claimR, heldInRedis, pendingRelease, deleting, retrying, ghosts>>

\* The process's own claim is deleted, and the SET NX sent again.
ClearOwn(c) ==
  /\ pc[c] = "clear"
  /\ Delete({})
  /\ pendingRelease' = pendingRelease \ {At[c]}
  /\ Goto(c, "again")
  /\ UNCHANGED <<answers, inFlight, heldInRedis, deleting, retrying, dropFailed>>

\* Mutant of ClaimFails: the local claim is let go with the one in Redis.
ClaimFailsLetGo(c) ==
  /\ Failures /\ pc[c] \in {"mark", "clear", "again"}
  /\ inFlight' = [inFlight EXCEPT ![At[c]] = NoCall]
  /\ Pass(c)
  /\ UNCHANGED <<answers, claimR, heldInRedis, pendingRelease, deleting, retrying, ghosts>>

\* A command of claim failed: the local claim guards this process.
ClaimFails(c) ==
  /\ Failures /\ pc[c] \in {"mark", "clear", "again"}
  /\ \/ UNCHANGED <<claimR, struck>>
     \/ pc[c] # "clear" /\ claimR = NoCall /\ claimR' = c /\ UNCHANGED struck
     \/ pc[c] = "clear" /\ Delete({})
  /\ Pass(c)
  /\ UNCHANGED <<answers, inFlight, heldInRedis, pendingRelease, deleting, retrying, dropFailed>>

------------------------------------------------------------------------------
(* The end of the response                                                  *)

\* Mutant of Release: Redis is told to delete the claim whoever made it.
ReleaseBlind(c) ==
  /\ inFlight' = [inFlight EXCEPT ![At[c]] = NoCall]
  /\ heldInRedis' = heldInRedis \ {At[c]}
  /\ deleting' = deleting \cup {c}

\* release, on "close": the local claim goes at once, the one in Redis, if this
\* process made it, with a DEL.
Release(c) ==
  /\ inFlight' = [inFlight EXCEPT ![At[c]] = NoCall]
  /\ heldInRedis' = heldInRedis \ {At[c]}
  /\ deleting' = IF At[c] \in heldInRedis THEN deleting \cup {c} ELSE deleting

\* A 200 was delivered and debited: "finish" stores the answer, here at once and in Redis
\* next; the "close" that follows releases, its DEL after that SET.
Deliver(c) ==
  /\ pc[c] = "run"
  /\ answerL' = answerL \cup {At[c]}
  /\ Release(c)
  /\ Goto(c, IF At[c] \in heldInRedis THEN "store" ELSE "keep")
  /\ UNCHANGED <<answerR, claimR, pendingRelease, retrying, ghosts>>

\* Any other status is neither debited nor stored.
Fail(c) ==
  /\ pc[c] = "run"
  /\ Release(c)
  /\ Goto(c, "over")
  /\ UNCHANGED <<answers, claimR, pendingRelease, retrying, ghosts>>

\* Mutant of HangUp: the claims are released on "finish" only.
HangUpUnreleased(c) ==
  /\ pc[c] = "run"
  /\ Goto(c, "gone")
  /\ UNCHANGED <<answers, claims, ghosts>>

\* The client leaves before the first byte, while the handler runs on, or before the last:
\* "close" releases.
HangUp(c) ==
  /\ pc[c] = "run"
  /\ Release(c)
  /\ Goto(c, "gone")
  /\ UNCHANGED <<answers, claimR, pendingRelease, retrying, ghosts>>

\* The hang-up is forgiven, the call failed, or its answer was sent in part: nothing
\* is stored.
EndFree(c) ==
  /\ pc[c] = "gone"
  /\ Goto(c, "over")
  /\ UNCHANGED <<answers, claims, ghosts>>

\* The hang-up is charged: a debt is booked and the answer stored under it.
EndCharged(c) ==
  /\ pc[c] = "gone"
  /\ answerL' = answerL \cup {At[c]}
  /\ Goto(c, "owe")
  /\ UNCHANGED <<answerR, claims, ghosts>>

\* SET of the answer, or its failure.
Store(c) ==
  /\ pc[c] \in {"store", "keep", "owe"}
  /\ \/ answerR' = TRUE
     \/ Failures /\ UNCHANGED answerR
  /\ Goto(c, IF pc[c] = "owe" THEN "over" ELSE "served")
  /\ UNCHANGED <<answerL, claims, ghosts>>

\* Mutant of Drop: the delete does not wait for the answer.
DropEarly(c) ==
  /\ c \in deleting
  /\ Delete({c})
  /\ deleting' = deleting \ {c}
  /\ UNCHANGED <<pc, answers, inFlight, heldInRedis, pendingRelease, retrying, dropFailed>>

\* DEL of the claim, sent after the SET of the answer; a failed one is retried.
Drop(c) ==
  /\ c \in deleting /\ pc[c] # "store"
  /\ \/ Delete({c}) /\ UNCHANGED <<pendingRelease, dropFailed>>
     \/ /\ Failures
        /\ pendingRelease' = pendingRelease \cup {At[c]}
        /\ dropFailed' = TRUE
        /\ Delete({c}) \/ UNCHANGED <<claimR, struck>>
  /\ deleting' = deleting \ {c}
  /\ UNCHANGED <<pc, answers, inFlight, heldInRedis, retrying>>

\* scheduleRetry: a timer sends the failed delete again.
SendRetry(p) ==
  /\ p \in pendingRelease \ retrying
  /\ retrying' = retrying \cup {p}
  /\ UNCHANGED <<pc, answers, claimR, inFlight, heldInRedis, pendingRelease, deleting, ghosts>>

\* It lands, though this process may have claimed again meanwhile; the claim is
\* pending until its answer is heard.
RetryDrop(p) ==
  /\ p \in retrying
  /\ Delete({})
  /\ retrying' = retrying \ {p}
  /\ pendingRelease' \in {pendingRelease, pendingRelease \ {p}}
  /\ UNCHANGED <<pc, answers, inFlight, heldInRedis, deleting, dropFailed>>

------------------------------------------------------------------------------
(* Time and crashes                                                         *)

\* renew extends the claim in Redis by its key, whoever made it, until "close".
Renews(c) == pc[c] \in {"run", "unheard"}

\* A claim nobody renews or is about to delete lapses.
Lapse ==
  /\ claimR # NoCall
  /\ deleting = {} /\ pendingRelease = {} /\ retrying = {}
  /\ \A c \in Calls : ~Renews(c)
  /\ claimR' = NoCall
  /\ UNCHANGED <<pc, answers, inFlight, heldInRedis, pendingRelease, deleting, retrying, ghosts>>

Crash(p) ==
  /\ Crashes
  /\ pc' = [c \in Calls |-> IF At[c] = p /\ pc[c] \notin {"idle", "served"} THEN "over" ELSE pc[c]]
  /\ answerL' = answerL \ {p}
  /\ inFlight' = [inFlight EXCEPT ![p] = NoCall]
  /\ heldInRedis' = heldInRedis \ {p}
  /\ pendingRelease' = pendingRelease \ {p}
  /\ deleting' = { c \in deleting : At[c] # p }
  /\ retrying' = retrying \ {p}
  /\ UNCHANGED <<answerR, claimR, ghosts>>

------------------------------------------------------------------------------

Claiming(c) == ClaimLocally(c) \/ TakeClaim(c) \/ ClaimRefused(c) \/ ClearOwn(c) \/ ClaimFails(c)
Ending(c)   == Deliver(c) \/ Fail(c) \/ HangUp(c)
Gone(c)     == EndFree(c) \/ EndCharged(c)

Next ==
  \/ \E c \in Calls : Look(c) \/ Claiming(c) \/ Ending(c) \/ Gone(c) \/ Store(c) \/ Drop(c)
  \/ \E p \in Procs : SendRetry(p) \/ RetryDrop(p) \/ Crash(p)
  \/ Lapse

Spec == Init /\ [][Next]_vars

\* Requests go on, responses end, timers fire, keys lapse.
FairSpec ==
  /\ Spec
  /\ \A c \in Calls : WF_vars(Claiming(c)) /\ WF_vars(Ending(c)) /\ WF_vars(Gone(c))
                      /\ WF_vars(Store(c)) /\ WF_vars(Drop(c))
  /\ \A p \in Procs : WF_vars(SendRetry(p)) /\ WF_vars(RetryDrop(p))
  /\ WF_vars(Lapse)

------------------------------------------------------------------------------
(* Properties                                                               *)

\* A copy that runs with its client connected.
Runs(c) == pc[c] = "run"

\* The per-process guarantee is the floor: whatever Redis does, two connected
\* copies never run at once in one process.
LocalFloor == \A c, d \in Calls : c # d /\ Runs(c) /\ Runs(d) => At[c] # At[d]

\* Redis adds the guarantee across containers: two connected copies that both
\* claimed there never run at once, whichever claims were released, cleared, or
\* made while Redis failed; only the retry of a failed delete may strike one.
SharedExclusion ==
  \A c, d \in Calls :
    c # d /\ Runs(c) /\ Runs(d) /\ {At[c], At[d]} \subseteq heldInRedis
      => dropFailed /\ {c, d} \cap struck # {}

\* The claim in Redis outlasts the store of the answer, so no other container
\* can find neither.
AnswerBeforeFree == \A c \in Calls : pc[c] = "store" => claimR = c \/ c \in struck

\* The claims of a copy whose close is heard are released, here and in Redis,
\* unless a copy nobody heard renews the one in Redis for ever.
ClaimFreed ==
  \A c \in Calls :
    Runs(c) ~> (inFlight[At[c]] # c /\ (claimR # c \/ \E d \in Calls : pc[d] = "unheard"))

\* "an agent that paid but lost the response doesn't pay twice"
\* (idempotency.js): the key pays for one delivery of the keyed call
\* (a charge that was not delivered is a debt, and paid back).
PaidOnce == Cardinality({ c \in Calls : pc[c] \in {"store", "keep", "served"} }) <= 1

==============================================================================
