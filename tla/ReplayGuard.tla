----------------------------- MODULE ReplayGuard -----------------------------
(***************************************************************************)
(* The replay guard (src/src/replay-guard.js, mounted by src/src/server.js)*)
(* for one signed payment authorization that is sent several times.        *)
(*                                                                         *)
(* A call claims the authorization before the paywall (begin) and, when    *)
(* its response ends or its client leaves, marks it consumed (settle) or   *)
(* lets it go (release).  With the shared store the claim and the mark are *)
(* Redis entries; without it, or when it fails and the call does not       *)
(* require it, they are a set and a map of the process.  Every store       *)
(* command is a step of its own, since every one is awaited.               *)
(*                                                                         *)
(* A store failure is taken to be shorter than the life a renewed claim    *)
(* has left (90 to 120 seconds).                                           *)
(***************************************************************************)
EXTENDS Naturals, FiniteSets

CONSTANTS
  Calls,     \* requests that carry the authorization
  Servers,   \* server processes
  ServerOf,  \* the process each call reaches
  Lone,      \* the process that serves when the shared claim is not required
  Modes,     \* how the process runs: "required" (the shared claim is required),
             \* "optional" (it is used when it answers), "none" (no shared store)
  Outages,   \* TRUE: a store command may fail
  Crashes,   \* TRUE: a process may crash
  NoCall     \* the holder of a free claim

ASSUME GuardAssumption ==
  /\ ServerOf \in [Calls -> Servers]
  /\ Lone \in Servers
  /\ Modes \subseteq {"required", "optional", "none"}
  /\ NoCall \notin Calls

VARIABLES
  mode,      \* the mode of this behavior
  mark,      \* the consumed mark in the store
  claim,     \* the call whose SET NX holds the claim in the store
  renewing,  \* the processes with a timer renewing the claim
  localMark, \* each process's consumed entry
  flying,    \* the processes whose inFlight set holds the authorization
  pc,        \* where each call is
  open,      \* the calls let past the guard whose run is not over
  grant,     \* how each call was granted
  charged,   \* the call, if any, whose settlement spent the authorization
  valid,     \* the authorization has not passed its validBefore
  lost,      \* the granted calls whose mark a failure or a crash lost
  expired    \* the granted calls whose mark ran its time

store   == <<mark, claim>>
process == <<renewing, localMark, flying>>
run     == <<open, grant, charged, valid>>
past    == <<lost, expired>>
vars    == <<mode, store, process, pc, run, past>>

\* How long a consumed mark is held: the default, or to the authorization's end.
Holds == {"none", "short", "long"}

Places == {"idle", "claim", "recheck", "back", "running", "mark", "drop", "release",
           "unheard", "done", "refused", "dead"}

TypeOK ==
  /\ mode \in Modes
  /\ mark \in Holds
  /\ claim \in Calls \cup {NoCall}
  /\ renewing \subseteq Servers
  /\ localMark \in [Servers -> Holds]
  /\ flying \subseteq Servers
  /\ pc \in [Calls -> Places]
  /\ open \subseteq Calls
  /\ grant \in [Calls -> {"none", "settled", "owed", "free"}]
  /\ charged \subseteq Calls
  /\ valid \in BOOLEAN
  /\ lost \subseteq Calls /\ expired \subseteq Calls

Init ==
  /\ mode \in Modes
  /\ mark = "none" /\ claim = NoCall
  /\ renewing = {} /\ flying = {}
  /\ localMark = [s \in Servers |-> "none"]
  /\ pc = [r \in Calls |-> "idle"]
  /\ open = {} /\ charged = {}
  /\ grant = [r \in Calls |-> "none"]
  /\ valid = TRUE
  /\ lost = {} /\ expired = {}

Goto(r, place) == pc' = [pc EXCEPT ![r] = place]

------------------------------------------------------------------------------
(* begin                                                                    *)

Serves(r) == mode = "required" \/ ServerOf[r] = Lone

\* The consumed mark is read first.
Begin(r) ==
  /\ pc[r] = "idle" /\ mode # "none" /\ Serves(r)
  /\ Goto(r, IF mark = "none" THEN "claim" ELSE "refused")
  /\ UNCHANGED <<mode, store, process, run, past>>

\* Mutant of TakeClaim: the SET is not NX.
TakeClaimAnyway(r) ==
  /\ pc[r] = "claim"
  /\ claim' = r
  /\ Goto(r, "recheck")
  /\ UNCHANGED <<mode, mark, process, run, past>>

\* SET NX: the claim is taken only when nobody holds it.
TakeClaim(r) ==
  /\ pc[r] = "claim"
  /\ IF claim = NoCall
     THEN claim' = r /\ Goto(r, "recheck")
     ELSE UNCHANGED claim /\ Goto(r, "refused")
  /\ UNCHANGED <<mode, mark, process, run, past>>

\* Mutant of Recheck: the mark is not read again.
RecheckTrusting(r) ==
  /\ pc[r] = "recheck"
  /\ Goto(r, "running")
  /\ renewing' = renewing \cup {ServerOf[r]}
  /\ open' = open \cup {r}
  /\ UNCHANGED <<mode, store, localMark, flying, grant, charged, valid, past>>

\* The mark is read again under the claim; the call goes on and its claim is renewed.
Recheck(r) ==
  /\ pc[r] = "recheck"
  /\ IF mark = "none"
     THEN /\ Goto(r, "running")
          /\ renewing' = renewing \cup {ServerOf[r]}
          /\ open' = open \cup {r}
     ELSE Goto(r, "back") /\ UNCHANGED <<renewing, open>>
  /\ UNCHANGED <<mode, store, localMark, flying, grant, charged, valid, past>>

\* The client left while begin was awaited: the server listens for the end of a
\* response that is over, starts no handler, and nothing settles or releases.
RecheckUnheard(r) ==
  /\ pc[r] = "recheck" /\ mark = "none"
  /\ Goto(r, "unheard")
  /\ renewing' = renewing \cup {ServerOf[r]}
  /\ UNCHANGED <<mode, store, localMark, flying, run, past>>

\* The claim a consumed authorization was found under is dropped.
Back(r) ==
  /\ pc[r] = "back"
  /\ claim' = NoCall
  /\ Goto(r, "refused")
  /\ UNCHANGED <<mode, mark, process, run, past>>

\* What a failed begin leaves of the claim: an SET whose reply was lost has
\* taken it; a claim known to be held is dropped when the store answers again.
ClaimAfterFailure(r, left) ==
  \/ left = claim
  \/ pc[r] = "claim" /\ claim = NoCall /\ left = r
  \/ pc[r] \in {"recheck", "back"} /\ left = NoCall

\* A store command of begin fails: a call that requires the store is refused.
BeginFails(r) ==
  /\ Outages /\ mode = "required"
  /\ pc[r] \in {"idle", "claim", "recheck", "back"}
  /\ ClaimAfterFailure(r, claim')
  /\ Goto(r, "refused")
  /\ UNCHANGED <<mode, mark, process, run, past>>

\* The per-process claim: without a store, or when the store fails a call that
\* does not require it.
BeginLocal(r) ==
  LET s == ServerOf[r]
  IN /\ Serves(r)
     /\ \/ pc[r] = "idle" /\ mode = "none" /\ UNCHANGED claim
        \/ /\ Outages /\ mode = "optional"
           /\ pc[r] \in {"idle", "claim", "recheck", "back"}
           /\ ClaimAfterFailure(r, claim')
     /\ IF localMark[s] = "none" /\ s \notin flying
        THEN /\ flying' = flying \cup {s}
             /\ open' = open \cup {r}
             /\ Goto(r, "running")
        ELSE Goto(r, "refused") /\ UNCHANGED <<flying, open>>
     /\ UNCHANGED <<mode, mark, renewing, localMark, grant, charged, valid, past>>

\* The same as RecheckUnheard, of a call that fell back to the process.
BeginLocalUnheard(r) ==
  LET s == ServerOf[r]
  IN /\ Outages /\ mode = "optional" /\ Serves(r)
     /\ pc[r] \in {"idle", "claim", "recheck", "back"}
     /\ ClaimAfterFailure(r, claim')
     /\ localMark[s] = "none" /\ s \notin flying
     /\ flying' = flying \cup {s}
     /\ Goto(r, "unheard")
     /\ UNCHANGED <<mode, mark, renewing, localMark, run, past>>

------------------------------------------------------------------------------
(* The run behind the paywall, and how it ends (finishGuard).               *)

\* The settlement spends the authorization, once, while it is valid.  A run
\* whose client left without a forgiveness ticket is charged all the same.
Charge(r) ==
  /\ r \in open /\ grant[r] \in {"none", "owed"}
  /\ charged = {} /\ valid
  /\ charged' = {r}
  /\ UNCHANGED <<mode, store, process, pc, open, grant, valid, past>>

\* The response ended or its client left: the renewal stops, whatever follows.
Ends(r, place) ==
  /\ pc[r] = "running"
  /\ renewing' = renewing \ {ServerOf[r]}
  /\ Goto(r, place)
  /\ UNCHANGED <<mode, store, localMark, flying, charged, valid, past>>

\* A settled 200.
Deliver(r) ==
  /\ r \in charged
  /\ Ends(r, "mark")
  /\ open' = open \ {r}
  /\ grant' = [grant EXCEPT ![r] = "settled"]

\* A 200 the first-call allowance served without a settlement.
DeliverFree(r) ==
  /\ r \notin charged
  /\ Ends(r, "mark")
  /\ open' = open \ {r}
  /\ grant' = [grant EXCEPT ![r] = "free"]

\* The client leaves before the first byte: the status still reads 200, and the
\* run goes on behind it.
HangUp(r) ==
  /\ Ends(r, "mark")
  /\ grant' = [grant EXCEPT ![r] = "owed"]
  /\ UNCHANGED open

\* The same, with a forgiveness ticket and no settlement sent: the charge is canceled.
HangUpForgiven(r) ==
  /\ r \notin charged
  /\ Ends(r, "mark")
  /\ grant' = [grant EXCEPT ![r] = "free"]
  /\ UNCHANGED open

\* Any other status.
Fail(r) ==
  /\ r \notin charged
  /\ Ends(r, "release")
  /\ open' = open \ {r}
  /\ UNCHANGED grant

\* A run whose client left is over.
RunOver(r) ==
  /\ r \in open /\ grant[r] # "none"
  /\ open' = open \ {r}
  /\ UNCHANGED <<mode, store, process, pc, grant, charged, valid, past>>

------------------------------------------------------------------------------
(* settle and release                                                       *)

\* Mutant of Hold: every mark has the default hold.
HoldDefault(r) == "short"

\* holdMsOf: a grant that was not settled is marked to the authorization's end.
\* The payment is an EIP-3009 authorization; a Solana, Stellar or Algorand
\* payment names no validBefore, and its free grant has the default hold too.
Hold(r) == IF grant[r] = "free" THEN "long" ELSE "short"

\* The mark first, then the claim is dropped.
WriteMark(r) ==
  /\ pc[r] = "mark" /\ mode # "none"
  /\ mark' = Hold(r)
  /\ Goto(r, "drop")
  /\ UNCHANGED <<mode, claim, process, run, past>>

\* The claim is deleted, whoever holds it.
DropClaim(r) ==
  /\ pc[r] = "drop"
  /\ claim' = NoCall
  /\ Goto(r, "done")
  /\ UNCHANGED <<mode, mark, process, run, past>>

\* The local half of settle.
MarkLocally(r) ==
  /\ flying' = flying \ {ServerOf[r]}
  /\ localMark' = [localMark EXCEPT ![ServerOf[r]] = Hold(r)]
  /\ Goto(r, "done")
  /\ UNCHANGED <<mode, renewing, run, expired>>

SettleLocal(r) ==
  /\ pc[r] = "mark" /\ mode = "none"
  /\ MarkLocally(r)
  /\ UNCHANGED <<store, lost>>

\* A store command of settle fails: the mark may have been written, the claim
\* may have been dropped; the process keeps a mark of its own.
SettleFails(r) ==
  /\ Outages /\ mode # "none"
  /\ \/ pc[r] = "mark" /\ UNCHANGED store /\ lost' = lost \cup {r}
     \/ pc[r] = "mark" /\ mark' = Hold(r) /\ UNCHANGED <<claim, lost>>
     \/ pc[r] = "drop" /\ claim' \in {claim, NoCall} /\ UNCHANGED <<mark, lost>>
  /\ MarkLocally(r)

Release(r) ==
  /\ pc[r] = "release" /\ mode # "none"
  /\ claim' = NoCall
  /\ Goto(r, "done")
  /\ UNCHANGED <<mode, mark, process, run, past>>

\* The local half of release: alone, or after the store failed.
ReleaseLocal(r) ==
  /\ pc[r] = "release"
  /\ \/ mode = "none" /\ UNCHANGED claim
     \/ Outages /\ mode # "none" /\ claim' \in {claim, NoCall}
  /\ flying' = flying \ {ServerOf[r]}
  /\ Goto(r, "done")
  /\ UNCHANGED <<mode, mark, renewing, localMark, run, past>>

------------------------------------------------------------------------------
(* Time and crashes                                                         *)

\* A store command takes less time than the claim's life.
MidCommand == {"recheck", "back", "mark", "drop", "release"}

\* Mutant of RenewalCap: a claim is renewed for as long as its process lives.
RenewalUncapped(s) == s \in renewing /\ UNCHANGED vars

\* The renewal of a claim nobody settles or releases stops after MAX_HOLD_MS,
\* which is longer than any run.
RenewalCap(s) ==
  /\ s \in renewing
  /\ \A r \in Calls : ServerOf[r] = s => pc[r] # "running"
  /\ renewing' = renewing \ {s}
  /\ UNCHANGED <<mode, store, localMark, flying, pc, run, past>>

\* A claim nobody renews lapses with its time to live.
Lapse ==
  /\ claim # NoCall /\ renewing = {}
  /\ pc[claim] \notin MidCommand
  /\ claim' = NoCall
  /\ UNCHANGED <<mode, mark, process, pc, run, past>>

Granted == { r \in Calls : grant[r] # "none" }

\* The hold is longer than any run, and a long one outlives the authorization.
HoldOver(hold) == hold # "none" /\ open = {} /\ (hold = "long" => ~valid)

MarkExpires ==
  /\ HoldOver(mark)
  /\ \A r \in Calls : pc[r] \notin {"mark", "drop"}
  /\ mark' = "none"
  /\ expired' = expired \cup Granted
  /\ UNCHANGED <<mode, claim, process, pc, run, lost>>

LocalMarkExpires(s) ==
  /\ HoldOver(localMark[s])
  /\ \A r \in Calls : pc[r] # "mark"
  /\ localMark' = [localMark EXCEPT ![s] = "none"]
  /\ expired' = expired \cup (IF mode = "none" THEN Granted ELSE {})
  /\ UNCHANGED <<mode, store, renewing, flying, pc, run, lost>>

ValidityEnds ==
  /\ valid
  /\ valid' = FALSE
  /\ UNCHANGED <<mode, store, process, pc, open, grant, charged, past>>

\* A process dies with its calls, its timers and its local entries; its next
\* calls find it restarted.
Crash(s) ==
  LET here == { r \in Calls : ServerOf[r] = s }
  IN /\ Crashes
     /\ pc' = [r \in Calls |-> IF r \in here /\ pc[r] \notin {"idle", "done", "refused"}
                               THEN "dead" ELSE pc[r]]
     /\ open' = open \ here
     /\ lost' = lost \cup { r \in here \cap Granted : mode = "none" \/ pc[r] = "mark" }
     /\ renewing' = renewing \ {s} /\ flying' = flying \ {s}
     /\ localMark' = [localMark EXCEPT ![s] = "none"]
     /\ UNCHANGED <<mode, store, grant, charged, valid, expired>>

------------------------------------------------------------------------------

\* The steps a call takes by itself.
Step(r) ==
  \/ Begin(r) \/ TakeClaim(r) \/ Recheck(r) \/ Back(r) \/ BeginLocal(r)
  \/ WriteMark(r) \/ DropClaim(r) \/ SettleLocal(r) \/ Release(r) \/ ReleaseLocal(r)

\* The ways a run ends.
End(r) == Deliver(r) \/ DeliverFree(r) \/ HangUp(r) \/ HangUpForgiven(r) \/ Fail(r)

Next ==
  \/ \E r \in Calls : \/ Step(r) \/ End(r) \/ Charge(r) \/ RunOver(r)
                      \/ BeginFails(r) \/ SettleFails(r)
                      \/ RecheckUnheard(r) \/ BeginLocalUnheard(r)
  \/ \E s \in Servers : LocalMarkExpires(s) \/ RenewalCap(s) \/ Crash(s)
  \/ Lapse \/ MarkExpires \/ ValidityEnds

Spec == Init /\ [][Next]_vars

\* A call's commands are answered or fail, a run has a budget, a renewal is
\* capped, a claim that is not renewed lapses.
FairSpec ==
  /\ Spec
  /\ \A r \in Calls : WF_vars(Step(r)) /\ WF_vars(End(r))
  /\ \A s \in Servers : WF_vars(RenewalCap(s))
  /\ WF_vars(Lapse)

------------------------------------------------------------------------------
(* Properties of a process that requires the shared claim, or that has no   *)
(* shared store.  One that falls back when a command fails knows nothing of *)
(* the calls begun through the store.                                       *)

Guarded == mode # "optional"

\* One authorization is behind one run at a time: the concurrent replay the
\* guard is for.  A run whose client left still runs, on the mark alone.
OneRunAtATime == Guarded => \A r, q \in open \ lost : r = q

\* An authorization that was granted, charged or not, lets no other call past
\* the guard while its mark is held.
GrantedOnce ==
  [][Guarded => \A r \in open' \ open : \A q \in Granted : q \in lost \cup expired]_vars

\* A grant its buyer was told is free is not charged by a later use of the same
\* EIP-3009 authorization, which is still good on chain.
FreeIsNeverCharged ==
  [][Guarded => \A r \in (charged' \ charged) \ lost :
                  \A q \in Calls : grant[q] = "free" => q \in lost]_vars

------------------------------------------------------------------------------
(* Implementation of OneUse, by a process that is Guarded *)

UsersNow   == { r \in open \ lost : Guarded }
GrantsNow  == { r \in Granted \ (lost \cup expired) : Guarded }
FreeNow    == { r \in GrantsNow : grant[r] = "free" }
LostNow    == { r \in lost : Guarded }
ChargedNow == { r \in charged : Guarded }

Use == INSTANCE OneUse WITH
  MayFail <- Outages \/ Crashes, users <- UsersNow, granted <- GrantsNow, free <- FreeNow,
  lost <- LostNow, charged <- ChargedNow

\* However copies of one authorization are interleaved, crash, or lapse, on one
\* process or several, it is used by one call at a time and granted once, and a
\* grant is forgotten only when it was lost or is old enough, and a free one not
\* before the authorization ends.
ImplementsOneUse == Use!Spec

------------------------------------------------------------------------------
(* Liveness *)

\* A claim is not held for good: not by a call that died, nor by one whose
\* release failed, whose claim's reply was lost, or whose client left unheard.
ClaimFreed == \A r \in Calls : claim = r ~> claim # r

==============================================================================
