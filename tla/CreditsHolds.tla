---------------------------- MODULE CreditsHolds ----------------------------
(***************************************************************************)
(* One prepaid credits key on the state database (src/src/credits.js).     *)
(*                                                                         *)
(* A key is one row.  Every move of its money is one transaction that      *)
(* locks the row, so a transaction is one atomic step here; what is not    *)
(* atomic is everything around it: the request that holds the money runs   *)
(* on one of several server processes, its connection may close at any     *)
(* point, its process may crash, and the reply of a committed transaction  *)
(* may be lost.  A sweep on every process ends the holds nobody ends.      *)
(*                                                                         *)
(* One unit of time is the refresh interval of a hold (a third of the      *)
(* abandoned-hold window); ages are counted in it and saturate.            *)
(***************************************************************************)
EXTENDS Totals

CONSTANTS
  Calls,        \* the paid calls made with the key; a call is its hold id
  Servers,      \* the server processes that share the database
  Price,        \* list price of each call, the amount it holds
  Loaded,       \* what the key was loaded with
  Untracked,    \* held money with no entry, left by a build without entries
  MeterCharges, \* amounts a metered route may report for a call
  RefundTotals, \* running totals Stripe may report as refunded
  Disputes,     \* TRUE: the payment may be disputed
  Operator,     \* TRUE: the operator may switch the key off and on
  Crashes,      \* TRUE: a server process may crash and restart
  LostReplies,  \* TRUE: the reply of a committed transaction may be lost
  RefreshFails, \* TRUE: a refresh of a running hold may fail
  Window,       \* CREDITS_ABANDONED_HOLD_MS, in refresh intervals
  SettleFor,    \* whole intervals a settle is retried (0.9 of the window)
  RefreshFor,   \* intervals a hold is refreshed at most (60 minutes)
  Keep,         \* SETTLED_KEEP_MS, in intervals
  KeepMax       \* SETTLED_KEEP_MAX

ASSUME CallsAssumption == IsFiniteSet(Calls)

ASSUME PriceAssumption == Price \in [Calls -> Nat \ {0}]

ASSUME MoneyAssumption ==
  /\ Loaded \in Nat
  /\ Untracked \in 0 .. Loaded
  /\ MeterCharges \subseteq Nat \ {0}
  /\ RefundTotals \subseteq Nat

ASSUME TimeAssumption ==
  /\ Window \in Nat \ {0}
  /\ SettleFor \in Nat
  /\ SettleFor < Window
  /\ RefreshFor \in Nat
  /\ Keep \in Nat
  /\ KeepMax \in Nat \ {0}

ASSUME SwitchAssumption ==
  /\ Disputes \in BOOLEAN /\ Operator \in BOOLEAN /\ Crashes \in BOOLEAN
  /\ LostReplies \in BOOLEAN /\ RefreshFails \in BOOLEAN

VARIABLES
  \* the key's row
  balance,   \* balanceMicro
  held,      \* heldMicro
  spent,     \* spentMicro
  refunded,  \* refundedMicro
  cause,     \* disabled and disabledReason: "no" when the key is enabled
  entries,   \* the hold ids in holds
  mark,      \* holds[c].s.m of an entry marked settling, 0 when it is not
  settled,   \* the hold ids in settledHolds
  prior,     \* settledHolds[c]: what the settle took, and who booked it
  age,       \* intervals since holds[c].at, or since settledHolds[c].at
  \* the requests, in the memory of a server process
  pc,        \* where the request and its hold are
  server,    \* the process that runs it
  answer,    \* the answer it ended with
  ask,       \* the amount its settle asks for
  waited,    \* intervals it has been gone, unheard or settling
  marking,   \* amount of the call's markSettling that has not run yet, or 0
  closed,    \* calls whose connection closed before the answer finished
  \* what happened to each call's money, for the properties
  taken,     \* what was debited for it
  sold,      \* what the sales ledger was told
  clawed,    \* what refunds took off the balance
  due        \* the disable causes reported and not withdrawn

row      == <<balance, held, spent, refunded, cause, entries, mark, settled, prior, age>>
requests == <<pc, server, answer, ask, waited, marking, closed>>
ghosts   == <<taken, sold, clawed, due>>
vars     == <<row, requests, ghosts>>

Causes == {"no", "operator", "refunded", "disputed"}

States == {"idle", "running", "streaming", "ended", "gone", "unheard", "settling",
           "releasing", "done", "refused", "dead"}

\* The request still holds its money: its id is in liveHolds of its process.
LiveStates == {"running", "streaming", "ended", "gone", "unheard", "settling", "releasing"}

Live(c) == pc[c] \in LiveStates

LiveOn(c, s) == Live(c) /\ server[c] = s

TypeOK ==
  /\ balance \in Nat /\ held \in Nat /\ spent \in Nat /\ refunded \in Nat
  /\ cause \in Causes
  /\ entries \subseteq Calls
  /\ mark \in [Calls -> Nat]
  /\ settled \subseteq Calls
  /\ prior \in [Calls -> [m : Nat, booked : BOOLEAN]]
  /\ age \in [Calls -> Nat]
  /\ pc \in [Calls -> States]
  /\ server \in [Calls -> Servers]
  /\ answer \in [Calls -> {"none", "ok", "bad"}]
  /\ ask \in [Calls -> Nat]
  /\ waited \in [Calls -> Nat]
  /\ marking \in [Calls -> Nat]
  /\ closed \subseteq Calls
  /\ taken \in [Calls -> Nat]
  /\ sold \in [Calls -> Nat]
  /\ clawed \in Nat
  /\ due \subseteq Causes \ {"no"}

Init ==
  /\ balance = Loaded - Untracked /\ held = Untracked /\ spent = 0
  /\ refunded = 0 /\ cause = "no"
  /\ entries = {} /\ mark = [c \in Calls |-> 0]
  /\ settled = {} /\ prior = [c \in Calls |-> [m |-> 0, booked |-> FALSE]]
  /\ age = [c \in Calls |-> 0]
  /\ pc = [c \in Calls |-> "idle"]
  /\ server \in [Calls -> Servers]
  /\ answer = [c \in Calls |-> "none"]
  /\ ask = [c \in Calls |-> 0]
  /\ waited = [c \in Calls |-> 0]
  /\ marking = [c \in Calls |-> 0] /\ closed = {}
  /\ taken = [c \in Calls |-> 0] /\ sold = [c \in Calls |-> 0] /\ clawed = 0
  /\ due = {}

------------------------------------------------------------------------------
(* Placing the hold, before the handler runs *)

\* Mutant of PlaceHold: the balance is not checked.
PlaceHoldUnchecked(c) ==
  /\ cause = "no"
  /\ balance' = balance - Price[c]
  /\ held' = held + Price[c]
  /\ entries' = entries \cup {c}
  /\ age' = [age EXCEPT ![c] = 0]
  /\ UNCHANGED <<spent, refunded, cause, mark, settled, prior>>

\* authorizeOn: the list price moves from the balance into a new entry.
PlaceHold(c) ==
  /\ cause = "no"
  /\ balance >= Price[c]
  /\ balance' = balance - Price[c]
  /\ held' = held + Price[c]
  /\ entries' = entries \cup {c}
  /\ age' = [age EXCEPT ![c] = 0]
  /\ UNCHANGED <<spent, refunded, cause, mark, settled, prior>>

\* The hold is placed; the gate lets the request through and guards the hold.
Authorize(c) ==
  /\ pc[c] = "idle"
  /\ PlaceHold(c)
  /\ pc' = [pc EXCEPT ![c] = "running"]
  /\ UNCHANGED <<server, answer, ask, waited, marking, closed, ghosts>>

\* The hold was placed and the reply lost: the buyer is answered 503, no
\* request is behind the entry.
AuthorizeLost(c) ==
  /\ LostReplies
  /\ pc[c] = "idle"
  /\ PlaceHold(c)
  /\ pc' = [pc EXCEPT ![c] = "dead"]
  /\ UNCHANGED <<server, answer, ask, waited, marking, closed, ghosts>>

\* The client left while the hold was being placed, before the gate listens for
\* the close: the dispatcher refuses to start the handler, and neither "finish"
\* nor "close" will come to end the hold.
AuthorizeUnheard(c) ==
  /\ pc[c] = "idle"
  /\ PlaceHold(c)
  /\ pc' = [pc EXCEPT ![c] = "unheard"]
  /\ answer' = [answer EXCEPT ![c] = "bad"]
  /\ closed' = closed \cup {c}
  /\ UNCHANGED <<server, ask, waited, marking, ghosts>>

\* 402: the key is disabled or short.
AuthorizeRefused(c) ==
  /\ pc[c] = "idle"
  /\ cause # "no" \/ balance < Price[c]
  /\ pc' = [pc EXCEPT ![c] = "refused"]
  /\ UNCHANGED <<row, server, answer, ask, waited, marking, closed, ghosts>>

------------------------------------------------------------------------------
(* The response: its first byte, its end, and the connection closing *)

\* A stream sends its headers, with status 200.
StartStream(c) ==
  /\ pc[c] = "running"
  /\ pc' = [pc EXCEPT ![c] = "streaming"]
  /\ answer' = [answer EXCEPT ![c] = "ok"]
  /\ UNCHANGED <<row, server, ask, waited, marking, closed, ghosts>>

\* creditsAwareEnd with a final 200: the hold is marked settling, in the
\* background, with what the debit is going to take.
EndServed(c) ==
  /\ pc[c] \in {"running", "streaming"}
  /\ \E amount \in MeterCharges \cup {Price[c]} :
       /\ ask' = [ask EXCEPT ![c] = amount]
       /\ marking' = [marking EXCEPT ![c] = amount]
  /\ pc' = [pc EXCEPT ![c] = "ended"]
  /\ answer' = [answer EXCEPT ![c] = "ok"]
  /\ UNCHANGED <<row, server, waited, closed, ghosts>>

\* Mutant of EndUnserved: the hold is marked settling whatever the status.
EndUnservedMarks(c) ==
  /\ pc[c] = "running"
  /\ pc' = [pc EXCEPT ![c] = "ended"]
  /\ answer' = [answer EXCEPT ![c] = "bad"]
  /\ marking' = [marking EXCEPT ![c] = Price[c]]
  /\ UNCHANGED <<row, server, ask, waited, closed, ghosts>>

\* A final answer that is not charged: a 4xx or 5xx, or a 200 served with no
\* handler run (servedWithoutRun).
EndUnserved(c) ==
  /\ pc[c] = "running"
  /\ pc' = [pc EXCEPT ![c] = "ended"]
  /\ answer' = [answer EXCEPT ![c] = "bad"]
  /\ UNCHANGED <<row, server, ask, waited, marking, closed, ghosts>>

\* Mutant of Finish: a finished response settles whatever its status.
FinishSettles(c) ==
  /\ pc[c] = "ended"
  /\ pc' = [pc EXCEPT ![c] = "settling"]
  /\ ask' = [ask EXCEPT ![c] = IF answer[c] = "ok" THEN @ ELSE Price[c]]
  /\ waited' = [waited EXCEPT ![c] = 0]
  /\ UNCHANGED <<row, server, answer, marking, closed, ghosts>>

\* "finish": the answer was sent whole.
Finish(c) ==
  /\ pc[c] = "ended"
  /\ pc' = [pc EXCEPT ![c] = IF answer[c] = "ok" THEN "settling" ELSE "releasing"]
  /\ waited' = [waited EXCEPT ![c] = 0]
  /\ UNCHANGED <<row, server, answer, ask, marking, closed, ghosts>>

\* "close" after the headers: part of the answer was delivered, and the whole
\* hold settles whatever the status.
CloseLate(c) ==
  /\ pc[c] \in {"streaming", "ended"}
  /\ pc' = [pc EXCEPT ![c] = "settling"]
  /\ ask' = [ask EXCEPT ![c] = Price[c]]
  /\ closed' = closed \cup {c}
  /\ waited' = [waited EXCEPT ![c] = 0]
  /\ UNCHANGED <<row, server, answer, marking, ghosts>>

\* "close" before the first byte: nothing is decided until the response ends.
CloseEarly(c) ==
  /\ pc[c] = "running"
  /\ pc' = [pc EXCEPT ![c] = "gone"]
  /\ closed' = closed \cup {c}
  /\ waited' = [waited EXCEPT ![c] = 0]
  /\ UNCHANGED <<row, server, answer, ask, marking, ghosts>>

\* decideGone, the response ended in a refusal, a replay, or under a
\* forgiveness ticket: the hold goes back.
GoneForgiven(c) ==
  /\ pc[c] = "gone"
  /\ answer' = [answer EXCEPT ![c] = "bad"]
  /\ pc' = [pc EXCEPT ![c] = "releasing"]
  /\ waited' = [waited EXCEPT ![c] = 0]
  /\ UNCHANGED <<row, server, ask, marking, closed, ghosts>>

\* decideGone, the run was not forgiven: the whole hold settles.
GoneCharged(c) ==
  /\ pc[c] = "gone"
  /\ answer' = [answer EXCEPT ![c] = "ok"]
  /\ ask' = [ask EXCEPT ![c] = Price[c]]
  /\ waited' = [waited EXCEPT ![c] = 0]
  /\ pc' = [pc EXCEPT ![c] = "settling"]
  /\ UNCHANGED <<row, server, marking, closed, ghosts>>

\* The response never ended within the window.
GoneTimeout(c) ==
  /\ pc[c] = "gone"
  /\ waited[c] >= Window
  /\ pc' = [pc EXCEPT ![c] = "releasing"]
  /\ waited' = [waited EXCEPT ![c] = 0]
  /\ UNCHANGED <<row, server, answer, ask, marking, closed, ghosts>>

------------------------------------------------------------------------------
(* Ending the hold *)

\* markSettling runs: nothing, when the entry is gone.
MarkLands(c) ==
  /\ marking[c] > 0
  /\ marking' = [marking EXCEPT ![c] = 0]
  /\ mark' = IF c \in entries
             THEN [mark EXCEPT ![c] = Least(Price[c], marking[c])] ELSE mark
  /\ UNCHANGED <<balance, held, spent, refunded, cause, entries, settled, prior, age,
                 pc, server, answer, ask, waited, closed, ghosts>>

MarkFails(c) ==
  /\ marking[c] > 0
  /\ marking' = [marking EXCEPT ![c] = 0]
  /\ UNCHANGED <<row, pc, server, answer, ask, waited, closed, ghosts>>

\* Mutant of RecentSettled: one record fewer is kept.
RecentSettledShort(records, ages) ==
  LET recent == { c \in records : ages[c] <= Keep }
  IN { kept \in SUBSET recent :
         /\ Cardinality(kept) = Least(KeepMax - 1, Cardinality(recent))
         /\ \A c \in kept, d \in recent \ kept : ages[c] <= ages[d] }

\* recentSettled: records older than Keep are dropped, and the newest KeepMax
\* of the rest are kept (equal ages in either order).
RecentSettled(records, ages) ==
  LET recent == { c \in records : ages[c] <= Keep }
  IN { kept \in SUBSET recent :
         /\ Cardinality(kept) = Least(KeepMax, Cardinality(recent))
         /\ \A c \in kept, d \in recent \ kept : ages[c] <= ages[d] }

\* Mutant of TakeHold: the entry is not looked up.
TakeHoldBlind(c) == Least(Price[c], held)

\* What takeHold leaves for a hold: its price, or nothing once the entry is gone.
TakeHold(c) == IF c \in entries THEN Least(Price[c], held) ELSE 0

\* settleOn of a hold with no settle recorded: at most the hold is taken, the
\* rest of it goes back, and the settle is recorded.
SettleHold(c) ==
  LET ofHold == TakeHold(c)
      takes  == Least(ofHold, ask[c])
  IN /\ held' = held - ofHold
     /\ balance' = balance + (ofHold - takes)
     /\ spent' = spent + takes
     /\ entries' = entries \ {c}
     /\ mark' = [mark EXCEPT ![c] = 0]
     /\ age' = [age EXCEPT ![c] = 0]
     /\ prior' = [prior EXCEPT ![c] = [m |-> takes, booked |-> FALSE]]
     /\ settled' \in RecentSettled(settled \cup {c}, age')
     /\ taken' = [taken EXCEPT ![c] = @ + takes]
     /\ UNCHANGED <<refunded, cause>>

\* The hold's settle is already recorded on the row.
AlreadySettled(c) == c \notin entries /\ c \in settled

\* The settle lands and its caller knows: the sale is booked.
Settle(c) ==
  /\ pc[c] = "settling"
  /\ ~AlreadySettled(c)
  /\ SettleHold(c)
  /\ sold' = [sold EXCEPT ![c] = @ + Least(TakeHold(c), ask[c])]
  /\ pc' = [pc EXCEPT ![c] = "done"]
  /\ waited' = [waited EXCEPT ![c] = 0]
  /\ UNCHANGED <<server, answer, ask, marking, closed, clawed, due>>

\* The settle lands and its reply is lost: no sale is booked, it is tried again.
SettleLost(c) ==
  /\ LostReplies
  /\ pc[c] = "settling"
  /\ ~AlreadySettled(c)
  /\ SettleHold(c)
  /\ UNCHANGED <<requests, sold, clawed, due>>

\* Mutant of SettleAgain: the sale is booked although the sweep booked it.
SettleAgainBooks(c) ==
  /\ pc[c] = "settling"
  /\ AlreadySettled(c)
  /\ sold' = [sold EXCEPT ![c] = @ + prior[c].m]
  /\ pc' = [pc EXCEPT ![c] = "done"]
  /\ waited' = [waited EXCEPT ![c] = 0]
  /\ UNCHANGED <<row, server, answer, ask, marking, closed, taken, clawed, due>>

\* A retry of a settle that is recorded: no money moves, and the sale is booked
\* at the recorded amount unless the sweep booked it.
SettleAgain(c) ==
  /\ pc[c] = "settling"
  /\ AlreadySettled(c)
  /\ sold' = [sold EXCEPT ![c] = @ + IF prior[c].booked THEN 0 ELSE prior[c].m]
  /\ pc' = [pc EXCEPT ![c] = "done"]
  /\ waited' = [waited EXCEPT ![c] = 0]
  /\ UNCHANGED <<row, server, answer, ask, marking, closed, taken, clawed, due>>

\* later: no attempt landed before the deadline.  (A failed attempt before it
\* changes nothing, so it is no step.)
SettleGivesUp(c) ==
  /\ pc[c] = "settling"
  /\ waited[c] >= SettleFor
  /\ pc' = [pc EXCEPT ![c] = "done"]
  /\ waited' = [waited EXCEPT ![c] = 0]
  /\ UNCHANGED <<row, server, answer, ask, marking, closed, ghosts>>

\* Mutant of ReleaseHold: the price goes back to the balance although the
\* entry is gone.
ReleaseWhatever(c) ==
  /\ held' = held - TakeHold(c)
  /\ balance' = balance + Price[c]
  /\ entries' = entries \ {c}
  /\ mark' = [mark EXCEPT ![c] = 0]
  /\ UNCHANGED <<spent, refunded, cause, settled, prior, age>>

\* releaseOn.
ReleaseHold(c) ==
  LET back == TakeHold(c)
  IN /\ held' = held - back
     /\ balance' = balance + back
     /\ entries' = entries \ {c}
     /\ mark' = [mark EXCEPT ![c] = 0]
     /\ UNCHANGED <<spent, refunded, cause, settled, prior, age>>

Release(c) ==
  /\ pc[c] = "releasing"
  /\ ReleaseHold(c)
  /\ pc' = [pc EXCEPT ![c] = "done"]
  /\ UNCHANGED <<server, answer, ask, waited, marking, closed, ghosts>>

ReleaseLost(c) ==
  /\ LostReplies
  /\ pc[c] = "releasing"
  /\ c \in entries
  /\ ReleaseHold(c)
  /\ UNCHANGED <<requests, ghosts>>

\* The third attempt failed: the hold is left to the sweep.
ReleaseGivesUp(c) ==
  /\ pc[c] = "releasing"
  /\ pc' = [pc EXCEPT ![c] = "done"]
  /\ UNCHANGED <<row, server, answer, ask, waited, marking, closed, ghosts>>

------------------------------------------------------------------------------
(* The sweep of abandoned holds, on every process *)

\* Mutant of Abandoned: the age of an entry is not looked at.
AbandonedAtOnce(s) == { c \in entries : ~LiveOn(c, s) }

\* Mutant of Abandoned: an entry marked settling is left alone.
AbandonedUnmarked(s) == { c \in entries : age[c] > Window /\ ~LiveOn(c, s) /\ mark[c] = 0 }

\* Entries older than the window that no request of this process holds.
Abandoned(s) == { c \in entries : age[c] > Window /\ ~LiveOn(c, s) }

\* The held money no entry accounts for, which a sweep returns once the row
\* has been quiet for the window and no request of this process holds any.
UntrackedHeld == held - Total(Price, entries)

\* mutatePgNow of sweepAbandonedHolds on this row.  books: its reply arrived,
\* so the sales of the holds it debited are booked.
SweepRow(s, quietRow, books) ==
  LET swept    == Abandoned(s)
      marked   == { c \in swept : mark[c] > 0 }
      takes    == [c \in Calls |-> IF c \in marked THEN Least(Price[c], mark[c]) ELSE 0]
      stray    == IF quietRow /\ UntrackedHeld > 0 /\ \A c \in Calls : ~LiveOn(c, s)
                  THEN UntrackedHeld ELSE 0
      debit    == Total(takes, marked)
      leaving  == Least(Total(Price, swept) + stray, held)
      returned == Most(0, Least(Total(Price, swept) + stray - debit, leaving - debit))
  IN /\ held > 0
     /\ swept # {} \/ stray > 0
     /\ held' = held - leaving
     /\ balance' = balance + returned
     /\ spent' = spent + debit
     /\ entries' = entries \ swept
     /\ mark' = [c \in Calls |-> IF c \in swept THEN 0 ELSE mark[c]]
     /\ age' = [c \in Calls |-> IF c \in marked THEN 0 ELSE age[c]]
     /\ prior' = [c \in Calls |-> IF c \in marked THEN [m |-> takes[c], booked |-> TRUE]
                                                  ELSE prior[c]]
     /\ IF marked = {} THEN settled' = settled
                       ELSE settled' \in RecentSettled(settled \cup marked, age')
     /\ taken' = [c \in Calls |-> taken[c] + takes[c]]
     /\ sold' = IF books THEN [c \in Calls |-> sold[c] + takes[c]] ELSE sold
     /\ UNCHANGED <<refunded, cause, requests, clawed, due>>

\* quietRow is read before the row is locked, so either value may be seen.
Sweep(s) == \E quietRow \in BOOLEAN : SweepRow(s, quietRow, TRUE)

\* The sweep's transaction commits and its reply is lost.
SweepLost(s) ==
  /\ LostReplies
  /\ \E quietRow \in BOOLEAN : SweepRow(s, quietRow, FALSE)

------------------------------------------------------------------------------
(* Time, and the processes *)

\* keepHoldFresh: the entries with a refresh timer.
Refreshed == { c \in entries : Live(c) /\ (pc[c] = "unheard" => waited[c] < RefreshFor) }

\* One refresh interval passes.  The entries of live requests are refreshed,
\* except those whose refresh fails; no run is longer than RefreshFor, so only
\* a hold nobody ends is not.  The timers that are due fire first: a settle
\* gives up before the window ends, a response gone for the window is released.
Tick ==
  /\ \A c \in Calls : /\ pc[c] = "settling" => waited[c] < SettleFor
                      /\ pc[c] = "gone" => waited[c] < Window
  /\ \E failing \in SUBSET Refreshed :
       /\ failing = {} \/ RefreshFails
       /\ age' = [c \in Calls |->
                    IF c \in Refreshed \ failing THEN 0
                    ELSE IF c \in entries THEN Least(age[c] + 1, Window + 1)
                    ELSE IF c \in settled THEN Least(age[c] + 1, Keep + 1)
                    ELSE age[c]]
  /\ waited' = [c \in Calls |->
                  IF pc[c] \in {"settling", "gone"} THEN waited[c] + 1
                  ELSE IF pc[c] = "unheard" THEN Least(waited[c] + 1, RefreshFor)
                  ELSE waited[c]]
  /\ UNCHANGED <<balance, held, spent, refunded, cause, entries, mark, settled, prior,
                 pc, server, answer, ask, marking, closed, ghosts>>

\* A process crashes and restarts: its requests, its timers and the marks it
\* had not written are lost.
Crash(s) ==
  /\ Crashes
  /\ \E c \in Calls : LiveOn(c, s)
  /\ pc' = [c \in Calls |-> IF LiveOn(c, s) THEN "dead" ELSE pc[c]]
  /\ marking' = [c \in Calls |-> IF server[c] = s THEN 0 ELSE marking[c]]
  /\ waited' = [c \in Calls |-> IF LiveOn(c, s) THEN 0 ELSE waited[c]]
  /\ UNCHANGED <<row, server, answer, ask, closed, ghosts>>

------------------------------------------------------------------------------
(* Refunds, disputes and the operator *)

CauseRank(x) == CASE x = "operator" -> 3 [] x = "refunded" -> 2
                  [] x = "disputed" -> 1 [] x = "no" -> 0

\* Mutant of DisabledBy: the latest cause is kept.
DisabledByLatest(reason) == reason

\* disableByPaymentIntent keeps the stronger cause.
DisabledBy(reason) == IF CauseRank(reason) >= CauseRank(cause) THEN reason ELSE cause

\* Mutant of Clawback: each delivery takes the whole running total.
ClawbackAgain(total) ==
  /\ total > 0
  /\ balance' = Most(0, balance - total)
  /\ clawed' = clawed + (balance - balance')
  /\ refunded' = Most(refunded, total)
  /\ IF total >= Loaded
     THEN cause' = DisabledBy("refunded") /\ due' = due \cup {"refunded"}
     ELSE UNCHANGED <<cause, due>>
  /\ UNCHANGED <<held, spent, entries, mark, settled, prior, age, requests, taken, sold>>

\* charge.refunded, with the charge's running total: only what is new comes off
\* the balance, and the key is disabled once the whole payment is refunded.
Clawback(total) ==
  /\ total > refunded \/ total >= Loaded
  /\ LET delta == Most(0, total - refunded)
     IN /\ balance' = Most(0, balance - delta)
        /\ clawed' = clawed + (balance - balance')
        /\ refunded' = refunded + delta
  /\ IF total >= Loaded
     THEN cause' = DisabledBy("refunded") /\ due' = due \cup {"refunded"}
     ELSE UNCHANGED <<cause, due>>
  /\ UNCHANGED <<held, spent, entries, mark, settled, prior, age, requests, taken, sold>>

SetCause(to) ==
  /\ cause' = to
  /\ UNCHANGED <<balance, held, spent, refunded, entries, mark, settled, prior, age,
                 requests, taken, sold, clawed>>

\* charge.dispute.created.
Dispute ==
  /\ Disputes
  /\ SetCause(DisabledBy("disputed"))
  /\ due' = due \cup {"disputed"}

\* The dispute closes in our favour: only a disable it caused is lifted.
DisputeWon ==
  /\ Disputes
  /\ SetCause(IF cause = "disputed" THEN "no" ELSE cause)
  /\ due' = due \ {"disputed"}

\* setDisabled: the operator's switch withdraws every cause when it enables.
OperatorDisable ==
  /\ Operator
  /\ SetCause("operator")
  /\ due' = due \cup {"operator"}

OperatorEnable ==
  /\ Operator
  /\ SetCause("no")
  /\ due' = {}

------------------------------------------------------------------------------

CallStep(c) ==
  \/ Authorize(c) \/ AuthorizeLost(c) \/ AuthorizeUnheard(c) \/ AuthorizeRefused(c)
  \/ StartStream(c) \/ EndServed(c) \/ EndUnserved(c)
  \/ Finish(c) \/ CloseLate(c) \/ CloseEarly(c)
  \/ GoneForgiven(c) \/ GoneCharged(c) \/ GoneTimeout(c)
  \/ MarkLands(c) \/ MarkFails(c)
  \/ Settle(c) \/ SettleLost(c) \/ SettleAgain(c) \/ SettleGivesUp(c)
  \/ Release(c) \/ ReleaseLost(c) \/ ReleaseGivesUp(c)

Next ==
  \/ \E c \in Calls : CallStep(c)
  \/ \E s \in Servers : Sweep(s) \/ SweepLost(s) \/ Crash(s)
  \/ Tick
  \/ \E total \in RefundTotals : Clawback(total)
  \/ Dispute \/ DisputeWon \/ OperatorDisable \/ OperatorEnable

Spec == Init /\ [][Next]_vars

\* The dispatcher ends every response, promises settle, timers fire and the
\* sweep recurs on every process; a transaction that is tried for ever
\* eventually commits with its reply.  Nothing makes a call start, a connection
\* close, a process crash or a refund arrive.
Fairness ==
  /\ WF_vars(Tick)
  /\ \A c \in Calls :
       /\ WF_vars(EndServed(c) \/ EndUnserved(c) \/ GoneForgiven(c) \/ GoneCharged(c))
       /\ WF_vars(Finish(c) \/ CloseLate(c))
       /\ WF_vars(SettleGivesUp(c) \/ SettleAgain(c))
       /\ WF_vars(ReleaseGivesUp(c))
       /\ WF_vars(GoneTimeout(c))
  /\ \A s \in Servers : WF_vars(Sweep(s))

FairSpec == Spec /\ Fairness

------------------------------------------------------------------------------
(* Safety *)

\* No money is made or lost: what the key was loaded with is available, held,
\* spent or taken back by refunds, whatever crashed and whatever was retried,
\* and every micro-dollar spent was taken for one call.
Conservation ==
  /\ balance + held + spent + clawed = Loaded
  /\ spent = Total(taken, Calls)

\* The money an entry holds is there to be taken until the entry is ended, so
\* no sweep, settle or release ever returns or debits the hold of another
\* call, and what is left over is only what an older build left held.
HeldCoversEntries ==
  /\ Total(Price, entries) <= held
  /\ held <= Total(Price, entries) + Untracked

\* A hold ends once, as a charge of at most its price or as a return: a call is
\* charged only by the step that ends its entry, so a settle that is retried,
\* or that comes after the sweep, takes nothing more (settleOn, takeHold).
HoldEndsOnce ==
  [][\A c \in Calls : taken'[c] # taken[c] =>
       /\ c \in entries /\ c \notin entries'
       /\ taken[c] = 0 /\ taken'[c] <= Price[c]]_vars

\* A call's debit is booked as a sale at most once and at the debited amount,
\* although a settle and the sweep of another process may both end its hold and
\* each may lose its reply.
SoldOnce == \A c \in Calls : sold[c] \in {0, taken[c]}

\* The answer of a call that was charged while its buyer stayed to the end was
\* a final 200: a refusal, an error, a 503 of the gate, a replay, a crashed run
\* and an abandoned hold never cost anything.
ChargedIsServed ==
  \A c \in Calls : taken[c] > 0 /\ c \notin closed => answer[c] = "ok"

\* A hold marked settling is never returned: whoever ends it takes at least
\* the marked amount.
MarkedIsCharged ==
  [][\A c \in Calls : c \in entries /\ mark[c] > 0 /\ c \notin entries'
                       => taken'[c] >= mark[c]]_vars

\* While the refreshes of a running request land, no sweep, of this process or
\* of another, ends its hold: only its own settle or release does, and its
\* settle takes the money.  (The hold of a request whose end is not heard is
\* left to the sweep.)
RunningHoldIsKept ==
  [][\A c \in Calls : ~RefreshFails /\ Live(c) /\ c \in entries /\ c \notin entries' =>
       \/ pc[c] \in {"releasing", "unheard"}
       \/ pc[c] = "settling" /\ taken'[c] = Least(Price[c], ask[c])]_vars

\* A settle that is tried again after its reply was lost finds the record of
\* what it took, so its sale is booked at that amount ("kept long enough for a
\* retry of a settle whose reply was lost").
RetryFindsRecord ==
  \A c \in Calls :
    pc[c] = "settling" /\ taken[c] > 0 /\ sold[c] = 0 => c \in settled

\* Refunds take at most the largest running total Stripe reported, whatever
\* order the totals arrive in and however often each is delivered.
RefundTakenOnce == clawed <= refunded /\ refunded \in RefundTotals \cup {0}

\* The reason on a disabled key is the strongest cause that still stands, so a
\* dispute closing in our favour never enables a key whose payment was refunded
\* or which the operator switched off, in any order of events.
CauseIsStrongest ==
  /\ cause = "no" <=> due = {}
  /\ \A d \in due : CauseRank(d) <= CauseRank(cause)
  /\ cause # "no" => cause \in due

\* Implementation of PrepaidKey.
Account == INSTANCE PrepaidKey WITH
  available <- balance, reserved <- entries, charged <- taken,
  ended <- { c \in Calls : pc[c] \notin {"idle", "refused"} /\ c \notin entries },
  stray <- UntrackedHeld, Stray <- Untracked, takenBack <- clawed

ImplementsPrepaidKey == Account!Spec

------------------------------------------------------------------------------
(* Liveness *)

\* No money stays held for ever: every hold, whatever became of its request and
\* of its settle or release, is charged or returned.  A hold whose end was not
\* heard needs the sweep of another process: its own keeps it as live.
HoldsDrain ==
  \A c \in Calls :
    c \in entries /\ (pc[c] = "unheard" => Cardinality(Servers) > 1) ~> c \notin entries

=============================================================================
