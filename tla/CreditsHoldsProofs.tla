------------------------- MODULE CreditsHoldsProofs -------------------------
(***************************************************************************)
(* Theorems about CreditsHolds, for any set of calls and of processes and  *)
(* any prices, window and switches.                                        *)
(*                                                                         *)
(* The money invariants are inductive together (Money): what the entries   *)
(* hold is there, so no end of a hold is ever cut short, and a call with   *)
(* an entry was charged nothing yet.  Booking each debit once needs what a *)
(* settle that is tried again finds (Records).  What a charge says of the  *)
(* answer follows from the marks (Marks, Answered); what becomes of a      *)
(* running hold and of the record of its settle follows from the age of    *)
(* its entry while refreshes land (Fresh, RecordsKept).  The module ends   *)
(* with the refinement of PrepaidKey.                                      *)
(***************************************************************************)
EXTENDS CreditsHolds, TotalsTheorems

------------------------------------------------------------------------------
(* The inductive invariant *)

\* A call with an entry has begun, was charged and booked nothing yet, and has
\* no settle on record: the entry is all there is of it.
EntriesOpen ==
  \A c \in entries : /\ pc[c] \notin {"idle", "refused"} /\ c \notin settled
                     /\ taken[c] = 0 /\ sold[c] = 0

\* A call that has not begun left no trace on the row.
IdleUntouched ==
  \A c \in Calls : pc[c] = "idle" => /\ c \notin entries /\ c \notin settled
                                     /\ taken[c] = 0 /\ sold[c] = 0

\* The record of a settle that is going to be tried again either says that
\* nothing was taken, or what was taken and not yet booked.
Records ==
  \A c \in settled : ~prior[c].booked /\ pc[c] # "done"
                       => prior[c].m = 0 \/ (prior[c].m = taken[c] /\ sold[c] = 0)

Money == Conservation /\ HeldCoversEntries

Books == EntriesOpen /\ IdleUntouched /\ Records /\ SoldOnce

IInv == TypeOK /\ Money /\ Books

\* A hold is marked, or is going to be, only by a call that ended with a final
\* 200, and what its settle asks for covers the mark.
MarkOf(c) ==
  /\ mark[c] <= Price[c]
  /\ mark[c] > 0 \/ marking[c] > 0 => pc[c] \in {"ended", "settling", "done", "dead"}
  /\ (mark[c] > 0 \/ marking[c] > 0) /\ pc[c] = "ended" => answer[c] = "ok"
  /\ pc[c] \in {"ended", "settling"} =>
       /\ mark[c] <= ask[c]
       /\ Least(Price[c], marking[c]) <= ask[c]

Marks == \A c \in Calls : MarkOf(c)

------------------------------------------------------------------------------
(* Types *)

USE CallsAssumption, PriceAssumption, MoneyAssumption, TimeAssumption, SwitchAssumption

\* recentSettled keeps a part of the records it is given.
LEMMA RecentSettledPart ==
  ASSUME NEW records, NEW ages, NEW kept \in RecentSettled(records, ages)
  PROVE  kept \subseteq records
BY DEF RecentSettled

\* The total price of some calls is a natural number.
LEMMA PricesType ==
  ASSUME NEW S \in SUBSET Calls
  PROVE  IsFiniteSet(S) /\ Total(Price, S) \in Nat
<1>1. IsFiniteSet(S)
  BY FS_Subset
<1> QED
  BY <1>1, TotalType

\* The initial state is well typed.
LEMMA TypeInit == Init => TypeOK
BY DEF Init, TypeOK, Causes, States

\* The steps of a call that change the row.
LEMMA TypeCallMoney ==
  ASSUME TypeOK, NEW c \in Calls,
         \/ Authorize(c) \/ AuthorizeLost(c) \/ AuthorizeUnheard(c)
         \/ Settle(c) \/ SettleLost(c) \/ Release(c) \/ ReleaseLost(c)
  PROVE  TypeOK'
<1>1. CASE Authorize(c) \/ AuthorizeLost(c) \/ AuthorizeUnheard(c)
  <2>1. PlaceHold(c)
    BY <1>1 DEF Authorize, AuthorizeLost, AuthorizeUnheard
  <2>2. /\ balance' \in Nat /\ held' \in Nat /\ spent' \in Nat /\ refunded' \in Nat
        /\ cause' \in Causes /\ entries' \subseteq Calls /\ settled' \subseteq Calls
        /\ mark' \in [Calls -> Nat] /\ age' \in [Calls -> Nat]
        /\ prior' \in [Calls -> [m : Nat, booked : BOOLEAN]]
    BY <2>1 DEF PlaceHold, TypeOK
  <2>3. pc' \in [Calls -> States]
    BY <1>1 DEF Authorize, AuthorizeLost, AuthorizeUnheard, TypeOK, States
  <2>4. /\ answer' \in [Calls -> {"none", "ok", "bad"}] /\ closed' \subseteq Calls
        /\ UNCHANGED <<server, ask, waited, marking, ghosts>>
    BY <1>1 DEF Authorize, AuthorizeLost, AuthorizeUnheard, TypeOK
  <2> QED
    BY <2>2, <2>3, <2>4 DEF TypeOK, ghosts
<1>2. CASE Settle(c) \/ SettleLost(c)
  <2>1. SettleHold(c)
    BY <1>2 DEF Settle, SettleLost
  <2>2. settled' \subseteq settled \cup {c}
    BY <2>1, RecentSettledPart DEF SettleHold
  <2> DEFINE ofHold == TakeHold(c)
             takes == Least(ofHold, ask[c])
  <2>3. ofHold \in Nat /\ ofHold <= held /\ takes \in Nat /\ takes <= ofHold
    BY DEF TypeOK, TakeHold, Least
  <2>4. /\ held' \in Nat /\ balance' \in Nat /\ spent' \in Nat
        /\ taken' \in [Calls -> Nat] /\ prior' \in [Calls -> [m : Nat, booked : BOOLEAN]]
        /\ entries' \subseteq Calls /\ settled' \subseteq Calls
        /\ mark' \in [Calls -> Nat] /\ age' \in [Calls -> Nat]
        /\ refunded' \in Nat /\ cause' \in Causes
    BY <2>1, <2>2, <2>3 DEF SettleHold, TypeOK
  <2>5. sold' \in [Calls -> Nat]
    BY <1>2, <2>3 DEF Settle, SettleLost, TypeOK
  <2>6. /\ pc' \in [Calls -> States] /\ waited' \in [Calls -> Nat]
        /\ UNCHANGED <<server, answer, ask, marking, closed, clawed, due>>
    <3>1. CASE Settle(c)
      BY <3>1 DEF Settle, TypeOK, States
    <3>2. CASE SettleLost(c)
      BY <3>2 DEF SettleLost, TypeOK, requests
    <3> QED
      BY <1>2, <3>1, <3>2
  <2> QED
    BY <2>4, <2>5, <2>6 DEF TypeOK
<1>3. CASE Release(c) \/ ReleaseLost(c)
  <2>1. TakeHold(c) \in Nat /\ TakeHold(c) <= held
    BY DEF TypeOK, TakeHold, Least
  <2> QED
    BY <1>3, <2>1 DEF Release, ReleaseLost, ReleaseHold, TypeOK, States, requests, ghosts
<1> QED
  BY <1>1, <1>2, <1>3

\* The steps of a call that leave the money alone.
LEMMA TypeCallQuiet ==
  ASSUME TypeOK, NEW c \in Calls,
         CallStep(c), ~(\/ Authorize(c) \/ AuthorizeLost(c) \/ AuthorizeUnheard(c)
                       \/ Settle(c) \/ SettleLost(c) \/ Release(c) \/ ReleaseLost(c))
  PROVE  TypeOK'
<1>1. CASE \/ AuthorizeRefused(c) \/ StartStream(c) \/ EndUnserved(c) \/ Finish(c)
           \/ CloseLate(c) \/ CloseEarly(c) \/ GoneForgiven(c) \/ GoneCharged(c)
           \/ GoneTimeout(c)
  <2>1. CASE AuthorizeRefused(c)
    BY <2>1 DEF TypeOK, AuthorizeRefused, States, row, ghosts
  <2>2. CASE StartStream(c)
    BY <2>2 DEF TypeOK, StartStream, States, row, ghosts
  <2>3. CASE EndUnserved(c)
    BY <2>3 DEF TypeOK, EndUnserved, States, row, ghosts
  <2>4. CASE Finish(c)
    BY <2>4 DEF TypeOK, Finish, States, row, ghosts
  <2>5. CASE CloseLate(c)
    BY <2>5 DEF TypeOK, CloseLate, States, row, ghosts
  <2>6. CASE CloseEarly(c)
    BY <2>6 DEF TypeOK, CloseEarly, States, row, ghosts
  <2>7. CASE GoneForgiven(c)
    BY <2>7 DEF TypeOK, GoneForgiven, States, row, ghosts
  <2>8. CASE GoneCharged(c)
    BY <2>8 DEF TypeOK, GoneCharged, States, row, ghosts
  <2>9. CASE GoneTimeout(c)
    BY <2>9 DEF TypeOK, GoneTimeout, States, row, ghosts
  <2> QED
    BY <1>1, <2>1, <2>2, <2>3, <2>4, <2>5, <2>6, <2>7, <2>8, <2>9
<1>2. CASE EndServed(c)
  <2>1. \A amount \in MeterCharges \cup {Price[c]} : amount \in Nat
    OBVIOUS
  <2> QED
    BY <1>2, <2>1 DEF TypeOK, EndServed, States, row, ghosts
<1>3. CASE MarkLands(c) \/ MarkFails(c)
  <2>1. CASE MarkLands(c)
    <3>1. Least(Price[c], marking[c]) \in Nat
      BY DEF Least, TypeOK
    <3>2. mark' \in [Calls -> Nat] /\ marking' \in [Calls -> Nat]
      BY <2>1, <3>1 DEF MarkLands, TypeOK
    <3> QED
      BY <2>1, <3>2 DEF TypeOK, MarkLands, ghosts
  <2>2. CASE MarkFails(c)
    BY <2>2 DEF TypeOK, MarkFails, row, ghosts
  <2> QED
    BY <1>3, <2>1, <2>2
<1>4. CASE SettleAgain(c) \/ SettleGivesUp(c) \/ ReleaseGivesUp(c)
  <2>1. CASE SettleAgain(c)
    <3>1. sold' \in [Calls -> Nat]
      BY <2>1 DEF SettleAgain, TypeOK
    <3> QED
      BY <2>1, <3>1 DEF TypeOK, SettleAgain, States, row
  <2>2. CASE SettleGivesUp(c)
    BY <2>2 DEF TypeOK, SettleGivesUp, States, row, ghosts
  <2>3. CASE ReleaseGivesUp(c)
    BY <2>3 DEF TypeOK, ReleaseGivesUp, States, row, ghosts
  <2> QED
    BY <1>4, <2>1, <2>2, <2>3
<1> QED
  BY <1>1, <1>2, <1>3, <1>4 DEF CallStep

\* A sweep.
LEMMA TypeSweep ==
  ASSUME TypeOK, NEW s \in Servers, NEW quietRow \in BOOLEAN, NEW books \in BOOLEAN,
         SweepRow(s, quietRow, books)
  PROVE  TypeOK'
<1> DEFINE swept    == Abandoned(s)
           marked   == { c \in swept : mark[c] > 0 }
           takes    == [c \in Calls |-> IF c \in marked THEN Least(Price[c], mark[c]) ELSE 0]
           stray    == IF quietRow /\ UntrackedHeld > 0 /\ \A c \in Calls : ~LiveOn(c, s)
                       THEN UntrackedHeld ELSE 0
           debit    == Total(takes, marked)
           leaving  == Least(Total(Price, swept) + stray, held)
           returned == Most(0, Least(Total(Price, swept) + stray - debit, leaving - debit))
<1>1. swept \subseteq entries /\ marked \subseteq Calls /\ swept \subseteq Calls
  BY DEF Abandoned, TypeOK
<1>2. takes \in [Calls -> Nat]
  BY DEF TypeOK, Least
<1>3. debit \in Nat
  BY <1>1, <1>2, PricesType, TotalType
<1>4. Total(Price, swept) \in Nat /\ Total(Price, entries) \in Nat
  BY <1>1, PricesType DEF TypeOK
<1>5. stray \in Nat
  BY <1>4 DEF UntrackedHeld, TypeOK
<1>6. leaving \in Nat /\ leaving <= held /\ returned \in Nat
  BY <1>3, <1>4, <1>5 DEF Least, Most, TypeOK
<1>7. settled' \subseteq settled \cup marked
  BY RecentSettledPart DEF SweepRow
<1>8. /\ held' = held - leaving /\ balance' = balance + returned /\ spent' = spent + debit
      /\ entries' = entries \ swept
      /\ taken' = [c \in Calls |-> taken[c] + takes[c]]
      /\ sold' = IF books THEN [c \in Calls |-> sold[c] + takes[c]] ELSE sold
      /\ prior' = [c \in Calls |-> IF c \in marked THEN [m |-> takes[c], booked |-> TRUE]
                                                   ELSE prior[c]]
      /\ mark' = [c \in Calls |-> IF c \in swept THEN 0 ELSE mark[c]]
      /\ age' = [c \in Calls |-> IF c \in marked THEN 0 ELSE age[c]]
      /\ UNCHANGED <<refunded, cause, requests, clawed, due>>
  BY DEF SweepRow
<1>9. held' \in Nat /\ balance' \in Nat /\ spent' \in Nat
  BY <1>3, <1>6, <1>8 DEF TypeOK
<1>10. /\ taken' \in [Calls -> Nat] /\ sold' \in [Calls -> Nat]
       /\ prior' \in [Calls -> [m : Nat, booked : BOOLEAN]]
       /\ mark' \in [Calls -> Nat] /\ age' \in [Calls -> Nat]
  BY <1>2, <1>8 DEF TypeOK
<1>11. entries' \subseteq Calls /\ settled' \subseteq Calls
  BY <1>1, <1>7, <1>8 DEF TypeOK
<1> QED
  BY <1>8, <1>9, <1>10, <1>11 DEF TypeOK, requests

\* Time, crashes, refunds, disputes and the operator.
LEMMA TypeOther ==
  ASSUME TypeOK,
         \/ Tick \/ \E s \in Servers : Crash(s)
         \/ \E total \in RefundTotals : Clawback(total)
         \/ Dispute \/ DisputeWon \/ OperatorDisable \/ OperatorEnable
  PROVE  TypeOK'
<1>1. CASE Tick
  BY <1>1 DEF TypeOK, Tick, Refreshed, Least, row, requests, ghosts
<1>2. CASE \E s \in Servers : Crash(s)
  BY <1>2 DEF TypeOK, Crash, States, row, ghosts
<1>3. CASE \E total \in RefundTotals : Clawback(total)
  <2> PICK total \in RefundTotals : Clawback(total)
    BY <1>3
  <2>1. Most(0, total - refunded) \in Nat
    BY DEF TypeOK, Most
  <2>2. /\ balance' \in Nat /\ balance' <= balance /\ refunded' \in Nat
        /\ clawed' \in Nat
    BY <2>1 DEF TypeOK, Clawback, Most
  <2>3. cause' \in Causes /\ due' \subseteq Causes \ {"no"}
    BY DEF TypeOK, Clawback, DisabledBy, Causes
  <2>4. UNCHANGED <<held, spent, entries, mark, settled, prior, age, requests, taken, sold>>
    BY DEF Clawback
  <2> QED
    BY <2>2, <2>3, <2>4 DEF TypeOK, requests
<1>4. CASE Dispute \/ DisputeWon \/ OperatorDisable \/ OperatorEnable
  BY <1>4 DEF TypeOK, Dispute, DisputeWon, OperatorDisable, OperatorEnable, SetCause,
              DisabledBy, Causes, requests
<1> QED
  BY <1>1, <1>2, <1>3, <1>4

\* Every step keeps the types.
LEMMA TypeStep == TypeOK /\ [Next]_vars => TypeOK'
<1> SUFFICES ASSUME TypeOK, [Next]_vars PROVE TypeOK'
  OBVIOUS
<1>1. ASSUME NEW c \in Calls, CallStep(c) PROVE TypeOK'
  BY <1>1, TypeCallMoney, TypeCallQuiet
<1>2. ASSUME NEW s \in Servers, Sweep(s) \/ SweepLost(s) PROVE TypeOK'
  BY <1>2, TypeSweep DEF Sweep, SweepLost
<1>3. CASE UNCHANGED vars
  BY <1>3 DEF TypeOK, vars, row, requests, ghosts
<1> QED
  BY <1>1, <1>2, <1>3, TypeOther DEF Next

\* Every variable keeps its type: in particular the balance, the held and the
\* spent money never become negative, through any sweep, settle or refund.
THEOREM TypeCorrect == Spec => []TypeOK
BY TypeInit, TypeStep, PTL DEF Spec

------------------------------------------------------------------------------
(* Money *)

\* A transaction that touches one entry takes exactly its price out of what the
\* entries hold.
LEMMA OneEntryLess ==
  ASSUME TypeOK, NEW c \in entries
  PROVE  /\ Total(Price, entries \ {c}) = Total(Price, entries) - Price[c]
         /\ Price[c] <= Total(Price, entries)
<1>1. IsFiniteSet(entries) /\ {c} \in SUBSET entries /\ c \in Calls
  BY PricesType DEF TypeOK
<1>2. \A x \in entries : Price[x] \in Nat
  BY DEF TypeOK
<1>3. Total(Price, {c}) = Price[c]
  BY <1>1, TotalSingle
<1>4. /\ Total(Price, entries \ {c}) \in Nat /\ Total(Price, entries) \in Nat
      /\ Total(Price, entries \ {c}) = Total(Price, entries) - Total(Price, {c})
  BY <1>1, <1>2, TotalRemove
<1> QED
  BY <1>1, <1>3, <1>4

\* What takeHold answers: the whole price of an open entry, and nothing once the
\* entry is gone.
LEMMA TakeHoldValue ==
  ASSUME TypeOK, HeldCoversEntries, NEW c \in Calls
  PROVE  TakeHold(c) = IF c \in entries THEN Price[c] ELSE 0
<1>1. CASE c \in entries
  <2>1. Price[c] <= Total(Price, entries)
    BY <1>1, OneEntryLess
  <2>2. Total(Price, entries) \in Nat
    BY PricesType DEF TypeOK
  <2>3. Price[c] <= held
    BY <2>1, <2>2 DEF HeldCoversEntries, TypeOK
  <2> QED
    BY <1>1, <2>3 DEF TakeHold, Least, TypeOK
<1> QED
  BY <1>1 DEF TakeHold

\* The money moved by one settle.
LEMMA MoneySettle ==
  ASSUME TypeOK, Money, NEW c \in Calls, SettleHold(c), clawed' = clawed
  PROVE  Money'
<1> DEFINE ofHold == TakeHold(c)
           takes  == Least(ofHold, ask[c])
<1>1. ofHold = IF c \in entries THEN Price[c] ELSE 0
  BY TakeHoldValue DEF Money
<1>2. ofHold \in Nat /\ takes \in Nat
  BY <1>1 DEF Least, TypeOK
<1>3. Total(Price, entries \ {c}) = Total(Price, entries) - ofHold
  <2>1. CASE c \in entries
    BY <1>1, <2>1, OneEntryLess
  <2>2. CASE c \notin entries
    <3>1. entries \ {c} = entries
      BY <2>2
    <3>2. Total(Price, entries) \in Nat
      BY PricesType DEF TypeOK
    <3>3. Total(Price, entries \ {c}) = Total(Price, entries)
      BY <3>1
    <3>4. ofHold = 0
      BY <1>1, <2>2
    <3> QED
      BY <3>2, <3>3, <3>4
  <2> QED
    BY <2>1, <2>2
<1>4. Total(Price, entries) \in Nat
  BY PricesType DEF TypeOK
<1>5. HeldCoversEntries'
  BY <1>2, <1>3, <1>4 DEF SettleHold, Money, HeldCoversEntries, TypeOK
<1>6. Total(taken', Calls) = Total(taken, Calls) + takes
  <2>1. /\ \A d \in Calls : taken[d] \in Nat /\ taken'[d] \in Nat
        /\ \A d \in Calls \ {c} : taken'[d] = taken[d]
        /\ taken'[c] = taken[c] + takes
    BY <1>2 DEF SettleHold, TypeOK
  <2>2. Total(taken', Calls) = Total(taken, Calls) - taken[c] + taken'[c]
    BY <2>1, TotalChange
  <2>3. Total(taken, Calls) \in Nat
    BY <2>1, TotalType
  <2> QED
    BY <1>2, <2>1, <2>2, <2>3
<1>7. Conservation'
  <2>1. Total(taken, Calls) \in Nat
    BY TotalType DEF TypeOK
  <2> QED
    BY <1>2, <1>6, <2>1 DEF SettleHold, Money, Conservation, TypeOK
<1> QED
  BY <1>5, <1>7 DEF Money

\* The money moved by one release.
LEMMA MoneyRelease ==
  ASSUME TypeOK, Money, NEW c \in Calls, ReleaseHold(c), UNCHANGED <<taken, clawed>>
  PROVE  Money'
<1>1. TakeHold(c) = IF c \in entries THEN Price[c] ELSE 0
  BY TakeHoldValue DEF Money
<1>2. TakeHold(c) \in Nat
  BY <1>1
<1>3. Total(Price, entries) \in Nat
  BY PricesType DEF TypeOK
<1>4. Total(Price, entries \ {c}) = Total(Price, entries) - TakeHold(c)
  <2>1. CASE c \in entries
    BY <1>1, <2>1, OneEntryLess
  <2>2. CASE c \notin entries
    <3>1. entries \ {c} = entries
      BY <2>2
    <3>2. Total(Price, entries \ {c}) = Total(Price, entries)
      BY <3>1, Zenon
    <3> QED
      BY <1>1, <1>3, <2>2, <3>2
  <2> QED
    BY <2>1, <2>2
<1> QED
  BY <1>2, <1>3, <1>4 DEF ReleaseHold, Money, Conservation, HeldCoversEntries, TypeOK

\* The money set aside for a new call.
LEMMA MoneyPlace ==
  ASSUME TypeOK, Money, NEW c \in Calls, c \notin entries, PlaceHold(c),
         UNCHANGED <<taken, clawed>>
  PROVE  Money'
<1>1. IsFiniteSet(entries) /\ Total(Price, entries) \in Nat
  BY PricesType DEF TypeOK
<1>2. \A x \in entries \cup {c} : Price[x] \in Nat
  BY DEF TypeOK
<1>3. Total(Price, entries \cup {c}) = Total(Price, entries) + Price[c]
  BY <1>1, <1>2, TotalAdd
<1> QED
  BY <1>1, <1>3 DEF PlaceHold, Money, Conservation, HeldCoversEntries, TypeOK

------------------------------------------------------------------------------
(* The sweep *)

Swept(s) == Abandoned(s)

SweptMarked(s) == { c \in Abandoned(s) : mark[c] > 0 }

SweptTakes(s) == [c \in Calls |-> IF c \in SweptMarked(s) THEN Least(Price[c], mark[c]) ELSE 0]

\* What a sweep does, with its clamps gone: they never bite, because the row
\* holds at least what its entries say.
LEMMA SweepMoves ==
  ASSUME TypeOK, HeldCoversEntries,
         NEW s \in Servers, NEW quietRow \in BOOLEAN, NEW books \in BOOLEAN,
         SweepRow(s, quietRow, books)
  PROVE  \E stray \in Nat :
           LET debit == Total(SweptTakes(s), Calls)
               ends  == Total(Price, Swept(s))
           IN /\ stray = 0 \/ stray = UntrackedHeld
              /\ stray <= UntrackedHeld
              /\ debit \in Nat /\ ends \in Nat /\ debit <= ends
              /\ Total(Price, entries) \in Nat
              /\ Total(Price, entries \ Swept(s)) = Total(Price, entries) - ends
              /\ held' = held - ends - stray
              /\ balance' = balance + (ends - debit) + stray
              /\ spent' = spent + debit
              /\ entries' = entries \ Swept(s)
              /\ taken' = [c \in Calls |-> taken[c] + SweptTakes(s)[c]]
              /\ Total(taken', Calls) = Total(taken, Calls) + debit
<1> DEFINE marked == SweptMarked(s)
           takes  == SweptTakes(s)
           stray  == IF quietRow /\ UntrackedHeld > 0 /\ \A c \in Calls : ~LiveOn(c, s)
                     THEN UntrackedHeld ELSE 0
           debit  == Total(takes, marked)
           ends   == Total(Price, Swept(s))
           leaving  == Least(ends + stray, held)
           returned == Most(0, Least(ends + stray - debit, leaving - debit))
<1>1. /\ Swept(s) \in SUBSET entries /\ marked \in SUBSET Swept(s)
      /\ Swept(s) \subseteq Calls /\ marked \in SUBSET Calls /\ entries \subseteq Calls
  BY DEF Swept, SweptMarked, Abandoned, TypeOK
<1>2. takes \in [Calls -> Nat]
  BY DEF SweptTakes, TypeOK, Least
<1>3. debit = Total(takes, Calls)
  <2>1. \A c \in Calls : takes[c] \in Nat
    BY <1>2
  <2>2. \A c \in Calls \ marked : takes[c] = 0
    BY DEF SweptTakes
  <2> QED
    BY <1>1, <2>1, <2>2, TotalSupport
<1>4. /\ ends \in Nat /\ Total(Price, entries) \in Nat
      /\ Total(Price, entries \ Swept(s)) = Total(Price, entries) - ends
  <2>1. IsFiniteSet(entries) /\ \A c \in entries : Price[c] \in Nat
    BY <1>1, PricesType
  <2> QED
    BY <1>1, <2>1, TotalRemove
<1>5. debit \in Nat /\ debit <= ends
  <2>1. IsFiniteSet(marked) /\ IsFiniteSet(Swept(s))
    BY <1>1, PricesType
  <2>2. \A c \in marked : takes[c] \in Nat /\ Price[c] \in Nat /\ takes[c] <= Price[c]
    BY <1>1, <1>2 DEF SweptTakes, Least, TypeOK
  <2>3. debit <= Total(Price, marked) /\ debit \in Nat
    BY <2>1, <2>2, TotalMonotone, TotalType
  <2>4. /\ Total(Price, Swept(s) \ marked) \in Nat /\ Total(Price, marked) \in Nat
        /\ Total(Price, Swept(s) \ marked) = ends - Total(Price, marked)
    BY <1>1, <2>1, TotalRemove
  <2> QED
    BY <1>4, <2>3, <2>4
<1>6. stray \in Nat /\ (stray = 0 \/ stray = UntrackedHeld) /\ stray <= UntrackedHeld
  BY <1>4 DEF UntrackedHeld, HeldCoversEntries, TypeOK
<1>7. ends + stray <= held
  <2>1. Total(Price, entries \ Swept(s)) \in Nat
    BY <1>1, PricesType
  <2> QED
    BY <1>4, <1>6, <2>1 DEF UntrackedHeld, TypeOK
<1>8. leaving = ends + stray /\ returned = (ends - debit) + stray
  BY <1>4, <1>5, <1>6, <1>7 DEF Least, Most, TypeOK
<1>9. /\ held' = held - leaving /\ balance' = balance + returned /\ spent' = spent + debit
      /\ entries' = entries \ Swept(s)
      /\ taken' = [c \in Calls |-> taken[c] + takes[c]]
  BY DEF SweepRow, Swept, SweptMarked, SweptTakes
<1>10. Total(taken', Calls) = Total(taken, Calls) + Total(takes, Calls)
  <2>1. \A c \in Calls : /\ taken[c] \in Nat /\ takes[c] \in Nat
                          /\ taken'[c] = taken[c] + takes[c]
    BY <1>2, <1>9 DEF TypeOK
  <2> QED
    BY <2>1, TotalOfSum
<1>11. /\ held' = held - ends - stray
       /\ balance' = balance + (ends - debit) + stray
  BY <1>4, <1>5, <1>6, <1>8, <1>9 DEF TypeOK
<1> QED
  BY <1>3, <1>4, <1>5, <1>6, <1>9, <1>10, <1>11, Zenon

\* The money moved by a sweep.
LEMMA MoneySweep ==
  ASSUME TypeOK, Money, NEW s \in Servers, NEW quietRow \in BOOLEAN, NEW books \in BOOLEAN,
         SweepRow(s, quietRow, books)
  PROVE  Money'
<1>1. PICK stray \in Nat :
        LET debit == Total(SweptTakes(s), Calls)
            ends  == Total(Price, Swept(s))
        IN /\ stray <= UntrackedHeld
           /\ debit \in Nat /\ ends \in Nat
           /\ Total(Price, entries) \in Nat
           /\ Total(Price, entries \ Swept(s)) = Total(Price, entries) - ends
           /\ held' = held - ends - stray
           /\ balance' = balance + (ends - debit) + stray
           /\ spent' = spent + debit
           /\ entries' = entries \ Swept(s)
           /\ Total(taken', Calls) = Total(taken, Calls) + debit
  BY SweepMoves DEF Money
<1>2. Total(Price, entries') = Total(Price, entries) - Total(Price, Swept(s))
  BY <1>1, Zenon
<1>3. clawed' = clawed
  BY DEF SweepRow
<1>4. HeldCoversEntries'
  BY <1>1, <1>2 DEF Money, HeldCoversEntries, UntrackedHeld, TypeOK
<1>5. Total(taken, Calls) \in Nat
  BY TotalType DEF TypeOK
<1>6. Conservation'
  BY <1>1, <1>3, <1>5 DEF Money, Conservation, TypeOK
<1> QED
  BY <1>4, <1>6 DEF Money

------------------------------------------------------------------------------
(* Steps that end no hold *)

\* The steps that only move a request along, or the clock, or the key's cause.
Bystander ==
  \/ \E c \in Calls :
       \/ AuthorizeRefused(c) \/ StartStream(c) \/ EndServed(c) \/ EndUnserved(c)
       \/ Finish(c) \/ CloseLate(c) \/ CloseEarly(c)
       \/ GoneForgiven(c) \/ GoneCharged(c) \/ GoneTimeout(c)
       \/ MarkLands(c) \/ MarkFails(c) \/ SettleGivesUp(c) \/ ReleaseGivesUp(c)
  \/ Tick
  \/ \E s \in Servers : Crash(s)
  \/ \E total \in RefundTotals : Clawback(total)
  \/ Dispute \/ DisputeWon \/ OperatorDisable \/ OperatorEnable
  \/ UNCHANGED vars

\* What such a step leaves alone.
LEMMA BystanderKeeps ==
  ASSUME TypeOK, Bystander
  PROVE  /\ UNCHANGED <<held, spent, entries, settled, prior, taken, sold>>
         /\ \A c \in Calls : /\ pc'[c] = "idle" => pc[c] = "idle"
                             /\ pc'[c] = "refused" => pc[c] \in {"idle", "refused"}
                             /\ pc[c] = "done" => pc'[c] = "done"
<1>1. ASSUME NEW c \in Calls,
             \/ AuthorizeRefused(c) \/ StartStream(c) \/ EndServed(c) \/ EndUnserved(c)
             \/ Finish(c) \/ CloseLate(c) \/ CloseEarly(c)
      PROVE  /\ UNCHANGED <<held, spent, entries, settled, prior, taken, sold>>
             /\ \A d \in Calls : /\ pc'[d] = "idle" => pc[d] = "idle"
                                 /\ pc'[d] = "refused" => pc[d] \in {"idle", "refused"}
                                 /\ pc[d] = "done" => pc'[d] = "done"
  BY <1>1 DEF TypeOK, AuthorizeRefused, StartStream, EndServed, EndUnserved, Finish,
              CloseLate, CloseEarly, row, ghosts
<1>2. ASSUME NEW c \in Calls,
             \/ GoneForgiven(c) \/ GoneCharged(c) \/ GoneTimeout(c)
             \/ MarkLands(c) \/ MarkFails(c) \/ SettleGivesUp(c) \/ ReleaseGivesUp(c)
      PROVE  /\ UNCHANGED <<held, spent, entries, settled, prior, taken, sold>>
             /\ \A d \in Calls : /\ pc'[d] = "idle" => pc[d] = "idle"
                                 /\ pc'[d] = "refused" => pc[d] \in {"idle", "refused"}
                                 /\ pc[d] = "done" => pc'[d] = "done"
  BY <1>2 DEF TypeOK, GoneForgiven, GoneCharged, GoneTimeout, MarkLands, MarkFails,
              SettleGivesUp, ReleaseGivesUp, row, ghosts
<1>3. CASE Tick \/ UNCHANGED vars
  BY <1>3 DEF Tick, Refreshed, vars, row, requests, ghosts
<1>4. CASE \E s \in Servers : Crash(s)
  BY <1>4 DEF Crash, TypeOK, LiveOn, Live, LiveStates, row, ghosts
<1>5. CASE \/ \E total \in RefundTotals : Clawback(total)
           \/ Dispute \/ DisputeWon \/ OperatorDisable \/ OperatorEnable
  BY <1>5 DEF Clawback, Dispute, DisputeWon, OperatorDisable, OperatorEnable, SetCause, requests
<1> QED
  BY <1>1, <1>2, <1>3, <1>4, <1>5 DEF Bystander

\* A step is a bystander's, or it places or ends holds, or it books a sale again.
LEMMA StepCases ==
  ASSUME [Next]_vars
  PROVE  \/ Bystander
         \/ \E c \in Calls : Authorize(c) \/ AuthorizeLost(c) \/ AuthorizeUnheard(c)
         \/ \E c \in Calls : Settle(c) \/ SettleLost(c)
         \/ \E c \in Calls : SettleAgain(c)
         \/ \E c \in Calls : Release(c) \/ ReleaseLost(c)
         \/ \E s \in Servers, quietRow \in BOOLEAN, books \in BOOLEAN :
              SweepRow(s, quietRow, books)
BY Zenon DEF Next, CallStep, Bystander, Sweep, SweepLost

\* Refunds move available money only, so the money of the entries stays.
LEMMA MoneyBystander ==
  ASSUME TypeOK, Money, Bystander
  PROVE  Money'
<1>1. UNCHANGED <<held, spent, entries, taken>>
  BY BystanderKeeps
<1>3. balance' \in Nat /\ clawed' \in Nat
  <2>1. [Next]_vars
    BY Zenon DEF Bystander, Next, CallStep
  <2> QED
    BY <2>1, TypeStep DEF TypeOK
<1>2. balance' + clawed' = balance + clawed
  <2>1. CASE \E total \in RefundTotals : Clawback(total)
    <3> PICK total \in RefundTotals : Clawback(total)
      BY <2>1
    <3>1. clawed' = clawed + (balance - balance')
      BY DEF Clawback
    <3>2. PICK b \in Nat, t \in Nat : balance' = b /\ clawed' = t
      BY <1>3
    <3>3. balance \in Nat /\ clawed \in Nat /\ t = clawed + (balance - b)
      BY <3>1, <3>2 DEF TypeOK
    <3>4. b + t = balance + clawed
      BY <3>3
    <3> QED
      BY <3>2, <3>4
  <2>2. CASE ~(\E total \in RefundTotals : Clawback(total))
    <3>1. UNCHANGED <<balance, clawed>>
      BY <2>2 DEF Bystander, AuthorizeRefused, StartStream, EndServed, EndUnserved, Finish,
                  CloseLate, CloseEarly, GoneForgiven, GoneCharged, GoneTimeout, MarkLands,
                  MarkFails, SettleGivesUp, ReleaseGivesUp, Tick, Crash, Dispute, DisputeWon,
                  OperatorDisable, OperatorEnable, SetCause, vars, row, ghosts
    <3> QED
      BY <3>1
  <2> QED
    BY <2>1, <2>2
<1>4. Total(taken', Calls) = Total(taken, Calls) /\ Total(Price, entries') = Total(Price, entries)
  BY <1>1, Zenon
<1>5. Total(taken, Calls) \in Nat /\ Total(Price, entries) \in Nat
  BY PricesType, TotalType DEF TypeOK
<1>6. /\ balance \in Nat /\ clawed \in Nat /\ held \in Nat /\ spent \in Nat
      /\ held' = held /\ spent' = spent
  BY <1>1 DEF TypeOK
<1>7. PICK b \in Nat, t \in Nat : balance' = b /\ clawed' = t
  BY <1>3
<1>8. b + t = balance + clawed
  BY <1>2, <1>7
<1>9. balance + held + spent + clawed = Loaded => b + held + spent + t = Loaded
  BY <1>6, <1>8
<1> QED
  BY <1>4, <1>5, <1>6, <1>7, <1>9 DEF Money, Conservation, HeldCoversEntries

\* Every step keeps the money invariants.
LEMMA MoneyStep ==
  ASSUME IInv, [Next]_vars
  PROVE  Money'
<1> USE DEF IInv
<1>1. ASSUME NEW c \in Calls, Authorize(c) \/ AuthorizeLost(c) \/ AuthorizeUnheard(c) PROVE Money'
  <2>1. c \notin entries /\ PlaceHold(c) /\ UNCHANGED <<taken, clawed>>
    BY <1>1 DEF Authorize, AuthorizeLost, AuthorizeUnheard, ghosts, Books, IdleUntouched
  <2> QED
    BY <2>1, MoneyPlace
<1>2. ASSUME NEW c \in Calls, Settle(c) \/ SettleLost(c) PROVE Money'
  BY <1>2, MoneySettle DEF Settle, SettleLost
<1>3. ASSUME NEW c \in Calls, SettleAgain(c) PROVE Money'
  BY <1>3 DEF SettleAgain, row, Money, Conservation, HeldCoversEntries
<1>4. ASSUME NEW c \in Calls, Release(c) \/ ReleaseLost(c) PROVE Money'
  BY <1>4, MoneyRelease DEF Release, ReleaseLost, ghosts
<1> QED
  BY <1>1, <1>2, <1>3, <1>4, MoneyBystander, MoneySweep, StepCases

------------------------------------------------------------------------------
(* What was charged, recorded and booked for each call *)

\* A step that ends no hold keeps the books.
LEMMA BooksBystander ==
  ASSUME TypeOK, Books, Bystander
  PROVE  Books'
<1>1. /\ entries' = entries /\ settled' = settled /\ prior' = prior
      /\ taken' = taken /\ sold' = sold
      /\ \A c \in Calls : /\ pc'[c] = "idle" => pc[c] = "idle"
                          /\ pc'[c] = "refused" => pc[c] \in {"idle", "refused"}
                          /\ pc[c] = "done" => pc'[c] = "done"
  BY BystanderKeeps
<1>2. entries \subseteq Calls /\ settled \subseteq Calls
  BY DEF TypeOK
<1>3. EntriesOpen' /\ IdleUntouched' /\ SoldOnce'
  BY <1>1, <1>2 DEF Books, EntriesOpen, IdleUntouched, SoldOnce
<1>4. Records'
  BY <1>1, <1>2 DEF Books, Records
<1> QED
  BY <1>3, <1>4 DEF Books

\* The books after a hold is placed: it is a new call's, which left no trace.
LEMMA BooksPlace ==
  ASSUME TypeOK, Books, NEW c \in Calls, Authorize(c) \/ AuthorizeLost(c) \/ AuthorizeUnheard(c)
  PROVE  Books'
<1>1. /\ entries' = entries \cup {c} /\ pc[c] = "idle"
      /\ settled' = settled /\ prior' = prior /\ taken' = taken /\ sold' = sold
  BY DEF Authorize, AuthorizeLost, AuthorizeUnheard, PlaceHold, ghosts
<1>2. /\ pc'[c] \notin {"idle", "refused", "done"}
      /\ \A d \in Calls \ {c} : pc'[d] = pc[d]
  BY DEF Authorize, AuthorizeLost, AuthorizeUnheard, TypeOK
<1>3. c \notin settled /\ taken[c] = 0 /\ sold[c] = 0
  BY <1>1 DEF Books, IdleUntouched
<1>4. entries \subseteq Calls /\ settled \subseteq Calls
  BY DEF TypeOK
<1>5. EntriesOpen' /\ IdleUntouched' /\ SoldOnce'
  BY <1>1, <1>2, <1>3, <1>4 DEF Books, EntriesOpen, IdleUntouched, SoldOnce
<1>6. Records'
  BY <1>1, <1>2, <1>3, <1>4 DEF Books, Records
<1> QED
  BY <1>5, <1>6 DEF Books

\* The books after a settle: what it takes of an open entry is all that was
\* ever taken for the call, and it is booked with it or recorded for the retry.
LEMMA BooksSettle ==
  ASSUME TypeOK, Money, Books, NEW c \in Calls, Settle(c) \/ SettleLost(c)
  PROVE  Books'
<1> DEFINE takes == Least(TakeHold(c), ask[c])
<1>1. SettleHold(c) /\ pc[c] = "settling"
  BY DEF Settle, SettleLost
<1>2. settled' \subseteq settled \cup {c}
  BY <1>1, RecentSettledPart DEF SettleHold
<1>3. /\ entries' = entries \ {c}
      /\ prior' = [prior EXCEPT ![c] = [m |-> takes, booked |-> FALSE]]
      /\ taken' = [taken EXCEPT ![c] = @ + takes]
  BY <1>1 DEF SettleHold
<1>4. /\ \A d \in Calls \ {c} : /\ prior'[d] = prior[d] /\ taken'[d] = taken[d]
                                /\ sold'[d] = sold[d] /\ pc'[d] = pc[d]
      /\ prior'[c].m = takes
      /\ taken'[c] = taken[c] + takes
      /\ \/ sold'[c] = sold[c] + takes /\ pc'[c] = "done"
         \/ sold'[c] = sold[c] /\ pc'[c] = "settling"
  BY <1>1, <1>3 DEF Settle, SettleLost, TypeOK, requests
<1>5. takes \in Nat /\ (c \notin entries => takes = 0)
  <2>1. TakeHold(c) = IF c \in entries THEN Price[c] ELSE 0
    BY TakeHoldValue DEF Money
  <2> QED
    BY <2>1 DEF Least, TypeOK
<1>6. entries \subseteq Calls /\ settled \subseteq Calls /\ taken[c] \in Nat /\ sold[c] \in Nat
  BY DEF TypeOK
<1>7. EntriesOpen' /\ IdleUntouched'
  BY <1>1, <1>2, <1>3, <1>4, <1>6 DEF Books, EntriesOpen, IdleUntouched
<1>8. sold'[c] \in {0, taken'[c]} /\ (pc'[c] = "done" \/ takes = 0
                                      \/ (takes = taken'[c] /\ sold'[c] = 0))
  <2>1. CASE c \in entries
    <3>1. taken[c] = 0 /\ sold[c] = 0
      BY <2>1 DEF Books, EntriesOpen
    <3> QED
      BY <1>4, <1>5, <3>1
  <2>2. CASE c \notin entries
    BY <1>4, <1>5, <1>6, <2>2 DEF Books, SoldOnce
  <2> QED
    BY <2>1, <2>2
<1>9. SoldOnce'
  BY <1>4, <1>8 DEF Books, SoldOnce
<1>10. Records'
  <2>1. ASSUME NEW d \in settled', ~prior'[d].booked, pc'[d] # "done"
        PROVE  prior'[d].m = 0 \/ (prior'[d].m = taken'[d] /\ sold'[d] = 0)
    <3>1. CASE d = c
      BY <1>4, <1>8, <2>1, <3>1
    <3>2. CASE d # c
      BY <1>2, <1>4, <1>6, <2>1, <3>2 DEF Books, Records
    <3> QED
      BY <3>1, <3>2
  <2> QED
    BY <2>1 DEF Records
<1> QED
  BY <1>7, <1>9, <1>10 DEF Books

\* The books after a retry found its settle on record: what it books was taken
\* and not booked before.
LEMMA BooksSettleAgain ==
  ASSUME TypeOK, Books, NEW c \in Calls, SettleAgain(c)
  PROVE  Books'
<1>1. /\ pc[c] = "settling" /\ c \notin entries /\ c \in settled
      /\ entries' = entries /\ settled' = settled /\ prior' = prior /\ taken' = taken
  BY DEF SettleAgain, AlreadySettled, row
<1>2. /\ \A d \in Calls \ {c} : pc'[d] = pc[d] /\ sold'[d] = sold[d]
      /\ pc'[c] = "done"
      /\ sold'[c] = sold[c] + (IF prior[c].booked THEN 0 ELSE prior[c].m)
  BY DEF SettleAgain, TypeOK
<1>3. entries \subseteq Calls /\ settled \subseteq Calls /\ taken[c] \in Nat /\ sold[c] \in Nat
  BY DEF TypeOK
<1>4. sold'[c] \in {0, taken'[c]}
  <2>1. prior[c].booked \/ prior[c].m = 0 \/ (prior[c].m = taken[c] /\ sold[c] = 0)
    BY <1>1 DEF Books, Records
  <2>2. sold[c] \in {0, taken[c]}
    BY DEF Books, SoldOnce
  <2> QED
    BY <1>1, <1>2, <1>3, <2>1, <2>2
<1>5. EntriesOpen' /\ IdleUntouched' /\ SoldOnce'
  BY <1>1, <1>2, <1>3, <1>4 DEF Books, EntriesOpen, IdleUntouched, SoldOnce
<1>6. Records'
  BY <1>1, <1>2, <1>3 DEF Books, Records
<1> QED
  BY <1>5, <1>6 DEF Books

\* The books after a release.
LEMMA BooksRelease ==
  ASSUME TypeOK, Books, NEW c \in Calls, Release(c) \/ ReleaseLost(c)
  PROVE  Books'
<1>1. /\ entries' = entries \ {c} /\ pc[c] = "releasing"
      /\ settled' = settled /\ prior' = prior /\ taken' = taken /\ sold' = sold
  BY DEF Release, ReleaseLost, ReleaseHold, ghosts
<1>2. /\ pc'[c] \in {"releasing", "done"}
      /\ \A d \in Calls \ {c} : pc'[d] = pc[d]
  BY DEF Release, ReleaseLost, TypeOK, requests
<1>3. entries \subseteq Calls /\ settled \subseteq Calls
  BY DEF TypeOK
<1>4. EntriesOpen' /\ IdleUntouched' /\ SoldOnce'
  BY <1>1, <1>2, <1>3 DEF Books, EntriesOpen, IdleUntouched, SoldOnce
<1>5. Records'
  BY <1>1, <1>2, <1>3 DEF Books, Records
<1> QED
  BY <1>4, <1>5 DEF Books

\* The books after a sweep: it debits open entries only, which nothing was
\* taken for before, and its records say that their sale is booked.
LEMMA BooksSweep ==
  ASSUME TypeOK, Books, NEW s \in Servers, NEW quietRow \in BOOLEAN, NEW books \in BOOLEAN,
         SweepRow(s, quietRow, books)
  PROVE  Books'
<1> DEFINE marked == SweptMarked(s)
           takes  == SweptTakes(s)
<1>1. marked \subseteq Swept(s) /\ Swept(s) \subseteq entries /\ entries \subseteq Calls
  BY DEF SweptMarked, Swept, Abandoned, TypeOK
<1>2. /\ \A c \in Calls : takes[c] \in Nat
      /\ \A c \in Calls \ marked : takes[c] = 0
  BY DEF SweptTakes, Least, TypeOK
<1>3. /\ entries' = entries \ Swept(s)
      /\ prior' = [c \in Calls |-> IF c \in marked THEN [m |-> takes[c], booked |-> TRUE]
                                                   ELSE prior[c]]
      /\ taken' = [c \in Calls |-> taken[c] + takes[c]]
      /\ sold' = IF books THEN [c \in Calls |-> sold[c] + takes[c]] ELSE sold
      /\ pc' = pc
  BY DEF SweepRow, Swept, SweptMarked, SweptTakes, requests
<1>4. settled' \subseteq settled \cup marked
  BY RecentSettledPart DEF SweepRow, SweptMarked
<1>5. /\ \A c \in Calls : taken[c] \in Nat /\ sold[c] \in Nat
      /\ settled \subseteq Calls
  BY DEF TypeOK
<1>6. \A c \in Calls \ marked : /\ taken'[c] = taken[c] /\ sold'[c] = sold[c]
                                /\ prior'[c] = prior[c]
  BY <1>2, <1>3, <1>5
<1>7. \A c \in marked : /\ taken'[c] = takes[c] /\ sold'[c] \in {0, takes[c]}
                        /\ prior'[c].booked
  <2>1. \A c \in marked : c \in Calls /\ taken[c] = 0 /\ sold[c] = 0
    BY <1>1 DEF Books, EntriesOpen
  <2> QED
    BY <1>2, <1>3, <2>1
<1>8. EntriesOpen'
  BY <1>1, <1>3, <1>4, <1>6 DEF Books, EntriesOpen
<1>9. IdleUntouched'
  BY <1>1, <1>3, <1>4, <1>6 DEF Books, IdleUntouched
<1>10. SoldOnce'
  BY <1>6, <1>7 DEF Books, SoldOnce
<1>11. Records'
  <2> SUFFICES ASSUME NEW c \in settled', ~prior'[c].booked, pc[c] # "done"
               PROVE  prior'[c].m = 0 \/ (prior'[c].m = taken'[c] /\ sold'[c] = 0)
    BY <1>3 DEF Records
  <2>1. c \in settled /\ c \in Calls \ marked
    BY <1>4, <1>5, <1>7
  <2>2. prior'[c] = prior[c] /\ taken'[c] = taken[c] /\ sold'[c] = sold[c]
    BY <1>6, <2>1
  <2> QED
    BY <2>1, <2>2 DEF Books, Records
<1> QED
  BY <1>8, <1>9, <1>10, <1>11 DEF Books

\* Every step keeps the books.
LEMMA BooksStep ==
  ASSUME IInv, [Next]_vars
  PROVE  Books'
BY BooksBystander, BooksPlace, BooksSettle, BooksSettleAgain, BooksRelease, BooksSweep,
   StepCases DEF IInv

------------------------------------------------------------------------------
(* The theorems *)

\* A key that was never used.
LEMMA InvInit == Init => IInv
<1> SUFFICES ASSUME Init PROVE IInv
  OBVIOUS
<1>1. TypeOK
  BY TypeInit
<1>2. Total(taken, Calls) = 0 /\ Total(Price, entries) = 0
  <2>1. entries = {} /\ \A c \in Calls : taken[c] = 0
    BY DEF Init
  <2>2. Total(taken, Calls) = Total(taken, {})
    <3>1. {} \in SUBSET Calls /\ \A c \in Calls : taken[c] \in Nat
      BY <2>1
    <3> QED
      BY <2>1, <3>1, TotalSupport
  <2> QED
    BY <2>1, <2>2, TotalEmpty, Zenon
<1>3. Conservation /\ HeldCoversEntries
  BY <1>2 DEF Init, Conservation, HeldCoversEntries
<1>4. Books
  BY DEF Init, Books, EntriesOpen, IdleUntouched, Records, SoldOnce
<1> QED
  BY <1>1, <1>3, <1>4 DEF IInv, Money

\* The invariant is inductive.
LEMMA InvStep == IInv /\ [Next]_vars => IInv'
BY TypeStep, MoneyStep, BooksStep DEF IInv

\* The inductive invariant holds whatever crashes, is lost, or is swept.
THEOREM Inductive == Spec => []IInv
BY InvInit, InvStep, PTL DEF Spec

\* No money is made or lost by any interleaving of settles, releases, sweeps,
\* refunds, crashes and lost replies.
THEOREM MoneyConserved == Spec => []Conservation
<1>1. IInv => Conservation
  BY DEF IInv, Money
<1> QED
  BY <1>1, Inductive, PTL

\* The money an entry holds is still there when the entry is ended.
THEOREM HeldIsThere == Spec => []HeldCoversEntries
<1>1. IInv => HeldCoversEntries
  BY DEF IInv, Money
<1> QED
  BY <1>1, Inductive, PTL

\* A call's debit is booked as a sale at most once, by its settle, by a retry
\* of it or by the sweep of any process.
THEOREM SaleBookedOnce == Spec => []SoldOnce
<1>1. IInv => SoldOnce
  BY DEF IInv, Books
<1> QED
  BY <1>1, Inductive, PTL

------------------------------------------------------------------------------
(* What one step does to one call's money *)

\* What is taken for a call, a step takes from its open entry, at most its price.
LEMMA TakenStep ==
  ASSUME IInv, [Next]_vars, NEW c \in Calls, taken'[c] # taken[c]
  PROVE  /\ c \in entries /\ c \notin entries'
         /\ taken[c] = 0 /\ taken'[c] <= Price[c]
<1> USE DEF IInv, Books, EntriesOpen
<1>1. CASE Bystander
  BY <1>1, BystanderKeeps
<1>2. CASE \E d \in Calls : \/ Authorize(d) \/ AuthorizeLost(d) \/ AuthorizeUnheard(d) \/ SettleAgain(d)
                            \/ Release(d) \/ ReleaseLost(d)
  BY <1>2 DEF Authorize, AuthorizeLost, AuthorizeUnheard, SettleAgain, Release, ReleaseLost, ghosts
<1>3. ASSUME NEW d \in Calls, Settle(d) \/ SettleLost(d)
      PROVE  c \in entries /\ c \notin entries' /\ taken[c] = 0 /\ taken'[c] <= Price[c]
  <2> DEFINE takes == Least(TakeHold(d), ask[d])
  <2>1. entries' = entries \ {d} /\ taken' = [taken EXCEPT ![d] = @ + takes]
    BY <1>3 DEF Settle, SettleLost, SettleHold
  <2>2. c = d /\ taken'[d] = taken[d] + takes
    BY <2>1 DEF TypeOK
  <2>3. TakeHold(d) = IF d \in entries THEN Price[d] ELSE 0
    BY TakeHoldValue DEF Money
  <2>4. takes \in Nat /\ takes <= Price[d] /\ (d \notin entries => takes = 0)
    BY <2>3 DEF Least, TypeOK
  <2>5. d \in entries
    BY <2>2, <2>4 DEF TypeOK
  <2> QED
    BY <2>1, <2>2, <2>4, <2>5
<1>4. ASSUME NEW s \in Servers, NEW quietRow \in BOOLEAN, NEW books \in BOOLEAN,
             SweepRow(s, quietRow, books)
      PROVE  c \in entries /\ c \notin entries' /\ taken[c] = 0 /\ taken'[c] <= Price[c]
  <2>1. /\ entries' = entries \ Swept(s)
        /\ taken'[c] = taken[c] + SweptTakes(s)[c]
    BY <1>4 DEF SweepRow, Swept, SweptMarked, SweptTakes
  <2>2. SweptTakes(s)[c] # 0
    BY <2>1 DEF TypeOK
  <2>3. c \in SweptMarked(s) /\ SweptTakes(s)[c] = Least(Price[c], mark[c])
    BY <2>2 DEF SweptTakes
  <2>4. c \in Swept(s) /\ c \in entries
    BY <2>3 DEF SweptMarked, Swept, Abandoned
  <2>5. SweptTakes(s)[c] \in Nat /\ SweptTakes(s)[c] <= Price[c]
    BY <2>3 DEF Least, TypeOK
  <2> QED
    BY <2>1, <2>4, <2>5
<1> QED
  BY <1>1, <1>2, <1>3, <1>4, StepCases

\* A hold ends once: a call is charged only by the step that ends its entry,
\* whether that is its settle, a retry, or the sweep of any process.
THEOREM ChargedOnce == Spec => HoldEndsOnce
<1>1. IInv /\ [Next]_vars =>
        [\A c \in Calls : taken'[c] # taken[c] =>
           /\ c \in entries /\ c \notin entries'
           /\ taken[c] = 0 /\ taken'[c] <= Price[c]]_vars
  BY TakenStep
<1> QED
  BY <1>1, Inductive, PTL DEF Spec, HoldEndsOnce

------------------------------------------------------------------------------
(* The marks *)

\* A step of one call keeps its mark.
LEMMA MarkCallStep ==
  ASSUME TypeOK, NEW c \in Calls, MarkOf(c), CallStep(c)
  PROVE  MarkOf(c)'
<1> USE DEF MarkOf
<1>1. CASE Authorize(c) \/ AuthorizeLost(c) \/ AuthorizeUnheard(c) \/ AuthorizeRefused(c)
  BY <1>1 DEF Authorize, AuthorizeLost, AuthorizeUnheard, AuthorizeRefused, PlaceHold, TypeOK, row
<1>2. CASE StartStream(c) \/ EndUnserved(c) \/ CloseEarly(c)
  <2>1. /\ pc[c] = "running" /\ mark'[c] = mark[c] /\ marking'[c] = marking[c]
        /\ pc'[c] \in {"streaming", "ended", "gone"} /\ ask' = ask
    BY <1>2 DEF StartStream, EndUnserved, CloseEarly, TypeOK, row
  <2>2. mark[c] = 0 /\ marking[c] = 0
    BY <2>1 DEF TypeOK
  <2> QED
    BY <2>1, <2>2 DEF Least, TypeOK
<1>3. CASE EndServed(c)
  <2>1. mark[c] = 0 /\ marking[c] = 0
    BY <1>3 DEF EndServed, TypeOK
  <2>2. PICK amount \in Nat : ask'[c] = amount /\ marking'[c] = amount
    BY <1>3 DEF EndServed, TypeOK
  <2>3. mark'[c] = 0 /\ pc'[c] = "ended" /\ answer'[c] = "ok"
    BY <1>3, <2>1 DEF EndServed, TypeOK, row
  <2> QED
    BY <2>2, <2>3 DEF Least
<1>4. CASE Finish(c)
  BY <1>4 DEF Finish, TypeOK, row
<1>5. CASE CloseLate(c)
  <2>1. /\ mark'[c] = mark[c] /\ marking'[c] = marking[c]
        /\ pc'[c] = "settling" /\ ask'[c] = Price[c]
    BY <1>5 DEF CloseLate, TypeOK, row
  <2>2. mark[c] > 0 \/ marking[c] > 0 => pc[c] = "ended"
    BY <1>5 DEF CloseLate
  <2> QED
    BY <2>1, <2>2 DEF Least, TypeOK
<1>6. CASE GoneForgiven(c) \/ GoneCharged(c) \/ GoneTimeout(c)
  <2>1. pc[c] = "gone" /\ mark'[c] = mark[c] /\ marking'[c] = marking[c]
    BY <1>6 DEF GoneForgiven, GoneCharged, GoneTimeout, TypeOK, row
  <2>2. mark[c] = 0 /\ marking[c] = 0
    BY <2>1 DEF TypeOK
  <2>3. pc'[c] \in {"releasing", "settling"} /\ (pc'[c] = "settling" => ask'[c] = Price[c])
    BY <1>6 DEF GoneForgiven, GoneCharged, GoneTimeout, TypeOK
  <2> QED
    BY <2>1, <2>2, <2>3 DEF Least, TypeOK
<1>7. CASE MarkLands(c)
  <2>1. /\ marking'[c] = 0
        /\ mark'[c] = mark[c] \/ mark'[c] = Least(Price[c], marking[c])
        /\ marking[c] > 0 /\ pc' = pc /\ answer' = answer /\ ask' = ask
    BY <1>7 DEF MarkLands, TypeOK
  <2> QED
    BY <2>1 DEF Least, TypeOK
<1>8. CASE MarkFails(c)
  BY <1>8 DEF MarkFails, TypeOK, row, Least
<1>9. CASE Settle(c) \/ SettleLost(c)
  <2>1. mark'[c] = 0 /\ marking' = marking /\ ask' = ask /\ pc[c] = "settling"
    BY <1>9 DEF Settle, SettleLost, SettleHold, TypeOK, requests
  <2>2. pc'[c] \in {"settling", "done"}
    BY <1>9 DEF Settle, SettleLost, TypeOK, requests
  <2> QED
    BY <2>1, <2>2 DEF TypeOK
<1>10. CASE SettleAgain(c) \/ SettleGivesUp(c) \/ ReleaseGivesUp(c)
  BY <1>10 DEF SettleAgain, SettleGivesUp, ReleaseGivesUp, TypeOK, row
<1>11. CASE Release(c) \/ ReleaseLost(c)
  <2>1. /\ mark'[c] = 0 /\ marking' = marking /\ pc[c] = "releasing"
        /\ pc'[c] \in {"releasing", "done"}
    BY <1>11 DEF Release, ReleaseLost, ReleaseHold, TypeOK, requests
  <2> QED
    BY <2>1 DEF TypeOK
<1> QED
  BY <1>1, <1>2, <1>3, <1>4, <1>5, <1>6, <1>7, <1>8, <1>9, <1>10, <1>11 DEF CallStep

\* A step of another call leaves this one's alone.
LEMMA MarkOtherCall ==
  ASSUME TypeOK, NEW c \in Calls, NEW d \in Calls \ {c}, CallStep(d)
  PROVE  /\ mark'[c] = mark[c] /\ marking'[c] = marking[c] /\ pc'[c] = pc[c]
         /\ answer'[c] = answer[c] /\ ask'[c] = ask[c]
<1>1. CASE \/ Authorize(d) \/ AuthorizeLost(d) \/ AuthorizeUnheard(d) \/ AuthorizeRefused(d)
           \/ StartStream(d) \/ EndUnserved(d) \/ Finish(d) \/ CloseLate(d) \/ CloseEarly(d)
  BY <1>1 DEF Authorize, AuthorizeLost, AuthorizeUnheard, AuthorizeRefused, PlaceHold, StartStream,
              EndUnserved, Finish, CloseLate, CloseEarly, TypeOK, row
<1>2. CASE EndServed(d)
  BY <1>2 DEF EndServed, TypeOK, row
<1>3. CASE \/ GoneForgiven(d) \/ GoneCharged(d) \/ GoneTimeout(d)
           \/ MarkLands(d) \/ MarkFails(d)
  BY <1>3 DEF GoneForgiven, GoneCharged, GoneTimeout, MarkLands, MarkFails, TypeOK, row
<1>4. CASE Settle(d) \/ SettleLost(d)
  BY <1>4 DEF Settle, SettleLost, SettleHold, TypeOK, requests
<1>5. CASE \/ SettleAgain(d) \/ SettleGivesUp(d) \/ ReleaseGivesUp(d)
           \/ Release(d) \/ ReleaseLost(d)
  BY <1>5 DEF SettleAgain, SettleGivesUp, ReleaseGivesUp, Release, ReleaseLost, ReleaseHold,
              TypeOK, row, requests
<1> QED
  BY <1>1, <1>2, <1>3, <1>4, <1>5 DEF CallStep

\* Every step keeps the marks.
LEMMA MarksStep ==
  ASSUME TypeOK, Marks, [Next]_vars
  PROVE  Marks'
<1> SUFFICES ASSUME NEW c \in Calls PROVE MarkOf(c)'
  BY DEF Marks
<1>1. MarkOf(c)
  BY DEF Marks
<1>2. ASSUME NEW d \in Calls, CallStep(d) PROVE MarkOf(c)'
  <2>1. CASE d = c
    BY <1>1, <1>2, <2>1, MarkCallStep
  <2>2. CASE d # c
    <3>1. /\ mark'[c] = mark[c] /\ marking'[c] = marking[c] /\ pc'[c] = pc[c]
          /\ answer'[c] = answer[c] /\ ask'[c] = ask[c]
      BY <1>2, <2>2, MarkOtherCall
    <3> QED
      BY <1>1, <3>1 DEF MarkOf
  <2> QED
    BY <2>1, <2>2
<1>3. ASSUME NEW s \in Servers, Sweep(s) \/ SweepLost(s) PROVE MarkOf(c)'
  <2>1. /\ mark'[c] \in {0, mark[c]}
        /\ UNCHANGED <<marking, pc, answer, ask>>
    BY <1>3 DEF Sweep, SweepLost, SweepRow, requests
  <2> QED
    BY <1>1, <2>1 DEF MarkOf, TypeOK
<1>4. ASSUME NEW s \in Servers, Crash(s) PROVE MarkOf(c)'
  <2>1. /\ UNCHANGED <<mark, answer, ask>>
        /\ pc'[c] \in {pc[c], "dead"} /\ marking'[c] \in {marking[c], 0}
    BY <1>4 DEF Crash, row
  <2> QED
    BY <1>1, <2>1 DEF MarkOf, Least, TypeOK
<1>5. CASE \/ Tick \/ UNCHANGED vars
           \/ \E total \in RefundTotals : Clawback(total)
           \/ Dispute \/ DisputeWon \/ OperatorDisable \/ OperatorEnable
  <2>1. UNCHANGED <<mark, marking, pc, answer, ask>>
    BY <1>5 DEF Tick, Refreshed, Clawback, Dispute, DisputeWon, OperatorDisable, OperatorEnable,
                SetCause, vars, row, requests
  <2> QED
    BY <1>1, <2>1 DEF MarkOf
<1> QED
  BY <1>2, <1>3, <1>4, <1>5 DEF Next

\* The marks are right in every state.
LEMMA MarksAlways == Spec => []Marks
<1>1. Init => Marks
  BY DEF Init, Marks, MarkOf, Least
<1>2. TypeOK /\ Marks /\ [Next]_vars => Marks'
  BY MarksStep
<1> QED
  BY <1>1, <1>2, TypeCorrect, PTL DEF Spec

\* A hold marked settling is charged, never returned, by whoever ends it.
THEOREM MarkedHoldCharged == Spec => MarkedIsCharged
<1>1. ASSUME IInv, Marks, [Next]_vars, NEW c \in Calls,
             c \in entries, mark[c] > 0, c \notin entries'
      PROVE  taken'[c] >= mark[c]
  <2>1. /\ mark[c] \in Nat /\ mark[c] <= Price[c] /\ taken[c] = 0
        /\ pc[c] \in {"ended", "settling", "done", "dead"}
        /\ pc[c] = "settling" => mark[c] <= ask[c]
    BY <1>1 DEF Marks, MarkOf, IInv, Books, EntriesOpen, TypeOK
  <2>2. CASE Bystander
    BY <1>1, <2>2, BystanderKeeps DEF IInv
  <2>3. CASE \E d \in Calls : Authorize(d) \/ AuthorizeLost(d) \/ AuthorizeUnheard(d) \/ SettleAgain(d)
    BY <1>1, <2>3 DEF Authorize, AuthorizeLost, AuthorizeUnheard, PlaceHold, SettleAgain, row
  <2>4. CASE \E d \in Calls : Release(d) \/ ReleaseLost(d)
    BY <1>1, <2>1, <2>4 DEF Release, ReleaseLost, ReleaseHold
  <2>5. CASE \E d \in Calls : Settle(d) \/ SettleLost(d)
    <3>1. PICK d \in Calls : Settle(d) \/ SettleLost(d)
      BY <2>5
    <3>2. SettleHold(d) /\ pc[d] = "settling"
      BY <3>1 DEF Settle, SettleLost
    <3>3. d = c
      BY <1>1, <3>2 DEF SettleHold
    <3>4. TakeHold(c) = Price[c]
      BY <1>1, TakeHoldValue DEF IInv, Money
    <3>5. taken'[c] = taken[c] + Least(Price[c], ask[c])
      <4>1. taken' = [taken EXCEPT ![c] = @ + Least(Price[c], ask[c])]
        BY <3>2, <3>3, <3>4 DEF SettleHold
      <4> QED
        BY <1>1, <4>1 DEF IInv, TypeOK
    <3>6. ask[c] \in Nat
      BY <1>1 DEF IInv, TypeOK
    <3> QED
      BY <2>1, <3>2, <3>3, <3>5, <3>6 DEF Least
  <2>6. CASE \E s \in Servers, quietRow \in BOOLEAN, books \in BOOLEAN :
               SweepRow(s, quietRow, books)
    <3>1. PICK s \in Servers, quietRow \in BOOLEAN, books \in BOOLEAN :
            SweepRow(s, quietRow, books)
      BY <2>6
    <3>2. /\ entries' = entries \ Swept(s)
          /\ taken'[c] = taken[c] + SweptTakes(s)[c]
      BY <3>1 DEF SweepRow, Swept, SweptMarked, SweptTakes
    <3>3. c \in SweptMarked(s)
      BY <1>1, <3>2 DEF Swept, SweptMarked
    <3>4. SweptTakes(s)[c] = mark[c]
      BY <2>1, <3>3 DEF SweptTakes, Least
    <3> QED
      BY <2>1, <3>2, <3>4
  <2> QED
    BY <1>1, <2>2, <2>3, <2>4, <2>5, <2>6, StepCases
<1>2. IInv /\ Marks /\ [Next]_vars =>
        [\A c \in Calls : c \in entries /\ mark[c] > 0 /\ c \notin entries'
                            => taken'[c] >= mark[c]]_vars
  BY <1>1
<1> QED
  BY <1>2, Inductive, MarksAlways, PTL DEF Spec, MarkedIsCharged

------------------------------------------------------------------------------
(* Only what was answered is charged *)

\* What a settle that will charge, a mark and a charge each say of the answer.
\* The marks are in it because the sweep charges by them.
AnsweredFor(c) ==
  /\ pc[c] = "settling" /\ c \notin closed => answer[c] = "ok"
  /\ mark[c] > 0 \/ marking[c] > 0 => answer[c] = "ok"
  /\ taken[c] > 0 => pc[c] \in {"ended", "settling", "releasing", "done", "dead"}
  /\ taken[c] > 0 /\ c \notin closed => answer[c] = "ok"

Answered == \A c \in Calls : AnsweredFor(c)

\* A step of one call keeps what is said of it.
LEMMA AnsweredCallStep ==
  ASSUME TypeOK, NEW c \in Calls, MarkOf(c), AnsweredFor(c), CallStep(c)
  PROVE  AnsweredFor(c)'
<1> USE DEF AnsweredFor
<1>1. CASE Authorize(c) \/ AuthorizeLost(c) \/ AuthorizeUnheard(c) \/ AuthorizeRefused(c)
  <2>1. /\ pc[c] = "idle" /\ pc'[c] # "settling"
        /\ mark' = mark /\ marking' = marking /\ taken' = taken
    BY <1>1 DEF Authorize, AuthorizeLost, AuthorizeUnheard, AuthorizeRefused, PlaceHold, TypeOK,
                row, ghosts
  <2> QED
    BY <2>1 DEF MarkOf
<1>2. CASE StartStream(c) \/ EndUnserved(c) \/ CloseEarly(c)
  <2>1. /\ pc[c] = "running" /\ pc'[c] # "settling"
        /\ mark' = mark /\ marking' = marking /\ taken' = taken
    BY <1>2 DEF StartStream, EndUnserved, CloseEarly, TypeOK, row, ghosts
  <2> QED
    BY <2>1 DEF MarkOf
<1>3. CASE EndServed(c)
  <2>1. pc[c] \in {"running", "streaming"} /\ pc'[c] = "ended" /\ answer'[c] = "ok" /\ taken' = taken
    BY <1>3 DEF EndServed, TypeOK, ghosts
  <2> QED
    BY <2>1
<1>4. CASE Finish(c)
  <2>1. /\ pc'[c] = IF answer[c] = "ok" THEN "settling" ELSE "releasing"
        /\ UNCHANGED <<answer, closed, mark, marking, taken>>
    BY <1>4 DEF Finish, TypeOK, row, ghosts
  <2> QED
    BY <2>1
<1>5. CASE CloseLate(c)
  <2>1. /\ pc'[c] = "settling" /\ c \in closed'
        /\ UNCHANGED <<answer, mark, marking, taken>>
    BY <1>5 DEF CloseLate, TypeOK, row, ghosts
  <2> QED
    BY <2>1
<1>6. CASE GoneForgiven(c) \/ GoneCharged(c) \/ GoneTimeout(c)
  <2>1. /\ pc[c] = "gone" /\ UNCHANGED <<mark, marking, taken>>
        /\ pc'[c] = "settling" => answer'[c] = "ok"
    BY <1>6 DEF GoneForgiven, GoneCharged, GoneTimeout, TypeOK, row, ghosts
  <2> QED
    BY <2>1 DEF MarkOf
<1>7. CASE MarkLands(c) \/ MarkFails(c)
  <2>1. /\ marking[c] > 0 /\ UNCHANGED <<pc, answer, closed, taken>>
    BY <1>7 DEF MarkLands, MarkFails, ghosts
  <2> QED
    BY <2>1
<1>8. CASE Settle(c) \/ SettleLost(c)
  <2>1. /\ pc[c] = "settling" /\ mark'[c] = 0
        /\ UNCHANGED <<answer, closed, marking>>
    BY <1>8 DEF Settle, SettleLost, SettleHold, TypeOK, requests
  <2>2. pc'[c] \in {"settling", "done"}
    BY <1>8 DEF Settle, SettleLost, TypeOK, requests
  <2> QED
    BY <2>1, <2>2
<1>9. CASE SettleAgain(c) \/ SettleGivesUp(c) \/ ReleaseGivesUp(c)
  <2>1. pc'[c] = "done" /\ UNCHANGED <<answer, closed, mark, marking, taken>>
    BY <1>9 DEF SettleAgain, SettleGivesUp, ReleaseGivesUp, TypeOK, row, ghosts
  <2> QED
    BY <2>1
<1>10. CASE Release(c) \/ ReleaseLost(c)
  <2>1. /\ pc[c] = "releasing" /\ mark'[c] = 0 /\ pc'[c] \in {"releasing", "done"}
        /\ UNCHANGED <<answer, closed, marking, taken>>
    BY <1>10 DEF Release, ReleaseLost, ReleaseHold, TypeOK, requests, ghosts
  <2> QED
    BY <2>1
<1> QED
  BY <1>1, <1>2, <1>3, <1>4, <1>5, <1>6, <1>7, <1>8, <1>9, <1>10 DEF CallStep

\* A step of another call leaves this one's charge and connection alone too.
LEMMA TakenOtherCall ==
  ASSUME TypeOK, NEW c \in Calls, NEW d \in Calls \ {c}, CallStep(d)
  PROVE  /\ taken'[c] = taken[c] /\ sold'[c] = sold[c] /\ waited'[c] = waited[c]
         /\ server'[c] = server[c]
         /\ c \in closed' <=> c \in closed
         /\ c \in entries' <=> c \in entries
         /\ age'[c] = age[c]
<1>1. CASE \/ Authorize(d) \/ AuthorizeLost(d) \/ AuthorizeUnheard(d) \/ AuthorizeRefused(d)
           \/ StartStream(d) \/ EndUnserved(d) \/ Finish(d) \/ CloseLate(d) \/ CloseEarly(d)
  BY <1>1 DEF Authorize, AuthorizeLost, AuthorizeUnheard, AuthorizeRefused, PlaceHold, StartStream,
              EndUnserved, Finish, CloseLate, CloseEarly, TypeOK, row, ghosts
<1>2. CASE EndServed(d)
  BY <1>2 DEF EndServed, TypeOK, row, ghosts
<1>3. CASE \/ GoneForgiven(d) \/ GoneCharged(d) \/ GoneTimeout(d)
           \/ MarkLands(d) \/ MarkFails(d)
  BY <1>3 DEF GoneForgiven, GoneCharged, GoneTimeout, MarkLands, MarkFails, TypeOK, row, ghosts
<1>4. CASE Settle(d) \/ SettleLost(d)
  BY <1>4 DEF Settle, SettleLost, SettleHold, TypeOK, requests
<1>5. CASE \/ SettleAgain(d) \/ SettleGivesUp(d) \/ ReleaseGivesUp(d)
           \/ Release(d) \/ ReleaseLost(d)
  BY <1>5 DEF SettleAgain, SettleGivesUp, ReleaseGivesUp, Release, ReleaseLost, ReleaseHold,
              TypeOK, row, requests, ghosts
<1> QED
  BY <1>1, <1>2, <1>3, <1>4, <1>5 DEF CallStep

\* What a sweep does to one call: it charges only a marked entry, and it leaves
\* the requests alone.
LEMMA SweepOfCall ==
  ASSUME TypeOK, NEW c \in Calls,
         NEW s \in Servers, NEW quietRow \in BOOLEAN, NEW books \in BOOLEAN,
         SweepRow(s, quietRow, books)
  PROVE  /\ requests' = requests /\ mark'[c] \in {0, mark[c]}
         /\ c \in entries /\ c \notin entries' => c \in Swept(s)
         /\ c \in entries' => c \in entries
         /\ c \notin SweptMarked(s) =>
              taken'[c] = taken[c] /\ sold'[c] = sold[c] /\ age'[c] = age[c]
<1>1. /\ requests' = requests /\ entries' = entries \ Swept(s)
      /\ mark' = [d \in Calls |-> IF d \in Swept(s) THEN 0 ELSE mark[d]]
      /\ taken' = [d \in Calls |-> taken[d] + SweptTakes(s)[d]]
      /\ age' = [d \in Calls |-> IF d \in SweptMarked(s) THEN 0 ELSE age[d]]
      /\ sold' = IF books THEN [d \in Calls |-> sold[d] + SweptTakes(s)[d]] ELSE sold
  BY DEF SweepRow, Swept, SweptMarked, SweptTakes
<1>2. c \notin SweptMarked(s) => SweptTakes(s)[c] = 0
  BY DEF SweptTakes
<1>3. taken[c] \in Nat /\ sold[c] \in Nat
  BY DEF TypeOK
<1> QED
  BY <1>1, <1>2, <1>3

\* Every step keeps what is said of the answers.
LEMMA AnsweredStep ==
  ASSUME TypeOK, Marks, Answered, [Next]_vars
  PROVE  Answered'
<1> SUFFICES ASSUME NEW c \in Calls PROVE AnsweredFor(c)'
  BY DEF Answered
<1>1. AnsweredFor(c) /\ MarkOf(c)
  BY DEF Answered, Marks
<1>2. ASSUME NEW d \in Calls, CallStep(d) PROVE AnsweredFor(c)'
  <2>1. CASE d = c
    BY <1>1, <1>2, <2>1, AnsweredCallStep
  <2>2. CASE d # c
    BY <1>1, <1>2, <2>2, MarkOtherCall, TakenOtherCall DEF AnsweredFor
  <2> QED
    BY <2>1, <2>2
<1>3. ASSUME NEW s \in Servers, Sweep(s) \/ SweepLost(s) PROVE AnsweredFor(c)'
  <2>1. PICK quietRow \in BOOLEAN, books \in BOOLEAN : SweepRow(s, quietRow, books)
    BY <1>3 DEF Sweep, SweepLost
  <2>2. /\ UNCHANGED <<pc, closed, answer, marking>> /\ mark'[c] \in {0, mark[c]}
        /\ c \notin SweptMarked(s) => taken'[c] = taken[c]
    BY <2>1, SweepOfCall DEF requests
  <2>3. c \in SweptMarked(s) => mark[c] > 0
    BY DEF SweptMarked
  <2> QED
    BY <1>1, <2>2, <2>3 DEF AnsweredFor, MarkOf
<1>4. ASSUME NEW s \in Servers, Crash(s) PROVE AnsweredFor(c)'
  <2>1. /\ UNCHANGED <<mark, answer, closed, taken>>
        /\ pc'[c] \in {pc[c], "dead"} /\ marking'[c] \in {marking[c], 0}
    BY <1>4 DEF Crash, row, ghosts
  <2> QED
    BY <1>1, <2>1 DEF AnsweredFor
<1>5. CASE \/ Tick \/ UNCHANGED vars
           \/ \E total \in RefundTotals : Clawback(total)
           \/ Dispute \/ DisputeWon \/ OperatorDisable \/ OperatorEnable
  <2>1. UNCHANGED <<mark, marking, pc, answer, closed, taken>>
    BY <1>5 DEF Tick, Refreshed, Clawback, Dispute, DisputeWon, OperatorDisable, OperatorEnable,
                SetCause, vars, row, requests, ghosts
  <2> QED
    BY <1>1, <2>1 DEF AnsweredFor
<1> QED
  BY <1>2, <1>3, <1>4, <1>5 DEF Next

\* A call whose buyer stayed to the end is charged only for a final 200, by its
\* own settle or by the sweep that finds its mark, whatever crashed in between.
THEOREM ChargedWasServed == Spec => []ChargedIsServed
<1>1. Init => Answered
  BY DEF Init, Answered, AnsweredFor
<1>2. TypeOK /\ Marks /\ Answered /\ [Next]_vars => Answered'
  BY AnsweredStep
<1>3. Answered => ChargedIsServed
  BY DEF Answered, AnsweredFor, ChargedIsServed
<1> QED
  BY <1>1, <1>2, <1>3, TypeCorrect, MarksAlways, PTL DEF Spec

------------------------------------------------------------------------------
(* Running holds, and the records their retries find *)

\* While refreshes land, the entry of a request that will be heard is fresh, and
\* such a request is charged only by its own settle.
FreshOf(c) ==
  Live(c) => /\ pc[c] # "unheard" /\ c \in entries => age[c] = 0
             /\ taken[c] > 0 => pc[c] = "settling"

Fresh == \A c \in Calls : FreshOf(c)

\* No sweep of any process charges a request, or ends its hold, but one whose
\* end is not heard.
LEMMA SweepSparesLive ==
  ASSUME TypeOK, Marks, Fresh, NEW c \in Calls, Live(c), NEW s \in Servers
  PROVE  /\ c \notin SweptMarked(s)
         /\ pc[c] # "unheard" => c \notin Swept(s)
<1>1. pc[c] # "unheard" => c \notin Swept(s)
  BY DEF Fresh, FreshOf, Swept, Abandoned
<1>2. c \in SweptMarked(s) => mark[c] > 0 /\ c \in Swept(s)
  BY DEF SweptMarked, Swept
<1>3. mark[c] > 0 => pc[c] # "unheard"
  BY DEF Marks, MarkOf
<1> QED
  BY <1>1, <1>2, <1>3

\* A step of one call keeps its entry fresh.
LEMMA FreshCallStep ==
  ASSUME TypeOK, Books, NEW c \in Calls, FreshOf(c), CallStep(c)
  PROVE  FreshOf(c)'
<1> USE DEF FreshOf, Live, LiveStates
<1>1. CASE Authorize(c) \/ AuthorizeLost(c) \/ AuthorizeUnheard(c)
  <2>1. age'[c] = 0 /\ taken'[c] = taken[c] /\ pc[c] = "idle"
    BY <1>1 DEF Authorize, AuthorizeLost, AuthorizeUnheard, PlaceHold, TypeOK, ghosts
  <2>2. taken[c] = 0
    BY <2>1 DEF Books, IdleUntouched
  <2> QED
    BY <2>1, <2>2
<1>2. CASE AuthorizeRefused(c)
  BY <1>2 DEF AuthorizeRefused, TypeOK
<1>3. CASE \/ StartStream(c) \/ EndServed(c) \/ EndUnserved(c) \/ Finish(c)
           \/ CloseLate(c) \/ CloseEarly(c)
  <2>1. /\ pc[c] \in {"running", "streaming", "ended"}
        /\ UNCHANGED <<age, entries, taken>>
    BY <1>3 DEF StartStream, EndServed, EndUnserved, Finish, CloseLate, CloseEarly, row, ghosts
  <2> QED
    BY <2>1
<1>4. CASE GoneForgiven(c) \/ GoneCharged(c) \/ GoneTimeout(c)
  <2>1. pc[c] = "gone" /\ UNCHANGED <<age, entries, taken>>
    BY <1>4 DEF GoneForgiven, GoneCharged, GoneTimeout, row, ghosts
  <2> QED
    BY <2>1
<1>5. CASE MarkLands(c) \/ MarkFails(c)
  BY <1>5 DEF MarkLands, MarkFails, row, ghosts
<1>6. CASE Settle(c) \/ SettleLost(c)
  <2>1. c \notin entries' /\ pc[c] = "settling"
    BY <1>6 DEF Settle, SettleLost, SettleHold
  <2>2. pc'[c] \in {"settling", "done"}
    BY <1>6 DEF Settle, SettleLost, TypeOK, requests
  <2> QED
    BY <2>1, <2>2
<1>7. CASE SettleAgain(c) \/ SettleGivesUp(c) \/ ReleaseGivesUp(c)
  BY <1>7 DEF SettleAgain, SettleGivesUp, ReleaseGivesUp, TypeOK
<1>8. CASE Release(c) \/ ReleaseLost(c)
  <2>1. /\ c \notin entries' /\ pc[c] = "releasing" /\ taken' = taken
        /\ pc'[c] \in {"releasing", "done"}
    BY <1>8 DEF Release, ReleaseLost, ReleaseHold, TypeOK, requests, ghosts
  <2> QED
    BY <2>1
<1> QED
  BY <1>1, <1>2, <1>3, <1>4, <1>5, <1>6, <1>7, <1>8 DEF CallStep

\* The clock ages only what is not refreshed.
LEMMA TickAges ==
  ASSUME TypeOK, Books, Tick, NEW c \in Calls
  PROVE  /\ UNCHANGED <<pc, entries, settled, taken, sold>>
         /\ ~RefreshFails /\ Live(c) /\ pc[c] # "unheard" /\ c \in entries => age'[c] = 0
         /\ c \in settled => age'[c] <= age[c] + 1
         /\ pc[c] = "settling" => waited[c] < SettleFor /\ waited'[c] = waited[c] + 1
<1>1. PICK failing \in SUBSET Refreshed :
        /\ failing = {} \/ RefreshFails
        /\ age' = [d \in Calls |->
                     IF d \in Refreshed \ failing THEN 0
                     ELSE IF d \in entries THEN Least(age[d] + 1, Window + 1)
                     ELSE IF d \in settled THEN Least(age[d] + 1, Keep + 1)
                     ELSE age[d]]
  BY DEF Tick
<1>2. ~RefreshFails /\ Live(c) /\ pc[c] # "unheard" /\ c \in entries => age'[c] = 0
  BY <1>1 DEF Refreshed
<1>3. c \in settled => age'[c] <= age[c] + 1
  BY <1>1 DEF Books, EntriesOpen, Refreshed, Least, TypeOK
<1>4. pc[c] = "settling" => waited[c] < SettleFor /\ waited'[c] = waited[c] + 1
  BY DEF Tick
<1> QED
  BY <1>2, <1>3, <1>4 DEF Tick, ghosts

\* Every step keeps the entries of running requests fresh.
LEMMA FreshStep ==
  ASSUME ~RefreshFails, IInv, Marks, Fresh, [Next]_vars
  PROVE  Fresh'
<1> USE DEF IInv
<1> SUFFICES ASSUME NEW c \in Calls PROVE FreshOf(c)'
  BY DEF Fresh
<1>1. FreshOf(c)
  BY DEF Fresh
<1>2. ASSUME NEW d \in Calls, CallStep(d) PROVE FreshOf(c)'
  <2>1. CASE d = c
    BY <1>1, <1>2, <2>1, FreshCallStep
  <2>2. CASE d # c
    BY <1>1, <1>2, <2>2, MarkOtherCall, TakenOtherCall DEF FreshOf, Live
  <2> QED
    BY <2>1, <2>2
<1>3. ASSUME NEW s \in Servers, Sweep(s) \/ SweepLost(s) PROVE FreshOf(c)'
  <2>1. PICK quietRow \in BOOLEAN, books \in BOOLEAN : SweepRow(s, quietRow, books)
    BY <1>3 DEF Sweep, SweepLost
  <2>2. /\ pc' = pc
        /\ c \in entries' => c \in entries
        /\ c \notin SweptMarked(s) => taken'[c] = taken[c] /\ age'[c] = age[c]
    BY <2>1, SweepOfCall DEF requests
  <2>3. Live(c) => c \notin SweptMarked(s)
    BY SweepSparesLive
  <2> QED
    BY <1>1, <2>2, <2>3 DEF FreshOf, Live
<1>4. ASSUME NEW s \in Servers, Crash(s) PROVE FreshOf(c)'
  <2>1. /\ UNCHANGED <<age, entries, taken>> /\ pc'[c] \in {pc[c], "dead"}
    BY <1>4 DEF Crash, row, ghosts
  <2> QED
    BY <1>1, <2>1 DEF FreshOf, Live, LiveStates
<1>5. CASE Tick
  BY <1>1, <1>5, TickAges DEF FreshOf, Live
<1>6. CASE \/ UNCHANGED vars
           \/ \E total \in RefundTotals : Clawback(total)
           \/ Dispute \/ DisputeWon \/ OperatorDisable \/ OperatorEnable
  <2>1. UNCHANGED <<age, entries, taken, pc>>
    BY <1>6 DEF Clawback, Dispute, DisputeWon, OperatorDisable, OperatorEnable,
                SetCause, vars, row, requests, ghosts
  <2> QED
    BY <1>1, <2>1 DEF FreshOf, Live
<1> QED
  BY <1>2, <1>3, <1>4, <1>5, <1>6 DEF Next

\* Entries of running requests are always fresh while refreshes land.
LEMMA FreshAlways ==
  ASSUME ~RefreshFails
  PROVE  Spec => []Fresh
<1>1. Init => Fresh
  BY DEF Init, Fresh, FreshOf, Live, LiveStates
<1>2. IInv /\ Marks /\ Fresh /\ [Next]_vars => Fresh'
  BY FreshStep
<1> QED
  BY <1>1, <1>2, Inductive, MarksAlways, PTL DEF Spec

\* While the refreshes land, the hold of a running request is ended only by its
\* own release or settle, and its settle takes the whole of what it asks for.
THEOREM RunningHoldKept == Spec => RunningHoldIsKept
<1>1. ASSUME IInv, Marks, ~RefreshFails => Fresh, [Next]_vars, NEW c \in Calls,
             ~RefreshFails, Live(c), c \in entries, c \notin entries',
             pc[c] \notin {"releasing", "unheard"}
      PROVE  pc[c] = "settling" /\ taken'[c] = Least(Price[c], ask[c])
  <2> USE <1>1 DEF IInv
  <2>1. taken[c] = 0
    BY DEF Books, EntriesOpen
  <2>2. ~Bystander
    BY BystanderKeeps
  <2>3. ~\E d \in Calls : Authorize(d) \/ AuthorizeLost(d) \/ AuthorizeUnheard(d) \/ SettleAgain(d)
    BY DEF Authorize, AuthorizeLost, AuthorizeUnheard, PlaceHold, SettleAgain, row
  <2>4. ~\E d \in Calls : Release(d) \/ ReleaseLost(d)
    BY DEF Release, ReleaseLost, ReleaseHold
  <2>5. ASSUME NEW s \in Servers, NEW quietRow \in BOOLEAN, NEW books \in BOOLEAN,
               SweepRow(s, quietRow, books)
        PROVE  FALSE
    BY <2>5, SweepOfCall, SweepSparesLive
  <2>6. PICK d \in Calls : Settle(d) \/ SettleLost(d)
    BY <2>2, <2>3, <2>4, <2>5, StepCases
  <2>7. SettleHold(d) /\ pc[d] = "settling"
    BY <2>6 DEF Settle, SettleLost
  <2>8. d = c
    BY <2>7 DEF SettleHold
  <2>9. TakeHold(c) = Price[c]
    BY TakeHoldValue DEF Money
  <2>10. taken' = [taken EXCEPT ![c] = @ + Least(Price[c], ask[c])]
    BY <2>7, <2>8, <2>9 DEF SettleHold
  <2>11. Least(Price[c], ask[c]) \in Nat
    BY DEF Least, TypeOK
  <2> QED
    BY <2>1, <2>7, <2>8, <2>10, <2>11 DEF TypeOK
<1>2. IInv /\ Marks /\ (~RefreshFails => Fresh) /\ [Next]_vars =>
        [\A c \in Calls : ~RefreshFails /\ Live(c) /\ c \in entries /\ c \notin entries' =>
           \/ pc[c] \in {"releasing", "unheard"}
           \/ pc[c] = "settling" /\ taken'[c] = Least(Price[c], ask[c])]_vars
  BY <1>1
<1>3. CASE RefreshFails
  <2>1. ~RefreshFails => Fresh
    BY <1>3
  <2> QED
    BY <1>2, <2>1, Inductive, MarksAlways, PTL DEF Spec, RunningHoldIsKept
<1>4. CASE ~RefreshFails
  <2>1. Spec => []Fresh
    BY <1>4, FreshAlways
  <2> QED
    BY <1>2, <2>1, Inductive, MarksAlways, PTL DEF Spec, RunningHoldIsKept
<1> QED
  BY <1>3, <1>4

\* The records no older than an age.
Younger(records, ages, limit) == { d \in records : ages[d] <= limit }

\* recentSettled drops a record that is young enough only for KeepMax others at
\* most as old as it.
LEMMA PruneKeeps ==
  ASSUME NEW records, IsFiniteSet(records), NEW ages, \A d \in records : ages[d] \in Nat,
         NEW limit \in 0 .. Keep, NEW kept \in RecentSettled(records, ages)
  PROVE  \/ Younger(records, ages, limit) \subseteq kept
         \/ Cardinality(Younger(kept, ages, limit)) >= KeepMax
<1> DEFINE recent == { d \in records : ages[d] <= Keep }
<1>1. /\ kept \subseteq recent
      /\ Cardinality(kept) = Least(KeepMax, Cardinality(recent))
      /\ \A c \in kept, d \in recent \ kept : ages[c] <= ages[d]
  BY DEF RecentSettled
<1> SUFFICES ASSUME NEW d \in Younger(records, ages, limit), d \notin kept
             PROVE  Cardinality(Younger(kept, ages, limit)) >= KeepMax
  OBVIOUS
<1>2. d \in recent \ kept /\ ages[d] <= limit
  BY DEF Younger
<1>3. \A c \in kept : ages[c] \in Nat /\ ages[c] <= ages[d]
  BY <1>1, <1>2
<1>4. Younger(kept, ages, limit) = kept
  BY <1>2, <1>3 DEF Younger
<1>5. IsFiniteSet(recent) /\ Cardinality(recent) \in Nat
  BY FS_Subset, FS_CardinalityType
<1>6. Cardinality(kept) # Cardinality(recent)
  BY <1>1, <1>2, <1>5, FS_Subset
<1> QED
  BY <1>1, <1>4, <1>5, <1>6 DEF Least

\* A settle that is going to be tried again finds its record, no older than its
\* retries, or at least KeepMax records of that age displaced it.
RecordOf(c) ==
  pc[c] = "settling" =>
    /\ waited[c] <= SettleFor
    /\ taken[c] > 0 /\ sold[c] = 0 =>
         \/ c \in settled /\ age[c] <= waited[c]
         \/ Cardinality(Younger(settled, age, waited[c])) >= KeepMax

RecordsKept == \A c \in Calls : RecordOf(c)

\* The same after other holds of the key are settled.
LEMMA RecordOthers ==
  ASSUME TypeOK, TypeOK', SettleFor <= Keep,
         NEW c \in Calls, RecordOf(c), NEW others \in SUBSET (Calls \ {c}),
         settled' \in RecentSettled(settled \cup others, age'),
         \A d \in Calls : age'[d] = IF d \in others THEN 0 ELSE age[d],
         pc'[c] = pc[c], waited'[c] = waited[c], taken'[c] = taken[c], sold'[c] = sold[c]
  PROVE  RecordOf(c)'
<1> SUFFICES ASSUME pc[c] = "settling", taken[c] > 0, sold[c] = 0
             PROVE  \/ c \in settled' /\ age'[c] <= waited[c]
                    \/ Cardinality(Younger(settled', age', waited[c])) >= KeepMax
  BY DEF RecordOf
<1> DEFINE records == settled \cup others
           limit == waited[c]
<1>1. records \subseteq Calls /\ IsFiniteSet(records) /\ \A d \in records : age'[d] \in Nat
  BY FS_Subset DEF TypeOK
<1>2. limit \in 0 .. Keep
  BY DEF RecordOf, TypeOK
<1>3. CASE Cardinality(Younger(settled', age', limit)) >= KeepMax
  BY <1>3
<1>4. CASE Younger(records, age', limit) \subseteq settled'
  <2>1. CASE c \in settled /\ age[c] <= waited[c]
    <3>1. c \in Younger(records, age', limit) /\ age'[c] <= limit
      BY <2>1 DEF Younger
    <3> QED
      BY <1>4, <3>1
  <2>2. CASE Cardinality(Younger(settled, age, limit)) >= KeepMax
    <3>1. ASSUME NEW d \in settled, age[d] <= limit
          PROVE  d \in settled' /\ age'[d] <= limit
      <4>1. d \in Calls
        BY <3>1 DEF TypeOK
      <4>2. age'[d] = 0 \/ age'[d] = age[d]
        BY <4>1
      <4>3. age'[d] <= limit
        BY <1>2, <3>1, <4>2
      <4> QED
        BY <1>4, <4>1, <4>3 DEF Younger
    <3>2. Younger(settled, age, limit) \subseteq Younger(settled', age', limit)
      BY <3>1 DEF Younger
    <3>3. IsFiniteSet(Younger(settled', age', limit))
      BY FS_Subset DEF Younger, TypeOK
    <3>4. /\ Cardinality(Younger(settled, age, limit)) \in Nat
          /\ Cardinality(Younger(settled', age', limit)) \in Nat
          /\ Cardinality(Younger(settled, age, limit)) <= Cardinality(Younger(settled', age', limit))
      BY <3>2, <3>3, FS_Subset, FS_CardinalityType
    <3> QED
      BY <2>2, <3>4
  <2> QED
    BY <2>1, <2>2 DEF RecordOf
<1> QED
  BY <1>1, <1>2, <1>3, <1>4, PruneKeeps

\* The same after its own settle, whose reply was lost.
LEMMA RecordOwn ==
  ASSUME TypeOK, TypeOK', NEW c \in Calls, RecordOf(c), SettleLost(c)
  PROVE  RecordOf(c)'
<1>1. /\ settled' \in RecentSettled(settled \cup {c}, age')
      /\ age'[c] = 0 /\ pc[c] = "settling" /\ waited' = waited
  BY DEF SettleLost, SettleHold, requests, TypeOK
<1>2. waited[c] \in Nat /\ waited[c] <= SettleFor
  BY <1>1 DEF RecordOf, TypeOK
<1>3. IsFiniteSet(settled \cup {c}) /\ \A d \in settled \cup {c} : age'[d] \in Nat
  BY FS_Subset DEF TypeOK
<1>4. \/ Younger(settled \cup {c}, age', 0) \subseteq settled'
      \/ Cardinality(Younger(settled', age', 0)) >= KeepMax
  BY <1>1, <1>3, PruneKeeps
<1>5. CASE Younger(settled \cup {c}, age', 0) \subseteq settled'
  <2>1. c \in settled'
    BY <1>1, <1>5 DEF Younger
  <2> QED
    BY <1>1, <1>2, <2>1 DEF RecordOf
<1>6. CASE Cardinality(Younger(settled', age', 0)) >= KeepMax
  <2>1. Younger(settled', age', 0) \subseteq Younger(settled', age', waited[c])
    BY <1>2 DEF Younger, TypeOK
  <2>2. IsFiniteSet(Younger(settled', age', waited[c]))
    BY FS_Subset DEF Younger, TypeOK
  <2>3. Cardinality(Younger(settled', age', waited[c])) >= KeepMax
    BY <1>6, <2>1, <2>2, FS_Subset, FS_CardinalityType
  <2> QED
    BY <1>1, <1>2, <2>3 DEF RecordOf
<1> QED
  BY <1>4, <1>5, <1>6

\* The same when time passes: the records grow no older than the retries.
LEMMA RecordTick ==
  ASSUME TypeOK, TypeOK', Books, NEW c \in Calls, RecordOf(c), Tick
  PROVE  RecordOf(c)'
<1>1. /\ UNCHANGED <<pc, settled, taken, sold>>
      /\ pc[c] = "settling" => waited[c] < SettleFor /\ waited'[c] = waited[c] + 1
      /\ \A d \in settled : age'[d] <= age[d] + 1
  <2>1. settled \subseteq Calls
    BY DEF TypeOK
  <2> QED
    BY <2>1, TickAges
<1> SUFFICES ASSUME pc[c] = "settling"
             PROVE  RecordOf(c)'
  BY <1>1 DEF RecordOf
<1>2. waited[c] \in Nat /\ waited'[c] = waited[c] + 1 /\ waited'[c] <= SettleFor
  BY <1>1 DEF TypeOK
<1>3. ASSUME c \in settled, age[c] <= waited[c]
      PROVE  age'[c] <= waited'[c]
  BY <1>1, <1>2, <1>3 DEF TypeOK
<1>4. ASSUME Cardinality(Younger(settled, age, waited[c])) >= KeepMax
      PROVE  Cardinality(Younger(settled', age', waited'[c])) >= KeepMax
  <2>1. Younger(settled, age, waited[c]) \subseteq Younger(settled', age', waited'[c])
    BY <1>1, <1>2 DEF Younger, TypeOK
  <2>2. IsFiniteSet(Younger(settled', age', waited'[c]))
    BY FS_Subset DEF Younger, TypeOK
  <2> QED
    BY <1>4, <2>1, <2>2, FS_Subset, FS_CardinalityType
<1> QED
  BY <1>1, <1>2, <1>3, <1>4 DEF RecordOf

\* A step of one call keeps its record.
LEMMA RecordCallStep ==
  ASSUME ~RefreshFails, IInv, TypeOK', Fresh, NEW c \in Calls, RecordOf(c), CallStep(c)
  PROVE  RecordOf(c)'
<1> USE DEF IInv
<1>1. CASE SettleLost(c)
  BY <1>1, RecordOwn
<1>2. CASE Finish(c) \/ CloseLate(c) \/ GoneCharged(c)
  <2>1. /\ pc[c] \in {"streaming", "ended", "gone"} /\ waited'[c] = 0 /\ taken' = taken
    BY <1>2 DEF Finish, CloseLate, GoneCharged, TypeOK, ghosts
  <2>2. ~(taken[c] > 0)
    BY <2>1 DEF Fresh, FreshOf, Live, LiveStates
  <2> QED
    BY <2>1, <2>2 DEF RecordOf
<1>3. CASE MarkLands(c) \/ MarkFails(c)
  <2>1. UNCHANGED <<pc, waited, settled, age, taken, sold>>
    BY <1>3 DEF MarkLands, MarkFails, row, ghosts
  <2> QED
    BY <2>1 DEF RecordOf
<1>4. CASE Authorize(c) \/ AuthorizeLost(c) \/ AuthorizeUnheard(c) \/ AuthorizeRefused(c)
  BY <1>4 DEF Authorize, AuthorizeLost, AuthorizeUnheard, AuthorizeRefused, TypeOK, RecordOf
<1>5. CASE \/ StartStream(c) \/ EndServed(c) \/ EndUnserved(c) \/ CloseEarly(c)
           \/ GoneForgiven(c) \/ GoneTimeout(c)
  BY <1>5 DEF StartStream, EndServed, EndUnserved, CloseEarly, GoneForgiven, GoneTimeout,
              TypeOK, RecordOf
<1>6. CASE \/ Settle(c) \/ SettleAgain(c) \/ SettleGivesUp(c) \/ Release(c) \/ ReleaseGivesUp(c)
  BY <1>6 DEF Settle, SettleAgain, SettleGivesUp, Release, ReleaseGivesUp, TypeOK, RecordOf
<1>7. CASE ReleaseLost(c)
  BY <1>7 DEF ReleaseLost, requests, RecordOf
<1> QED
  BY <1>1, <1>2, <1>3, <1>4, <1>5, <1>6, <1>7 DEF CallStep

\* Another call's step touches the records only by settling its own hold.
LEMMA OtherRecords ==
  ASSUME TypeOK, NEW d \in Calls, CallStep(d)
  PROVE  \/ /\ settled' \in RecentSettled(settled \cup {d}, age')
            /\ age' = [age EXCEPT ![d] = 0]
         \/ /\ settled' = settled /\ UNCHANGED age
         \/ /\ settled' = settled /\ age' = [age EXCEPT ![d] = 0] /\ pc[d] = "idle"
<1>1. CASE Authorize(d) \/ AuthorizeLost(d) \/ AuthorizeUnheard(d)
  BY <1>1 DEF Authorize, AuthorizeLost, AuthorizeUnheard, PlaceHold
<1>2. CASE Settle(d) \/ SettleLost(d)
  BY <1>2 DEF Settle, SettleLost, SettleHold
<1>3. CASE Release(d) \/ ReleaseLost(d)
  BY <1>3 DEF Release, ReleaseLost, ReleaseHold
<1>4. CASE \/ AuthorizeRefused(d) \/ StartStream(d) \/ EndServed(d) \/ EndUnserved(d)
           \/ Finish(d) \/ CloseLate(d) \/ CloseEarly(d)
  BY <1>4 DEF AuthorizeRefused, StartStream, EndServed, EndUnserved, Finish, CloseLate,
              CloseEarly, row
<1>5. CASE \/ GoneForgiven(d) \/ GoneCharged(d) \/ GoneTimeout(d) \/ MarkLands(d) \/ MarkFails(d)
           \/ SettleAgain(d) \/ SettleGivesUp(d) \/ ReleaseGivesUp(d)
  BY <1>5 DEF GoneForgiven, GoneCharged, GoneTimeout, MarkLands, MarkFails, SettleAgain,
              SettleGivesUp, ReleaseGivesUp, row
<1> QED
  BY <1>1, <1>2, <1>3, <1>4, <1>5 DEF CallStep

\* Every step keeps the records that retries will look for.
LEMMA RecordStep ==
  ASSUME ~RefreshFails, SettleFor <= Keep, IInv, Marks, Fresh, RecordsKept, [Next]_vars
  PROVE  RecordsKept'
<1> USE DEF IInv
<1> SUFFICES ASSUME NEW c \in Calls PROVE RecordOf(c)'
  BY DEF RecordsKept
<1>1. RecordOf(c) /\ TypeOK'
  BY TypeStep DEF RecordsKept
<1>2. ASSUME NEW d \in Calls, CallStep(d) PROVE RecordOf(c)'
  <2>1. CASE d = c
    BY <1>1, <1>2, <2>1, RecordCallStep
  <2>2. CASE d # c
    <3>1. /\ pc'[c] = pc[c] /\ waited'[c] = waited[c] /\ taken'[c] = taken[c]
          /\ sold'[c] = sold[c]
      BY <1>2, <2>2, MarkOtherCall, TakenOtherCall
    <3>2. CASE settled' \in RecentSettled(settled \cup {d}, age') /\ age' = [age EXCEPT ![d] = 0]
      <4>1. \A x \in Calls : age'[x] = IF x \in {d} THEN 0 ELSE age[x]
        BY <3>2 DEF TypeOK
      <4> QED
        BY <1>1, <2>2, <3>1, <3>2, <4>1, RecordOthers
    <3>3. CASE settled' = settled /\ age' = age
      BY <1>1, <3>1, <3>3 DEF RecordOf
    <3>4. CASE settled' = settled /\ age' = [age EXCEPT ![d] = 0] /\ pc[d] = "idle"
      <4>1. d \notin settled
        BY <3>4 DEF Books, IdleUntouched
      <4>2. Younger(settled', age', waited'[c]) = Younger(settled, age, waited[c])
        BY <3>1, <3>4, <4>1 DEF Younger, TypeOK
      <4>3. age'[c] = age[c]
        BY <2>2, <3>4 DEF TypeOK
      <4> QED
        BY <1>1, <3>1, <3>4, <4>2, <4>3 DEF RecordOf
    <3> QED
      BY <1>2, <3>2, <3>3, <3>4, OtherRecords
  <2> QED
    BY <2>1, <2>2
<1>3. ASSUME NEW s \in Servers, Sweep(s) \/ SweepLost(s) PROVE RecordOf(c)'
  <2>1. PICK quietRow \in BOOLEAN, books \in BOOLEAN : SweepRow(s, quietRow, books)
    BY <1>3 DEF Sweep, SweepLost
  <2>2. /\ age' = [d \in Calls |-> IF d \in SweptMarked(s) THEN 0 ELSE age[d]]
        /\ IF SweptMarked(s) = {} THEN settled' = settled
           ELSE settled' \in RecentSettled(settled \cup SweptMarked(s), age')
    BY <2>1 DEF SweepRow, SweptMarked
  <2>3. /\ pc' = pc /\ waited' = waited
        /\ c \notin SweptMarked(s) => taken'[c] = taken[c] /\ sold'[c] = sold[c]
    BY <2>1, SweepOfCall DEF requests
  <2>4. CASE pc[c] # "settling"
    BY <2>3, <2>4 DEF RecordOf
  <2>5. CASE pc[c] = "settling"
    <3>1. c \notin SweptMarked(s)
      BY <2>5, SweepSparesLive DEF Live, LiveStates
    <3>2. CASE SweptMarked(s) = {}
      <4>1. settled' = settled /\ age' = age
        BY <2>2, <3>2 DEF TypeOK
      <4> QED
        BY <1>1, <2>3, <3>1, <4>1 DEF RecordOf
    <3>3. CASE SweptMarked(s) # {}
      <4>1. SweptMarked(s) \in SUBSET (Calls \ {c})
        BY <3>1 DEF SweptMarked, Abandoned, TypeOK
      <4> QED
        BY <1>1, <2>2, <2>3, <3>1, <3>3, <4>1, RecordOthers
    <3> QED
      BY <3>2, <3>3
  <2> QED
    BY <2>4, <2>5
<1>4. ASSUME NEW s \in Servers, Crash(s) PROVE RecordOf(c)'
  <2>1. /\ UNCHANGED <<settled, age, taken, sold>>
        /\ pc'[c] = "settling" => pc[c] = "settling" /\ waited'[c] = waited[c]
    BY <1>4 DEF Crash, row, ghosts
  <2> QED
    BY <1>1, <2>1 DEF RecordOf
<1>5. CASE Tick
  BY <1>1, <1>5, RecordTick
<1>6. CASE \/ UNCHANGED vars
           \/ \E total \in RefundTotals : Clawback(total)
           \/ Dispute \/ DisputeWon \/ OperatorDisable \/ OperatorEnable
  <2>1. UNCHANGED <<age, settled, taken, sold, pc, waited>>
    BY <1>6 DEF Clawback, Dispute, DisputeWon, OperatorDisable, OperatorEnable,
                SetCause, vars, row, requests, ghosts
  <2> QED
    BY <1>1, <2>1 DEF RecordOf
<1> QED
  BY <1>2, <1>3, <1>4, <1>5, <1>6 DEF Next

\* When refreshes land and a record is kept as long as a settle is retried, a
\* retry whose first try took money finds the record of it, unless KeepMax
\* holds of the same key were settled while it was being retried.
THEOREM RecordKeptForRetry ==
  ASSUME ~RefreshFails, SettleFor <= Keep
  PROVE  Spec => []RecordsKept
<1>1. Init => RecordsKept
  BY DEF Init, RecordsKept, RecordOf
<1>2. IInv /\ Marks /\ Fresh /\ RecordsKept /\ [Next]_vars => RecordsKept'
  BY RecordStep
<1>3. Spec => []Fresh
  BY FreshAlways
<1> QED
  BY <1>1, <1>2, <1>3, Inductive, MarksAlways, PTL DEF Spec

\* So the retry always finds it on a key with no more calls than KeepMax.
THEOREM RetryFinds ==
  ASSUME ~RefreshFails, SettleFor <= Keep, Cardinality(Calls) <= KeepMax
  PROVE  Spec => []RetryFindsRecord
<1>1. ASSUME TypeOK, RecordsKept, NEW c \in Calls,
             pc[c] = "settling", taken[c] > 0, sold[c] = 0, c \notin settled
      PROVE  FALSE
  <2> DEFINE others == Younger(settled, age, waited[c])
  <2>1. Cardinality(others) >= KeepMax
    BY <1>1 DEF RecordsKept, RecordOf
  <2>2. others \in SUBSET Calls /\ c \notin others
    BY <1>1 DEF Younger, TypeOK
  <2>3. /\ Cardinality(others) \in Nat /\ Cardinality(Calls) \in Nat
        /\ Cardinality(others) <= Cardinality(Calls)
        /\ Cardinality(Calls) # Cardinality(others)
    BY <1>1, <2>2, FS_Subset, FS_CardinalityType
  <2> QED
    BY <2>1, <2>3
<1>2. TypeOK /\ RecordsKept => RetryFindsRecord
  BY <1>1 DEF RetryFindsRecord
<1> QED
  BY <1>2, TypeCorrect, RecordKeptForRetry, PTL

------------------------------------------------------------------------------
(* Refunds and disable causes *)

\* Only the webhook and the operator's switch touch these.
LEMMA CauseKept ==
  ASSUME [Next]_vars,
         ~\E total \in RefundTotals : Clawback(total),
         ~(Dispute \/ DisputeWon \/ OperatorDisable \/ OperatorEnable)
  PROVE  UNCHANGED <<refunded, cause, clawed, due>>
<1>1. ASSUME NEW c \in Calls, CallStep(c)
      PROVE  UNCHANGED <<refunded, cause, clawed, due>>
  <2>1. CASE Authorize(c) \/ AuthorizeLost(c) \/ AuthorizeUnheard(c) \/ AuthorizeRefused(c)
    BY <2>1 DEF Authorize, AuthorizeLost, AuthorizeUnheard, AuthorizeRefused, PlaceHold, row, ghosts
  <2>2. CASE \/ Settle(c) \/ SettleLost(c) \/ SettleAgain(c) \/ SettleGivesUp(c)
             \/ Release(c) \/ ReleaseLost(c) \/ ReleaseGivesUp(c)
    BY <2>2 DEF Settle, SettleLost, SettleAgain, SettleGivesUp, Release, ReleaseLost,
                ReleaseGivesUp, SettleHold, ReleaseHold, row, ghosts
  <2>3. CASE \/ StartStream(c) \/ EndServed(c) \/ EndUnserved(c)
             \/ Finish(c) \/ CloseLate(c) \/ CloseEarly(c)
    BY <2>3 DEF StartStream, EndServed, EndUnserved, Finish, CloseLate, CloseEarly, row, ghosts
  <2>4. CASE \/ GoneForgiven(c) \/ GoneCharged(c) \/ GoneTimeout(c)
             \/ MarkLands(c) \/ MarkFails(c)
    BY <2>4 DEF GoneForgiven, GoneCharged, GoneTimeout, MarkLands, MarkFails, row, ghosts
  <2> QED
    BY <1>1, <2>1, <2>2, <2>3, <2>4 DEF CallStep
<1>2. ASSUME NEW s \in Servers, Sweep(s) \/ SweepLost(s)
      PROVE  UNCHANGED <<refunded, cause, clawed, due>>
  BY <1>2 DEF Sweep, SweepLost, SweepRow
<1>3. ASSUME NEW s \in Servers, Crash(s)
      PROVE  UNCHANGED <<refunded, cause, clawed, due>>
  BY <1>3 DEF Crash, row, ghosts
<1>4. CASE Tick \/ UNCHANGED vars
  BY <1>4 DEF Tick, Refreshed, vars, row, ghosts
<1> QED
  BY <1>1, <1>2, <1>3, <1>4 DEF Next

\* Refunds take at most the largest running total Stripe reported: no order and
\* no repetition of its deliveries takes more.
THEOREM RefundsTakenOnce == Spec => []RefundTakenOnce
<1>1. Init => RefundTakenOnce
  BY DEF Init, RefundTakenOnce
<1>2. TypeOK /\ RefundTakenOnce /\ [Next]_vars => RefundTakenOnce'
  <2> SUFFICES ASSUME TypeOK, RefundTakenOnce, [Next]_vars
               PROVE  RefundTakenOnce'
    OBVIOUS
  <2>1. CASE \E total \in RefundTotals : Clawback(total)
    <3>1. PICK total \in RefundTotals : Clawback(total)
      BY <2>1
    <3>2. /\ total \in Nat /\ balance \in Nat /\ refunded \in Nat /\ clawed \in Nat
      BY DEF TypeOK
    <3>3. /\ balance' = Most(0, balance - Most(0, total - refunded))
          /\ clawed' = clawed + (balance - balance')
          /\ refunded' = refunded + Most(0, total - refunded)
      BY <3>1 DEF Clawback
    <3>4. refunded' = total \/ refunded' = refunded
      BY <3>2, <3>3 DEF Most
    <3>5. clawed' <= refunded'
      BY <3>2, <3>3 DEF Most, RefundTakenOnce
    <3> QED
      BY <3>4, <3>5 DEF RefundTakenOnce
  <2>2. CASE Dispute \/ DisputeWon \/ OperatorDisable \/ OperatorEnable
    BY <2>2 DEF Dispute, DisputeWon, OperatorDisable, OperatorEnable, SetCause, RefundTakenOnce
  <2> QED
    BY <2>1, <2>2, CauseKept DEF RefundTakenOnce
<1> QED
  BY <1>1, <1>2, TypeCorrect, PTL DEF Spec

\* The recorded reason is the strongest cause still standing, so a dispute that
\* closes enables only a key nothing else disabled.
THEOREM StrongestCause == Spec => []CauseIsStrongest
<1>1. Init => CauseIsStrongest
  BY DEF Init, CauseIsStrongest
<1>2. TypeOK /\ CauseIsStrongest /\ [Next]_vars => CauseIsStrongest'
  <2> SUFFICES ASSUME TypeOK, CauseIsStrongest, [Next]_vars
               PROVE  CauseIsStrongest'
    OBVIOUS
  <2>1. cause \in Causes /\ due \subseteq Causes \ {"no"}
    BY DEF TypeOK
  <2>2. /\ CauseRank("operator") = 3 /\ CauseRank("refunded") = 2
        /\ CauseRank("disputed") = 1 /\ CauseRank("no") = 0
    BY DEF CauseRank
  <2>3. ASSUME NEW reason \in Causes \ {"no"}, cause' = DisabledBy(reason),
               due' = due \cup {reason}
        PROVE  CauseIsStrongest'
    <3>1. CASE CauseRank(reason) >= CauseRank(cause)
      <4>1. cause' = reason
        BY <2>3, <3>1 DEF DisabledBy
      <4>2. \A d \in Causes : CauseRank(d) \in Int
        BY <2>2 DEF Causes
      <4>3. \A d \in due : CauseRank(d) <= CauseRank(reason)
        BY <2>1, <3>1, <4>2 DEF CauseIsStrongest
      <4> QED
        BY <2>3, <4>1, <4>2, <4>3 DEF CauseIsStrongest
    <3>2. CASE ~(CauseRank(reason) >= CauseRank(cause))
      <4>1. cause' = cause
        BY <2>3, <3>2 DEF DisabledBy
      <4>2. \A d \in Causes : CauseRank(d) \in Int
        BY <2>2 DEF Causes
      <4>3. CauseRank(reason) <= CauseRank(cause)
        BY <2>1, <3>2, <4>2
      <4>4. cause # "no"
        BY <2>1, <2>2, <3>2 DEF Causes
      <4> QED
        BY <2>3, <4>1, <4>3, <4>4 DEF CauseIsStrongest
    <3> QED
      BY <3>1, <3>2
  <2>4. CASE \E total \in RefundTotals : Clawback(total)
    BY <2>3, <2>4 DEF Clawback, Causes, CauseIsStrongest
  <2>5. CASE Dispute
    BY <2>3, <2>5 DEF Dispute, SetCause, Causes
  <2>6. CASE DisputeWon
    <3>1. due' = due \ {"disputed"} /\ cause' = IF cause = "disputed" THEN "no" ELSE cause
      BY <2>6 DEF DisputeWon, SetCause
    <3>2. cause = "disputed" => due' = {}
      BY <2>1, <2>2, <3>1 DEF CauseIsStrongest, Causes
    <3> QED
      BY <3>1, <3>2 DEF CauseIsStrongest
  <2>7. CASE OperatorDisable
    BY <2>1, <2>2, <2>7 DEF OperatorDisable, SetCause, Causes, CauseIsStrongest
  <2>8. CASE OperatorEnable
    BY <2>8 DEF OperatorEnable, SetCause, CauseIsStrongest
  <2> QED
    BY <2>4, <2>5, <2>6, <2>7, <2>8, CauseKept DEF CauseIsStrongest
<1> QED
  BY <1>1, <1>2, TypeCorrect, PTL DEF Spec

------------------------------------------------------------------------------
(* The refinement: CreditsHolds implements PrepaidKey.  Each step on the row is *)
(* a reservation, the end of some reservations, a refund, or nothing the buyer *)
(* could tell.                                                             *)

\* The calls that began and hold nothing any more.
Ended == { c \in Calls : pc[c] \notin {"idle", "refused"} /\ c \notin entries }

AccountNow == <<balance, entries, Ended, taken, UntrackedHeld, clawed>>

\* The account's totals are the row's.
LEMMA SameTotals ==
  ASSUME NEW f, NEW S
  PROVE  Account!Total(f, S) = Total(f, S)
<1>1. Account!Units(f, S) = Units(f, S)
  BY DEF Account!Units, Units
<1> QED
  BY <1>1, Zenon DEF Account!Total, Total, Account!Cardinality, Cardinality

------------------------------------------------------------------------------

\* A step that only moves a request along does not show on the account.
LEMMA QuietSteps ==
  ASSUME TypeOK, Bystander, ~(\E total \in RefundTotals : Clawback(total))
  PROVE  UNCHANGED AccountNow
<1>1. UNCHANGED <<held, entries, taken>>
  BY BystanderKeeps
<1>2. UNCHANGED <<balance, clawed>>
  BY DEF Bystander, AuthorizeRefused, StartStream, EndServed, EndUnserved, Finish,
         CloseLate, CloseEarly, GoneForgiven, GoneCharged, GoneTimeout, MarkLands,
         MarkFails, SettleGivesUp, ReleaseGivesUp, Tick, Crash, Dispute, DisputeWon,
         OperatorDisable, OperatorEnable, SetCause, vars, row, ghosts
<1>3. \A c \in Calls : pc'[c] \in {"idle", "refused"} <=> pc[c] \in {"idle", "refused"}
  <2>1. CASE \E d \in Calls : \/ AuthorizeRefused(d) \/ StartStream(d) \/ EndServed(d)
                              \/ EndUnserved(d) \/ Finish(d) \/ CloseLate(d) \/ CloseEarly(d)
    BY <2>1 DEF AuthorizeRefused, StartStream, EndServed, EndUnserved, Finish, CloseLate,
                CloseEarly, TypeOK
  <2>2. CASE \E d \in Calls : \/ GoneForgiven(d) \/ GoneCharged(d) \/ GoneTimeout(d)
                              \/ MarkLands(d) \/ MarkFails(d)
                              \/ SettleGivesUp(d) \/ ReleaseGivesUp(d)
    BY <2>2 DEF GoneForgiven, GoneCharged, GoneTimeout, MarkLands, MarkFails,
                SettleGivesUp, ReleaseGivesUp, TypeOK
  <2>3. CASE \E s \in Servers : Crash(s)
    BY <2>3 DEF Crash, LiveOn, Live, LiveStates, TypeOK
  <2>4. CASE Tick \/ UNCHANGED vars \/ Dispute \/ DisputeWon \/ OperatorDisable \/ OperatorEnable
    BY <2>4 DEF Tick, Refreshed, vars, requests, Dispute, DisputeWon, OperatorDisable, OperatorEnable,
                SetCause
  <2> QED
    BY <2>1, <2>2, <2>3, <2>4 DEF Bystander
<1>4. Ended' = Ended
  BY <1>1, <1>3 DEF Ended
<1>5. UntrackedHeld' = UntrackedHeld
  BY <1>1, Zenon DEF UntrackedHeld
<1> QED
  BY <1>1, <1>2, <1>4, <1>5 DEF AccountNow

\* A refund takes back available money.
LEMMA RefundTakesBack ==
  ASSUME TypeOK, TypeOK', NEW total \in RefundTotals, Clawback(total)
  PROVE  Account!TakeBack
<1>1. UNCHANGED <<held, entries, taken, pc>>
  BY DEF Clawback, requests
<1>2. balance' <= balance /\ clawed' = clawed + (balance - balance')
  BY DEF Clawback, Most, TypeOK
<1>3. balance' \in 0 .. balance
  BY <1>2 DEF TypeOK
<1>4. Ended' = Ended
  BY <1>1 DEF Ended
<1>5. UntrackedHeld' = UntrackedHeld
  BY <1>1, Zenon DEF UntrackedHeld
<1> QED
  BY <1>1, <1>2, <1>3, <1>4, <1>5 DEF Account!TakeBack, Ended

\* Placing a hold reserves.
LEMMA HoldReserves ==
  ASSUME IInv, NEW c \in Calls, Authorize(c) \/ AuthorizeLost(c) \/ AuthorizeUnheard(c)
  PROVE  Account!Reserve(c)
<1> USE DEF IInv
<1>1. /\ PlaceHold(c) /\ pc[c] = "idle" /\ UNCHANGED <<taken, clawed>>
      /\ pc'[c] \notin {"idle", "refused"}
      /\ \A d \in Calls \ {c} : pc'[d] = pc[d]
  BY DEF Authorize, AuthorizeLost, AuthorizeUnheard, ghosts, TypeOK
<1>2. c \notin entries /\ entries \subseteq Calls
  BY <1>1 DEF Books, IdleUntouched, TypeOK
<1>3. /\ balance >= Price[c] /\ balance' = balance - Price[c]
      /\ held' = held + Price[c] /\ entries' = entries \cup {c}
  BY <1>1 DEF PlaceHold
<1>4. c \notin Ended /\ Ended' = Ended
  BY <1>1, <1>2, <1>3 DEF Ended
<1>5. UntrackedHeld' = UntrackedHeld
  <2>1. Total(Price, entries') = Total(Price, entries) + Price[c]
    <3>1. IsFiniteSet(entries) /\ \A x \in entries \cup {c} : Price[x] \in Nat
      BY <1>2, PricesType
    <3>2. Total(Price, entries \cup {c}) = Total(Price, entries) + Price[c]
      BY <1>2, <3>1, TotalAdd
    <3> QED
      BY <1>3, <3>2, Zenon
  <2>2. Total(Price, entries) \in Nat /\ held \in Nat /\ Price[c] \in Nat
    BY <1>2, PricesType DEF TypeOK
  <2> QED
    BY <1>3, <2>1, <2>2 DEF UntrackedHeld
<1> QED
  BY <1>1, <1>2, <1>3, <1>4, <1>5 DEF Account!Reserve, Ended

\* A transaction that ends one entry, with its price or less charged, ends one
\* reservation; once the entry is gone it does nothing.
LEMMA OneHoldEnds ==
  ASSUME IInv, TypeOK', NEW c \in Calls, NEW takes \in Nat,
         pc[c] \in {"settling", "releasing"},
         pc'[c] \notin {"idle", "refused"},
         \A d \in Calls \ {c} : pc'[d] = pc[d],
         takes <= TakeHold(c),
         held' = held - TakeHold(c),
         balance' = balance + (TakeHold(c) - takes),
         entries' = entries \ {c},
         \A d \in Calls \ {c} : taken'[d] = taken[d],
         taken'[c] = taken[c] + takes,
         clawed' = clawed
  PROVE  Account!Next \/ UNCHANGED AccountNow
<1> USE DEF IInv
<1>1. TakeHold(c) = IF c \in entries THEN Price[c] ELSE 0
  BY TakeHoldValue DEF Money
<1>2. /\ Total(Price, entries) \in Nat /\ entries \subseteq Calls
      /\ held \in Nat /\ balance \in Nat /\ Price[c] \in Nat
  BY PricesType DEF TypeOK
<1>3. CASE c \in entries
  <2>1. taken'[c] = takes /\ takes <= Price[c]
    BY <1>1, <1>3 DEF Books, EntriesOpen
  <2>2. Ended' = Ended \cup {c}
    BY DEF Ended
  <2>3. UntrackedHeld' = UntrackedHeld
    <3>1. Total(Price, entries \ {c}) = Total(Price, entries) - Price[c]
      BY <1>3, OneEntryLess
    <3>2. Total(Price, entries') = Total(Price, entries) - Price[c]
      BY <3>1, Zenon
    <3> QED
      BY <1>1, <1>2, <1>3, <3>2 DEF UntrackedHeld
  <2>4. Total(Price, {c}) = Price[c] /\ Total(taken', {c}) = takes
    BY <1>2, <2>1, TotalSingle
  <2>5. balance' = balance + (Total(Price, {c}) - Total(taken', {c}))
                           + (UntrackedHeld - UntrackedHeld')
    <3>1. UntrackedHeld \in Int
      BY <1>2 DEF UntrackedHeld
    <3>2. balance' = balance + (Price[c] - takes)
      BY <1>1, <1>3
    <3>3. UntrackedHeld - UntrackedHeld' = 0
      BY <2>3, <3>1
    <3> QED
      BY <1>2, <2>4, <3>2, <3>3
  <2>6. \A d \in Calls : IF d \in {c} THEN taken'[d] <= Price[d] ELSE taken'[d] = taken[d]
    BY <2>1
  <2>7. taken' \in [Calls -> Nat]
    BY DEF TypeOK
  <2>8. {c} \subseteq entries /\ UntrackedHeld' \in {UntrackedHeld, 0}
    BY <1>3, <2>3
  <2>9. Account!End({c})
    <3>1. balance' = balance + (Account!Total(Price, {c}) - Account!Total(taken', {c}))
                             + (UntrackedHeld - UntrackedHeld')
      BY <2>5, SameTotals, Zenon
    <3> QED
      BY <2>2, <2>6, <2>7, <2>8, <3>1, Zenon DEF Account!End, Ended
  <2> QED
    BY <2>9 DEF Account!Next
<1>4. CASE c \notin entries
  <2>1. takes = 0 /\ TakeHold(c) = 0 /\ entries' = entries
    BY <1>1, <1>4
  <2>2. balance' = balance /\ held' = held
    BY <1>2, <2>1
  <2>3. taken' = taken
    BY <2>1 DEF TypeOK
  <2>4. Ended' = Ended
    BY <2>1 DEF Ended
  <2>5. UntrackedHeld' = UntrackedHeld
    BY <2>1, <2>2, Zenon DEF UntrackedHeld
  <2> QED
    BY <2>1, <2>2, <2>3, <2>4, <2>5 DEF AccountNow
<1> QED
  BY <1>3, <1>4

\* A settle ends its reservation; so does a release, charging nothing.
LEMMA SettleEnds ==
  ASSUME IInv, TypeOK', NEW c \in Calls, Settle(c) \/ SettleLost(c)
  PROVE  Account!Next \/ UNCHANGED AccountNow
<1> DEFINE takes == Least(TakeHold(c), ask[c])
<1>1. SettleHold(c) /\ pc[c] = "settling" /\ clawed' = clawed
  BY DEF Settle, SettleLost
<1>2. /\ pc'[c] \in {"settling", "done"}
      /\ \A d \in Calls \ {c} : pc'[d] = pc[d]
  BY DEF Settle, SettleLost, IInv, TypeOK, requests
<1>3. /\ held' = held - TakeHold(c) /\ balance' = balance + (TakeHold(c) - takes)
      /\ entries' = entries \ {c} /\ taken' = [taken EXCEPT ![c] = @ + takes]
  BY <1>1 DEF SettleHold
<1>4. /\ \A d \in Calls \ {c} : taken'[d] = taken[d]
      /\ taken'[c] = taken[c] + takes
  BY <1>3 DEF IInv, TypeOK
<1>5. takes \in Nat /\ takes <= TakeHold(c)
  BY DEF TakeHold, Least, IInv, TypeOK
<1> HIDE DEF takes
<1> QED
  BY <1>1, <1>2, <1>3, <1>4, <1>5, OneHoldEnds

LEMMA ReleaseEnds ==
  ASSUME IInv, TypeOK', NEW c \in Calls, Release(c) \/ ReleaseLost(c)
  PROVE  Account!Next \/ UNCHANGED AccountNow
<1>1. /\ ReleaseHold(c) /\ pc[c] = "releasing" /\ clawed' = clawed /\ taken' = taken
      /\ pc'[c] \in {"releasing", "done"}
      /\ \A d \in Calls \ {c} : pc'[d] = pc[d]
  BY DEF Release, ReleaseLost, IInv, TypeOK, ghosts, requests
<1>2. TakeHold(c) \in Nat /\ balance \in Nat /\ taken[c] \in Nat
  BY DEF TakeHold, Least, IInv, TypeOK
<1>3. /\ held' = held - TakeHold(c) /\ balance' = balance + (TakeHold(c) - 0)
      /\ entries' = entries \ {c} /\ taken'[c] = taken[c] + 0
      /\ \A d \in Calls \ {c} : taken'[d] = taken[d]
  BY <1>1, <1>2 DEF ReleaseHold
<1>4. 0 \in Nat /\ 0 <= TakeHold(c) /\ pc'[c] \notin {"idle", "refused"}
  BY <1>1, <1>2
<1> QED
  BY <1>1, <1>3, <1>4, OneHoldEnds, Zenon

\* A sweep ends its reservations together, charging those marked settling.
LEMMA SweepEnds ==
  ASSUME IInv, TypeOK', NEW s \in Servers, NEW quietRow \in BOOLEAN, NEW books \in BOOLEAN,
         SweepRow(s, quietRow, books)
  PROVE  \E calls \in SUBSET Calls : Account!End(calls)
<1> DEFINE debit == Total(SweptTakes(s), Calls)
           ends  == Total(Price, Swept(s))
<1>1. PICK stray \in Nat :
        /\ stray = 0 \/ stray = UntrackedHeld
        /\ debit \in Nat /\ ends \in Nat
        /\ Total(Price, entries) \in Nat
        /\ Total(Price, entries \ Swept(s)) = Total(Price, entries) - ends
        /\ held' = held - ends - stray
        /\ balance' = balance + (ends - debit) + stray
        /\ entries' = entries \ Swept(s)
        /\ taken' = [c \in Calls |-> taken[c] + SweptTakes(s)[c]]
  BY SweepMoves DEF IInv, Money
<1>2. /\ Swept(s) \subseteq entries /\ SweptMarked(s) \subseteq Swept(s)
      /\ entries \subseteq Calls
  BY DEF Swept, SweptMarked, Abandoned, IInv, TypeOK
<1>3. clawed' = clawed /\ pc' = pc
  BY DEF SweepRow, requests
<1>4. Ended' = Ended \cup Swept(s)
  <2>1. \A c \in entries : pc[c] \notin {"idle", "refused"}
    BY DEF IInv, Books, EntriesOpen
  <2> QED
    BY <1>1, <1>2, <1>3, <2>1 DEF Ended
<1>5. UntrackedHeld' = UntrackedHeld - stray
  <2>1. Total(Price, entries') = Total(Price, entries) - ends
    BY <1>1, Zenon
  <2>2. held \in Nat
    BY DEF IInv, TypeOK
  <2> QED
    BY <1>1, <2>1, <2>2 DEF UntrackedHeld
<1>6. UntrackedHeld \in Int
  BY <1>1 DEF UntrackedHeld, IInv, TypeOK
<1>7. /\ UntrackedHeld' \in {UntrackedHeld, 0}
      /\ UntrackedHeld - UntrackedHeld' = stray
  BY <1>1, <1>5, <1>6
<1>8. \A c \in Calls : /\ taken[c] \in Nat /\ SweptTakes(s)[c] \in Nat
                       /\ SweptTakes(s)[c] <= Price[c]
                       /\ c \notin SweptMarked(s) => SweptTakes(s)[c] = 0
  BY DEF SweptTakes, Least, IInv, TypeOK
<1>9. \A c \in Swept(s) : taken'[c] = SweptTakes(s)[c]
  <2>1. \A c \in Swept(s) : c \in Calls /\ taken[c] = 0
    BY <1>2 DEF IInv, Books, EntriesOpen
  <2> QED
    BY <1>1, <1>8, <2>1
<1>10. \A c \in Calls : IF c \in Swept(s) THEN taken'[c] <= Price[c] ELSE taken'[c] = taken[c]
  <2>1. ASSUME NEW c \in Calls, c \in Swept(s) PROVE taken'[c] <= Price[c]
    BY <1>8, <1>9, <2>1
  <2>2. ASSUME NEW c \in Calls, c \notin Swept(s) PROVE taken'[c] = taken[c]
    BY <1>1, <1>2, <1>8, <2>2
  <2> QED
    BY <2>1, <2>2
<1>11. Total(taken', Swept(s)) = debit
  <2>1. Total(taken', Swept(s)) = Total(SweptTakes(s), Swept(s))
    BY <1>9, TotalSame
  <2>2. Total(SweptTakes(s), Calls) = Total(SweptTakes(s), Swept(s))
    <3>1. /\ Swept(s) \in SUBSET Calls
          /\ \A c \in Calls : SweptTakes(s)[c] \in Nat
          /\ \A c \in Calls \ Swept(s) : SweptTakes(s)[c] = 0
      BY <1>2, <1>8
    <3> QED
      BY <3>1, TotalSupport
  <2> QED
    BY <2>1, <2>2
<1>12. balance' = balance + (ends - Total(taken', Swept(s))) + (UntrackedHeld - UntrackedHeld')
  BY <1>1, <1>7, <1>11, Zenon
<1>13. taken' \in [Calls -> Nat]
  BY DEF TypeOK
<1>14. PICK calls \in SUBSET Calls : calls = Swept(s)
  BY <1>2
<1>15. balance' = balance + (Account!Total(Price, calls) - Account!Total(taken', calls))
                         + (UntrackedHeld - UntrackedHeld')
  BY <1>12, <1>14, SameTotals, Zenon
<1>16. /\ calls \subseteq entries /\ entries' = entries \ calls
       /\ Ended' = Ended \cup calls
       /\ \A c \in Calls : IF c \in calls THEN taken'[c] <= Price[c] ELSE taken'[c] = taken[c]
  BY <1>1, <1>2, <1>4, <1>10, <1>14, Zenon
<1>17. Account!End(calls)
  BY <1>3, <1>7, <1>13, <1>15, <1>16, Zenon DEF Account!End, Ended
<1> QED
  BY <1>17

------------------------------------------------------------------------------

\* The key starts as a new account.
LEMMA StartsAsAccount == Init => Account!Init
<1> SUFFICES ASSUME Init PROVE Account!Init
  OBVIOUS
<1>1. Total(Price, {}) = 0
  BY TotalEmpty
<1>2. Total(Price, entries) = 0
  BY <1>1, Zenon DEF Init
<1>3. UntrackedHeld = Untracked
  BY <1>2 DEF Init, UntrackedHeld
<1> QED
  BY <1>3 DEF Init, Account!Init

\* Every step on the row is a step of the account, or none.
LEMMA StepsAsAccount == IInv /\ [Next]_vars => [Account!Next]_AccountNow
<1> SUFFICES ASSUME IInv, [Next]_vars PROVE Account!Next \/ UNCHANGED AccountNow
  OBVIOUS
<1>1. TypeOK /\ TypeOK'
  BY TypeStep DEF IInv
<1>2. CASE Bystander
  <2>1. ASSUME NEW total \in RefundTotals, Clawback(total) PROVE Account!Next
    BY <1>1, <2>1, RefundTakesBack DEF Account!Next
  <2> QED
    BY <1>1, <1>2, <2>1, QuietSteps
<1>3. ASSUME NEW c \in Calls, Authorize(c) \/ AuthorizeLost(c) \/ AuthorizeUnheard(c) PROVE Account!Next
  BY <1>3, HoldReserves DEF Account!Next
<1>4. ASSUME NEW c \in Calls, Settle(c) \/ SettleLost(c) \/ Release(c) \/ ReleaseLost(c)
      PROVE  Account!Next \/ UNCHANGED AccountNow
  BY <1>1, <1>4, SettleEnds, ReleaseEnds
<1>5. ASSUME NEW c \in Calls, SettleAgain(c) PROVE UNCHANGED AccountNow
  <2>1. /\ UNCHANGED <<balance, held, entries, taken, clawed>>
        /\ \A d \in Calls : pc'[d] \in {"idle", "refused"} <=> pc[d] \in {"idle", "refused"}
    BY <1>1, <1>5 DEF SettleAgain, row, TypeOK
  <2>2. Ended' = Ended
    BY <2>1 DEF Ended
  <2>3. UntrackedHeld' = UntrackedHeld
    BY <2>1, Zenon DEF UntrackedHeld
  <2> QED
    BY <2>1, <2>2, <2>3 DEF AccountNow
<1>6. ASSUME NEW s \in Servers, NEW quietRow \in BOOLEAN, NEW books \in BOOLEAN,
             SweepRow(s, quietRow, books)
      PROVE  Account!Next
  BY <1>1, <1>6, SweepEnds, Zenon DEF Account!Next
<1> QED
  BY <1>2, <1>3, <1>4, <1>5, <1>6, StepCases

\* The row, with its holds, sweeps, retries and crashes, gives the buyer the
\* account that PrepaidKey promises.
THEOREM Implementation == Spec => ImplementsPrepaidKey
BY Inductive, StartsAsAccount, StepsAsAccount, PTL
   DEF Spec, ImplementsPrepaidKey, Account!Spec, AccountNow, Account!account, Ended
=============================================================================
