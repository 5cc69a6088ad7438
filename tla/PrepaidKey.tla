----------------------------- MODULE PrepaidKey -----------------------------
(***************************************************************************)
(* What a prepaid key promises its buyer, with no row, no process and no   *)
(* clock: money is available, reserved for a call, or gone.  A call        *)
(* reserves its price before it runs; the reservation ends once, and what  *)
(* ends it charges the call at most its price and gives the rest back.     *)
(* CreditsHolds implements it.                                             *)
(***************************************************************************)
EXTENDS Totals

CONSTANTS Calls, Price, Loaded, Stray

VARIABLES
  available,  \* what the buyer may still reserve
  reserved,   \* the calls whose price is set aside
  ended,      \* the calls whose reservation has ended
  charged,    \* what each call was charged
  stray,      \* money set aside for no known call
  takenBack   \* what refunds took away

account == <<available, reserved, ended, charged, stray, takenBack>>

Init ==
  /\ available = Loaded - Stray /\ stray = Stray
  /\ reserved = {} /\ ended = {}
  /\ charged = [c \in Calls |-> 0]
  /\ takenBack = 0

Reserve(c) ==
  /\ c \notin reserved \cup ended
  /\ available >= Price[c]
  /\ available' = available - Price[c]
  /\ reserved' = reserved \cup {c}
  /\ UNCHANGED <<ended, charged, stray, takenBack>>

\* Reservations end together when one pass ends several of them, and the pass
\* may return the stray money.
End(calls) ==
  /\ calls \subseteq reserved
  /\ reserved' = reserved \ calls
  /\ ended' = ended \cup calls
  /\ charged' \in [Calls -> Nat]
  /\ \A c \in Calls : IF c \in calls THEN charged'[c] <= Price[c]
                                     ELSE charged'[c] = charged[c]
  /\ stray' \in {stray, 0}
  /\ available' = available + (Total(Price, calls) - Total(charged', calls)) + (stray - stray')
  /\ UNCHANGED takenBack

\* A refund takes back available money only.
TakeBack ==
  /\ available' \in 0 .. available
  /\ takenBack' = takenBack + (available - available')
  /\ UNCHANGED <<reserved, ended, charged, stray>>

Next ==
  \/ \E c \in Calls : Reserve(c)
  \/ \E calls \in SUBSET Calls : End(calls)
  \/ TakeBack

Spec == Init /\ [][Next]_account
=============================================================================
