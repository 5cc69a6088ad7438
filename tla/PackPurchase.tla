---------------------------- MODULE PackPurchase ----------------------------
(***************************************************************************)
(* What buying a pack of credits promises, with no claims, no locks and no *)
(* process that may crash: a paid session is sold, for one key and for     *)
(* good, or refused, for good.  The seller pays back a refused session     *)
(* only, and records it as repaid only when the payment is back.  (A       *)
(* payment may be back before the session is decided.)  CreditsClaim       *)
(* implements it.                                                          *)
(***************************************************************************)
CONSTANTS
  Sessions,  \* the paid sessions
  KeyIds,    \* the keys that may be sold
  SessionOf  \* the session each key would be sold for

VARIABLES
  sold,      \* the keys sold
  refused,   \* the sessions refused
  repaid,    \* the refused sessions recorded as repaid
  paidBack   \* the sessions whose payment is back with the buyer

purchase == <<sold, refused, repaid, paidBack>>

Open(s) == s \notin refused /\ \A k \in sold : SessionOf[k] # s

Init ==
  /\ sold = {} /\ refused = {} /\ repaid = {}
  /\ paidBack \in SUBSET Sessions

Sell(k) ==
  /\ Open(SessionOf[k])
  /\ sold' = sold \cup {k}
  /\ UNCHANGED <<refused, repaid, paidBack>>

\* A payment that is back already is refused and repaid at once.
Refuse(s) ==
  /\ Open(s)
  /\ refused' = refused \cup {s}
  /\ \/ UNCHANGED repaid
     \/ s \in paidBack /\ repaid' = repaid \cup {s}
  /\ UNCHANGED <<sold, paidBack>>

Repay(s) ==
  /\ s \in refused \ (repaid \cup paidBack)
  /\ paidBack' = paidBack \cup {s}
  /\ UNCHANGED <<sold, refused, repaid>>

\* The repayment is recorded; an operator records one made by hand.
Record(s) ==
  /\ s \in refused \ repaid
  /\ paidBack' = paidBack \cup {s}
  /\ repaid' = repaid \cup {s}
  /\ UNCHANGED <<sold, refused>>

Next ==
  \/ \E k \in KeyIds : Sell(k)
  \/ \E s \in Sessions : Refuse(s) \/ Repay(s) \/ Record(s)

Spec == Init /\ [][Next]_purchase
=============================================================================
