------------------------------- MODULE OneUse -------------------------------
(***************************************************************************)
(* What a signed payment authorization may be used for, with no store, no  *)
(* claims and no process that may crash: by one call at a time, and by no  *)
(* other once a call was granted with it, until the grant is old enough to *)
(* be forgotten; a grant that was free is remembered for as long as the    *)
(* authorization is good.  Failures, if there are any, may lose the memory *)
(* of a grant, or a call.  ReplayGuard implements it.                      *)
(***************************************************************************)
CONSTANTS
  Calls,    \* the calls that carry the authorization
  MayFail   \* TRUE: a store or a process may fail

VARIABLES
  users,    \* the calls that use the authorization
  granted,  \* the calls granted with it, as far as they are remembered
  free,     \* those of them that were granted for nothing
  lost,     \* the calls whose grant a failure lost; one may still be charged
  charged,  \* the call, if any, the authorization paid for
  valid     \* the authorization is still good

use == <<users, granted, free, lost, charged, valid>>

Init ==
  /\ users = {} /\ granted = {} /\ free = {}
  /\ lost = {} /\ charged = {} /\ valid = TRUE

Enter(r) ==
  /\ users = {} /\ granted = {}
  /\ users' = {r}
  /\ UNCHANGED <<granted, free, lost, charged, valid>>

Charge(r) ==
  /\ r \in (users \ free) \cup lost
  /\ valid /\ charged = {}
  /\ charged' = {r}
  /\ UNCHANGED <<users, granted, free, lost, valid>>

\* The call is answered, or its client leaves and it runs on; for the payment,
\* on credit, or free.
Grant(r) ==
  /\ r \in users \ granted
  /\ granted' = granted \cup {r}
  /\ \/ UNCHANGED free
     \/ r \notin charged /\ free' = free \cup {r}
  /\ users' \in {users, users \ {r}}
  /\ UNCHANGED <<lost, charged, valid>>

Leave(r) ==
  /\ r \in users
  /\ users' = users \ {r}
  /\ UNCHANGED <<granted, free, lost, charged, valid>>

Forget ==
  /\ users = {} /\ (free # {} => ~valid)
  /\ granted' = {} /\ free' = {}
  /\ UNCHANGED <<users, lost, charged, valid>>

\* A failure ends some uses, and loses some grants.
Lose ==
  /\ MayFail
  /\ \E ended \in SUBSET users, gone \in SUBSET Calls :
       /\ users' = users \ (ended \cup gone)
       /\ granted' = granted \ gone /\ free' = free \ gone
       /\ lost' = lost \cup gone
  /\ UNCHANGED <<charged, valid>>

Expire == valid /\ valid' = FALSE /\ UNCHANGED <<users, granted, free, lost, charged>>

Next ==
  \/ \E r \in Calls : Enter(r) \/ Charge(r) \/ Grant(r) \/ Leave(r)
  \/ Forget \/ Lose \/ Expire

Spec == Init /\ [][Next]_use
=============================================================================
