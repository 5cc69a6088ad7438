------------------------- MODULE ReplayGuardProofs -------------------------
(***************************************************************************)
(* Proofs about ReplayGuard, for any number of calls and processes, with   *)
(* crashes and store failures.                                             *)
(*                                                                         *)
(* The argument: where the shared claim is required, a call between its    *)
(* SET NX and its last delete is the one the claim names (Claimed), because*)
(* a running call's process renews it (Renewed); where there is no store,  *)
(* it is alone in the lone process's inFlight set (Alone).  A granted call *)
(* either still holds that claim, or its mark is there (Marked), so a call *)
(* that finds neither is the only one.                                     *)
(***************************************************************************)
EXTENDS ReplayGuard, TLAPS

\* The places between a claim taken and its last command.
Holding == {"recheck", "back", "running", "mark", "drop", "release"}

\* The mark a call's begin reads.
TheMark == IF mode = "none" THEN localMark[Lone] ELSE mark

Claimed == mode = "required" => \A r \in Calls : pc[r] \in Holding => claim = r

Renewed == mode = "required" => \A r \in Calls : pc[r] = "running" => ServerOf[r] \in renewing

Alone ==
  mode = "none" => \A r \in Calls : pc[r] \in Holding =>
    /\ ServerOf[r] = Lone /\ Lone \in flying
    /\ \A q \in Calls : pc[q] \in Holding => q = r

NoStore ==
  mode = "none" =>
    /\ mark = "none"
    /\ \A r \in Calls : /\ pc[r] \notin {"claim", "recheck", "back", "drop"}
                        /\ r \in Granted => ServerOf[r] = Lone
    /\ \A s \in Servers : s # Lone => localMark[s] = "none"

\* Where a call is, and how it was granted.
Grants ==
  /\ \A r \in Calls :
       /\ pc[r] = "running" => r \in open
       /\ r \in open /\ r \notin Granted => pc[r] = "running"
       /\ r \in Granted => pc[r] \in {"mark", "drop", "done", "dead"}
       /\ pc[r] \in {"mark", "drop"} => r \in Granted
       /\ pc[r] \in {"running", "mark"} => r \notin lost \cup expired
       /\ r \in open => r \notin expired
  /\ lost \subseteq Granted /\ expired \subseteq Granted

Marked ==
  Guarded => \A q \in Granted \ lost :
    /\ q \notin expired => pc[q] = "mark" \/ TheMark # "none"
    /\ grant[q] = "free" => \/ pc[q] = "mark" \/ ~valid
                            \/ q \notin expired /\ TheMark = "long"

\* A free grant that can still be charged shares the authorization with no run.
FreeAlone ==
  Guarded => \A p, q \in Calls :
    /\ p \in open \ lost \/ pc[p] = "mark"
    /\ grant[q] = "free" /\ q \notin lost /\ valid
    => q = p

IInv ==
  /\ TypeOK /\ Claimed /\ Renewed /\ Alone /\ NoStore
  /\ Grants /\ Marked /\ OneRunAtATime /\ FreeAlone

USE GuardAssumption

\* Every variable keeps its type.
THEOREM TypeCorrect == Spec => []TypeOK
<1>1. Init => TypeOK
  BY DEF Init, TypeOK, Holds, Places
<1>2. TypeOK /\ [Next]_vars => TypeOK'
  <2> SUFFICES ASSUME TypeOK, [Next]_vars PROVE TypeOK'
    OBVIOUS
  <2> USE DEF TypeOK, Holds, Places, Goto, store, process, run, past
  <2>1. CASE UNCHANGED vars
    BY <2>1 DEF vars
  <2>2. ASSUME NEW r \in Calls, Step(r) PROVE TypeOK'
    BY <2>2 DEF Step, Begin, TakeClaim, Recheck, Back, BeginLocal, ClaimAfterFailure,
         WriteMark, DropClaim, SettleLocal, MarkLocally, Hold, Release, ReleaseLocal
  <2>3. ASSUME NEW r \in Calls, End(r) PROVE TypeOK'
    BY <2>3 DEF End, Ends, Deliver, DeliverFree, HangUp, HangUpForgiven, Fail
  <2>4. ASSUME NEW r \in Calls, \/ Charge(r) \/ RunOver(r) \/ BeginFails(r) \/ SettleFails(r)
                                \/ RecheckUnheard(r) \/ BeginLocalUnheard(r)
        PROVE TypeOK'
    BY <2>4 DEF RecheckUnheard, BeginLocalUnheard, Charge, RunOver, BeginFails, ClaimAfterFailure, SettleFails, MarkLocally, Hold
  <2>5. ASSUME NEW s \in Servers, LocalMarkExpires(s) \/ RenewalCap(s) \/ Crash(s)
        PROVE TypeOK'
    BY <2>5 DEF LocalMarkExpires, RenewalCap, Crash, Granted
  <2>6. CASE Lapse \/ MarkExpires \/ ValidityEnds
    BY <2>6 DEF Lapse, MarkExpires, ValidityEnds, Granted
  <2>7. QED
    BY <2>1, <2>2, <2>3, <2>4, <2>5, <2>6 DEF Next
<1>3. QED
  BY <1>1, <1>2, PTL DEF Spec

\* IInv is inductive.
THEOREM Inductive == Spec => []IInv
<1>1. Init => IInv
  BY DEF Init, IInv, TypeOK, Holds, Places, Claimed, Renewed, Alone, NoStore, Grants, Marked,
    OneRunAtATime, FreeAlone, Holding, TheMark, Guarded, Granted
<1>2. IInv /\ TypeOK' /\ [Next]_vars => IInv'
  <2> SUFFICES ASSUME IInv, TypeOK', [Next]_vars PROVE IInv'
    OBVIOUS
  <2> USE DEF TypeOK, Holds, Places, Goto, store, process, run, past, Granted, Guarded, Holding,
       TheMark, IInv, Claimed, Renewed, Alone, NoStore, Grants, Marked, OneRunAtATime, FreeAlone
  <2>1. CASE UNCHANGED vars
    BY <2>1 DEF vars
  <2>2. ASSUME NEW r \in Calls, Begin(r) PROVE IInv'
    BY <2>2 DEF Begin
  <2>3. ASSUME NEW r \in Calls, TakeClaim(r) PROVE IInv'
    BY <2>3 DEF TakeClaim
  <2>4. ASSUME NEW r \in Calls, Recheck(r) PROVE IInv'
    BY <2>4 DEF Recheck
  <2>5. ASSUME NEW r \in Calls, Back(r) PROVE IInv'
    BY <2>5 DEF Back
  <2>6. ASSUME NEW r \in Calls, BeginLocal(r) PROVE IInv'
    BY <2>6 DEF BeginLocal, ClaimAfterFailure, Serves
  <2>7. ASSUME NEW r \in Calls, WriteMark(r) PROVE IInv'
    BY <2>7 DEF WriteMark, Hold
  <2>8. ASSUME NEW r \in Calls, DropClaim(r) PROVE IInv'
    BY <2>8 DEF DropClaim
  <2>9. ASSUME NEW r \in Calls, SettleLocal(r) PROVE IInv'
    BY <2>9 DEF SettleLocal, MarkLocally, Hold
  <2>10. ASSUME NEW r \in Calls, Release(r) PROVE IInv'
    BY <2>10 DEF Release
  <2>11. ASSUME NEW r \in Calls, ReleaseLocal(r) PROVE IInv'
    BY <2>11 DEF ReleaseLocal
  <2>12. ASSUME NEW r \in Calls, Deliver(r) PROVE IInv'
    BY <2>12 DEF Deliver, Ends
  <2>13. ASSUME NEW r \in Calls, DeliverFree(r) PROVE IInv'
    BY <2>13 DEF DeliverFree, Ends
  <2>14. ASSUME NEW r \in Calls, HangUp(r) PROVE IInv'
    BY <2>14 DEF HangUp, Ends
  <2>15. ASSUME NEW r \in Calls, HangUpForgiven(r) PROVE IInv'
    BY <2>15 DEF HangUpForgiven, Ends
  <2>16. ASSUME NEW r \in Calls, Fail(r) PROVE IInv'
    BY <2>16 DEF Fail, Ends
  <2>17. ASSUME NEW r \in Calls, Charge(r) PROVE IInv'
    BY <2>17 DEF Charge
  <2>18. ASSUME NEW r \in Calls, RunOver(r) PROVE IInv'
    BY <2>18 DEF RunOver
  <2>19. ASSUME NEW r \in Calls, BeginFails(r) PROVE IInv'
    BY <2>19 DEF BeginFails, ClaimAfterFailure
  <2>20. ASSUME NEW r \in Calls, SettleFails(r) PROVE IInv'
    BY <2>20 DEF SettleFails, MarkLocally, Hold
  <2>21. ASSUME NEW s \in Servers, LocalMarkExpires(s) PROVE IInv'
    BY <2>21 DEF LocalMarkExpires, HoldOver
  <2>22. ASSUME NEW s \in Servers, Crash(s) PROVE IInv'
    BY <2>22 DEF Crash
  <2>23. CASE Lapse
    BY <2>23 DEF Lapse, MidCommand
  <2>24. CASE MarkExpires
    BY <2>24 DEF MarkExpires, HoldOver
  <2>25. CASE ValidityEnds
    BY <2>25 DEF ValidityEnds
  <2>26. ASSUME NEW r \in Calls, RecheckUnheard(r) PROVE IInv'
    BY <2>26 DEF RecheckUnheard
  <2>27. ASSUME NEW r \in Calls, BeginLocalUnheard(r) PROVE IInv'
    BY <2>27 DEF BeginLocalUnheard, ClaimAfterFailure, Serves
  <2>28. ASSUME NEW s \in Servers, RenewalCap(s) PROVE IInv'
    BY <2>28 DEF RenewalCap
  <2> HIDE DEF IInv
  <2>29. QED
    BY <2>1, <2>2, <2>3, <2>4, <2>5, <2>6, <2>7, <2>8, <2>9, <2>10, <2>11, <2>12, <2>13, <2>14, <2>15, <2>16, <2>17, <2>18, <2>19, <2>20, <2>21, <2>22, <2>23, <2>24, <2>25, <2>26, <2>27, <2>28
      DEF Next, Step, End
<1>3. QED
  BY <1>1, <1>2, TypeCorrect, PTL DEF Spec

\* begin, settle and release let one call past the guard at a time, in every
\* interleaving, whatever crashes and whichever store commands fail, but for the
\* runs whose mark a failure lost.
THEOREM OneAtATime == Spec => []OneRunAtATime
<1>1. IInv => OneRunAtATime
  BY DEF IInv
<1>2. QED
  BY <1>1, Inductive, PTL

\* Only Recheck and BeginLocal let a call past the guard, and both find the mark
\* of a granted call or its claim.
THEOREM NoSecondGrant == Spec => GrantedOnce
<1>1. IInv /\ [Next]_vars =>
        [Guarded => \A r \in open' \ open : \A q \in Granted : q \in lost \cup expired]_vars
  <2> SUFFICES ASSUME IInv, Next, Guarded, NEW r \in open' \ open,
                      NEW q \in Granted, q \notin lost, q \notin expired
               PROVE FALSE
    BY DEF vars, run
  <2>1. \E c \in Calls : open' = open \cup {c} /\ (Recheck(c) \/ BeginLocal(c))
    BY DEF Next, Step, End, Begin, TakeClaim, Recheck, Back, BeginLocal, WriteMark, DropClaim,
      SettleLocal, MarkLocally, Release, ReleaseLocal, Deliver, DeliverFree, HangUp,
      HangUpForgiven, Fail, Ends, Charge, RunOver, BeginFails, SettleFails, LocalMarkExpires,
      RecheckUnheard, BeginLocalUnheard, RenewalCap, Crash, Lapse, MarkExpires, ValidityEnds, run
  <2>2. pc[q] = "mark" \/ TheMark # "none"
    BY DEF IInv, Marked
  <2>3. ASSUME NEW c \in Calls, Recheck(c), r \in open' PROVE FALSE
    <3>1. mode = "required" /\ mark = "none" /\ pc[c] = "recheck"
      BY <2>3 DEF Recheck, IInv, NoStore, TypeOK, Guarded
    <3>2. pc[q] = "mark"
      BY <2>2, <3>1 DEF TheMark
    <3>3. claim = q /\ claim = c
      BY <3>1, <3>2 DEF IInv, Claimed, Holding, Granted
    <3> QED
      BY <3>1, <3>2, <3>3
  <2>4. ASSUME NEW c \in Calls, BeginLocal(c), r \in open' PROVE FALSE
    <3>1. mode = "none" /\ localMark[Lone] = "none" /\ Lone \notin flying
      BY <2>4 DEF BeginLocal, Serves, Guarded
    <3>2. pc[q] = "mark"
      BY <2>2, <3>1 DEF TheMark
    <3> QED
      BY <3>1, <3>2 DEF IInv, Alone, Holding, Granted
  <2>5. QED
    BY <2>1, <2>3, <2>4
<1>2. QED
  BY <1>1, Inductive, PTL DEF Spec, GrantedOnce

\* A free grant's mark outlives the authorization, and no other run was past
\* the guard when it was made: nobody is left to charge it.
THEOREM FreeStaysFree == Spec => FreeIsNeverCharged
<1>1. IInv /\ [Next]_vars =>
        [Guarded => \A r \in (charged' \ charged) \ lost :
                      \A q \in Calls : grant[q] = "free" => q \in lost]_vars
  <2> SUFFICES ASSUME IInv, Next, Guarded, NEW r \in (charged' \ charged) \ lost,
                      NEW q \in Calls, grant[q] = "free", q \notin lost
               PROVE FALSE
    BY DEF vars, run
  <2>1. r \in Calls /\ Charge(r)
    BY DEF Next, Step, End, Begin, TakeClaim, Recheck, Back, BeginLocal, WriteMark, DropClaim,
      SettleLocal, MarkLocally, Release, ReleaseLocal, Deliver, DeliverFree, HangUp,
      HangUpForgiven, Fail, Ends, Charge, RunOver, BeginFails, SettleFails, LocalMarkExpires,
      RecheckUnheard, BeginLocalUnheard, RenewalCap, Crash, Lapse, MarkExpires, ValidityEnds, run, IInv, TypeOK
  <2>2. r \in open /\ valid /\ grant[r] # "free"
    BY <2>1 DEF Charge
  <2>3. q = r
    BY <2>1, <2>2 DEF IInv, FreeAlone
  <2> QED
    BY <2>2, <2>3
<1>2. QED
  BY <1>1, Inductive, PTL DEF Spec, FreeIsNeverCharged

------------------------------------------------------------------------------
(* The refinement: ReplayGuard implements OneUse.  A step lets a call in, ends *)
(* or grants its run, charges it, forgets or loses a grant, or is nothing the  *)
(* authorization could tell.                                                   *)

UseNow == <<UsersNow, GrantsNow, FreeNow, LostNow, ChargedNow, valid>>

\* What a guarded process shows of itself.
LEMMA ShownGuarded ==
  ASSUME Guarded
  PROVE  /\ UsersNow = open \ lost
         /\ GrantsNow = Granted \ (lost \cup expired)
         /\ FreeNow = { r \in Granted \ (lost \cup expired) : grant[r] = "free" }
         /\ LostNow = lost /\ ChargedNow = charged
<1>1. UsersNow = open \ lost /\ LostNow = lost /\ ChargedNow = charged
  BY DEF UsersNow, LostNow, ChargedNow
<1>2. GrantsNow = Granted \ (lost \cup expired)
  BY DEF GrantsNow
<1>3. QED
  BY <1>1, <1>2 DEF FreeNow

\* A call that passes the guard finds nobody, and no grant that is remembered.
LEMMA EntersUse ==
  ASSUME IInv, IInv', Guarded, mode' = mode, NEW r \in Calls,
         pc[r] \in {"idle", "recheck"},
         pc[r] = "recheck" => mark = "none" /\ mode = "required",
         pc[r] = "idle" => localMark[Lone] = "none" /\ Lone \notin flying /\ mode = "none",
         open' = open \cup {r}, UNCHANGED <<grant, charged, valid, past>>
  PROVE  Use!Enter(r)
<1>1. Guarded'
  BY DEF Guarded
<1>2. r \notin Granted /\ r \notin lost /\ r \notin open
  BY DEF IInv, Grants, TypeOK
<1>3. lost' = lost /\ expired' = expired /\ Granted' = Granted
  BY DEF past, Granted
<1>4. open \ lost = {}
  <2>1. \A p, q \in open' \ lost : p = q
    BY <1>1, <1>3 DEF IInv, OneRunAtATime
  <2>2. QED
    BY <1>2, <2>1
<1>5. ASSUME NEW q \in Granted, q \notin lost, q \notin expired PROVE FALSE
  <2>1. pc[q] = "mark"
    BY <1>5 DEF IInv, Marked, TheMark
  <2>2. q # r
    BY <1>2
  <2>3. CASE mode = "required"
    BY <2>1, <2>2, <2>3 DEF IInv, Claimed, Holding, Granted
  <2>4. CASE mode = "none"
    BY <2>1, <2>4 DEF IInv, Alone, Holding, Granted
  <2>5. QED
    BY <2>3, <2>4
<1>6. Granted \ (lost \cup expired) = {}
  BY <1>5
<1>7. /\ UsersNow = {} /\ GrantsNow = {}
      /\ UsersNow' = {r} /\ UNCHANGED <<GrantsNow, FreeNow, LostNow, ChargedNow, valid>>
  BY <1>1, <1>2, <1>3, <1>4, <1>6, ShownGuarded DEF UsersNow, GrantsNow, FreeNow, LostNow, ChargedNow
<1>8. QED
  BY <1>7 DEF Use!Enter

\* The end of a run that is answered, or that its client left.
LEMMA GrantsUse ==
  ASSUME IInv, Guarded, mode' = mode, NEW r \in Calls, pc[r] = "running",
         NEW how \in {"settled", "owed", "free"}, how = "free" => r \notin charged,
         grant' = [grant EXCEPT ![r] = how],
         open' = open \/ open' = open \ {r},
         UNCHANGED <<charged, valid, past>>
  PROVE  Use!Grant(r)
<1>1. Guarded'
  BY DEF Guarded
<1>2. r \in open /\ r \notin Granted /\ r \notin lost /\ r \notin expired
  BY DEF IInv, Grants
<1>3. lost' = lost /\ expired' = expired /\ charged' = charged /\ valid' = valid
  BY DEF past
<1>4. grant'[r] = how /\ \A q \in Calls : q # r => grant'[q] = grant[q]
  BY DEF IInv, TypeOK
<1>5. Granted' = Granted \cup {r}
  BY <1>4 DEF Granted
<1>6. /\ UsersNow = open \ lost /\ GrantsNow = Granted \ (lost \cup expired) /\ ChargedNow = charged
      /\ UsersNow' = open' \ lost /\ GrantsNow' = (Granted \cup {r}) \ (lost \cup expired)
      /\ LostNow' = LostNow /\ ChargedNow' = ChargedNow
  BY <1>1, <1>3, <1>5 DEF UsersNow, GrantsNow, LostNow, ChargedNow
<1>7. GrantsNow' = GrantsNow \cup {r} /\ r \notin GrantsNow
  BY <1>2, <1>6
<1>8. UsersNow' \in {UsersNow, UsersNow \ {r}} /\ r \in UsersNow
  BY <1>2, <1>6
<1>9. \/ FreeNow' = FreeNow
      \/ how = "free" /\ FreeNow' = FreeNow \cup {r}
  <2>1. GrantsNow \subseteq Calls
    BY DEF GrantsNow, Granted
  <2>2. CASE how = "free"
    BY <1>4, <1>7, <2>1, <2>2 DEF FreeNow
  <2>3. CASE how # "free"
    BY <1>4, <1>7, <2>1, <2>3 DEF FreeNow
  <2>4. QED
    BY <2>2, <2>3
<1>10. QED
  BY <1>3, <1>6, <1>7, <1>8, <1>9 DEF Use!Grant

\* A mark that has run its time forgets every grant, when nobody runs.
LEMMA ForgetsUse ==
  ASSUME IInv, Guarded, mode' = mode, HoldOver(TheMark),
         \A r \in Calls : pc[r] # "mark",
         expired' = expired \cup Granted, lost' = lost, UNCHANGED run
  PROVE  Use!Forget
<1>1. Guarded'
  BY DEF Guarded
<1>2. /\ open' = open /\ grant' = grant /\ charged' = charged /\ valid' = valid
      /\ Granted' = Granted /\ open = {}
  BY DEF run, Granted, HoldOver
<1>3. UsersNow = {} /\ UsersNow' = {} /\ GrantsNow' = {} /\ FreeNow' = {}
  BY <1>2 DEF UsersNow, GrantsNow, FreeNow
<1>4. LostNow' = LostNow /\ ChargedNow' = ChargedNow
  BY <1>1, <1>2 DEF LostNow, ChargedNow
<1>5. FreeNow # {} => ~valid
  BY ShownGuarded DEF IInv, Marked, HoldOver, Granted
<1>6. QED
  BY <1>2, <1>3, <1>4, <1>5 DEF Use!Forget

\* A failure, or a crash, that loses some grants and ends some runs.
LEMMA LosesUse ==
  ASSUME TypeOK, Guarded, mode' = mode, Outages \/ Crashes,
         NEW here, NEW gone \in SUBSET Calls,
         open' = open \ here, lost' = lost \cup gone,
         UNCHANGED <<grant, charged, valid, expired>>
  PROVE  Use!Lose
<1>1. Guarded' /\ Granted' = Granted
  BY DEF Guarded, Granted
<1>2. UsersNow = open \ lost /\ UsersNow' = (open \ here) \ (lost \cup gone)
  BY <1>1 DEF UsersNow
<1>3. UsersNow' = UsersNow \ ((UsersNow \cap here) \cup gone)
  BY <1>2
<1>4. GrantsNow' = GrantsNow \ gone
  BY <1>1 DEF GrantsNow
<1>5. FreeNow' = FreeNow \ gone
  BY <1>4 DEF FreeNow
<1>6. LostNow' = LostNow \cup gone /\ ChargedNow' = ChargedNow
  BY <1>1 DEF LostNow, ChargedNow
<1>7. QED
  BY <1>3, <1>4, <1>5, <1>6 DEF Use!Lose

\* No step changes the mode; most say nothing of the authorization, and only a
\* guarded call is let in where the mark and the claim are read.
LEMMA ModeStays ==
  ASSUME [Next]_vars
  PROVE  mode' = mode
BY DEF vars, Next, Step, End, Begin, TakeClaim, Recheck, Back, BeginLocal, WriteMark, DropClaim,
  SettleLocal, MarkLocally, Release, ReleaseLocal, Deliver, DeliverFree, HangUp,
  HangUpForgiven, Fail, Ends, Charge, RunOver, BeginFails, SettleFails, LocalMarkExpires,
  RecheckUnheard, BeginLocalUnheard, RenewalCap, Crash, Lapse, MarkExpires, ValidityEnds

LEMMA SilentSteps ==
  ASSUME UNCHANGED <<mode, open, grant, charged, valid, past>>
  PROVE  UNCHANGED UseNow
<1>1. Guarded' = Guarded /\ Granted' = Granted /\ lost' = lost /\ expired' = expired
  BY DEF Guarded, Granted, past
<1>2. UsersNow' = UsersNow /\ LostNow' = LostNow /\ ChargedNow' = ChargedNow /\ GrantsNow' = GrantsNow
  BY <1>1 DEF UsersNow, LostNow, ChargedNow, GrantsNow
<1>3. FreeNow' = FreeNow
  BY <1>2 DEF FreeNow
<1>4. QED
  BY <1>2, <1>3 DEF UseNow

LEMMA StepsAsUse ==
  ASSUME IInv, IInv', [Next]_vars
  PROVE  Use!Next \/ UNCHANGED UseNow
<1>1. mode' = mode
  BY ModeStays
<1>2. CASE ~Guarded
  <2>1. ~Guarded'
    BY <1>1, <1>2 DEF Guarded
  <2>2. UNCHANGED <<UsersNow, GrantsNow, FreeNow, LostNow, ChargedNow>>
    BY <1>2, <2>1 DEF UsersNow, GrantsNow, FreeNow, LostNow, ChargedNow
  <2>3. valid' = valid \/ (valid /\ valid' = FALSE)
    BY DEF vars, Next, Step, End, Begin, TakeClaim, Recheck, Back, BeginLocal, WriteMark, DropClaim,
      SettleLocal, MarkLocally, Release, ReleaseLocal, Deliver, DeliverFree, HangUp,
      HangUpForgiven, Fail, Ends, Charge, RunOver, BeginFails, SettleFails, LocalMarkExpires,
      RecheckUnheard, BeginLocalUnheard, RenewalCap, Crash, Lapse, MarkExpires, ValidityEnds, run
  <2>4. QED
    BY <2>2, <2>3 DEF UseNow, Use!Next, Use!Expire
<1>3. CASE Guarded
  <2>1. CASE UNCHANGED vars
    BY <2>1, SilentSteps DEF vars, run
  <2>2. ASSUME NEW r \in Calls,
               \/ Begin(r) \/ TakeClaim(r) \/ Back(r) \/ WriteMark(r) \/ DropClaim(r)
               \/ SettleLocal(r) \/ Release(r) \/ ReleaseLocal(r) \/ BeginFails(r)
               \/ RecheckUnheard(r) \/ BeginLocalUnheard(r)
        PROVE  UNCHANGED UseNow
    BY <2>2, SilentSteps DEF Begin, TakeClaim, Back, WriteMark, DropClaim, SettleLocal, MarkLocally,
      Release, ReleaseLocal, BeginFails, RecheckUnheard, BeginLocalUnheard, run, past
  <2>3. ASSUME NEW r \in Calls, Recheck(r) PROVE Use!Next \/ UNCHANGED UseNow
    <3>1. CASE mark = "none"
      <4>1. /\ pc[r] = "recheck" /\ mode = "required" /\ open' = open \cup {r}
            /\ UNCHANGED <<grant, charged, valid, past>>
        BY <1>3, <2>3, <3>1 DEF Recheck, IInv, NoStore, Guarded, TypeOK
      <4>2. QED
        BY <1>1, <1>3, <3>1, <4>1, EntersUse DEF Use!Next
    <3>2. CASE mark # "none"
      BY <1>1, <2>3, <3>2, SilentSteps DEF Recheck
    <3>3. QED
      BY <3>1, <3>2
  <2>4. ASSUME NEW r \in Calls, BeginLocal(r) PROVE Use!Next \/ UNCHANGED UseNow
    <3>1. pc[r] = "idle" /\ mode = "none" /\ ServerOf[r] = Lone
      BY <1>3, <2>4 DEF BeginLocal, Guarded, Serves
    <3>2. CASE localMark[Lone] = "none" /\ Lone \notin flying
      <4>1. open' = open \cup {r} /\ UNCHANGED <<grant, charged, valid, past>>
        BY <2>4, <3>1, <3>2 DEF BeginLocal
      <4>2. QED
        BY <1>1, <1>3, <3>1, <3>2, <4>1, EntersUse DEF Use!Next
    <3>3. CASE ~(localMark[Lone] = "none" /\ Lone \notin flying)
      BY <1>1, <2>4, <3>1, <3>3, SilentSteps DEF BeginLocal
    <3>4. QED
      BY <3>2, <3>3
  <2>5. ASSUME NEW r \in Calls, Deliver(r) \/ DeliverFree(r) \/ HangUp(r) \/ HangUpForgiven(r)
        PROVE  Use!Next
    <3>1. PICK how \in {"settled", "owed", "free"} :
            /\ how = "free" => r \notin charged
            /\ grant' = [grant EXCEPT ![r] = how]
      BY <2>5 DEF Deliver, DeliverFree, HangUp, HangUpForgiven
    <3>2. /\ pc[r] = "running" /\ UNCHANGED <<charged, valid, past>>
          /\ open' = open \/ open' = open \ {r}
      BY <2>5 DEF Deliver, DeliverFree, HangUp, HangUpForgiven, Ends
    <3>3. QED
      BY <1>1, <1>3, <3>1, <3>2, GrantsUse DEF Use!Next
  <2>6. ASSUME NEW r \in Calls, Fail(r) \/ RunOver(r) PROVE Use!Next \/ UNCHANGED UseNow
    <3>1. open' = open \ {r} /\ r \in open /\ UNCHANGED <<grant, charged, valid, past>>
      BY <2>6 DEF Fail, Ends, RunOver, IInv, Grants
    <3>2. Guarded' /\ Granted' = Granted /\ lost' = lost /\ expired' = expired
      BY <1>1, <1>3, <3>1 DEF Guarded, Granted, past
    <3>3. GrantsNow' = GrantsNow /\ LostNow' = LostNow /\ ChargedNow' = ChargedNow
      BY <1>3, <3>1, <3>2 DEF GrantsNow, LostNow, ChargedNow
    <3>4. FreeNow' = FreeNow
      BY <3>1, <3>3 DEF FreeNow
    <3>5. UsersNow = open \ lost /\ UsersNow' = UsersNow \ {r}
      BY <1>3, <3>1, <3>2 DEF UsersNow
    <3>6. CASE r \in lost
      BY <3>1, <3>3, <3>4, <3>5, <3>6 DEF UseNow
    <3>7. CASE r \notin lost
      BY <3>1, <3>3, <3>4, <3>5, <3>7 DEF Use!Next, Use!Leave
    <3>8. QED
      BY <3>6, <3>7
  <2>7. ASSUME NEW r \in Calls, Charge(r) PROVE Use!Next
    <3>1. /\ r \in open /\ grant[r] # "free" /\ charged = {} /\ valid /\ charged' = {r}
          /\ UNCHANGED <<open, grant, valid, past>>
      BY <2>7 DEF Charge
    <3>2. Guarded' /\ Granted' = Granted /\ lost' = lost /\ expired' = expired
      BY <1>1, <1>3, <3>1 DEF Guarded, Granted, past
    <3>3. GrantsNow' = GrantsNow /\ LostNow' = LostNow /\ UsersNow' = UsersNow
      BY <1>3, <3>1, <3>2 DEF GrantsNow, LostNow, UsersNow
    <3>4. FreeNow' = FreeNow /\ r \notin FreeNow
      BY <3>1, <3>3 DEF FreeNow
    <3>5. r \in UsersNow \cup LostNow /\ ChargedNow = {} /\ ChargedNow' = {r}
      BY <1>3, <3>1, <3>2 DEF UsersNow, LostNow, ChargedNow
    <3>6. QED
      BY <3>1, <3>3, <3>4, <3>5 DEF Use!Next, Use!Charge
  <2>8. ASSUME NEW r \in Calls, SettleFails(r) PROVE Use!Next \/ UNCHANGED UseNow
    <3>1. /\ Outages
          /\ lost' = lost \/ lost' = lost \cup {r}
          /\ open' = open \ {} /\ UNCHANGED <<grant, charged, valid, expired>>
      BY <2>8 DEF SettleFails, MarkLocally, run
    <3>2. CASE lost' = lost
      BY <1>1, <3>1, <3>2, SilentSteps DEF past
    <3>3. CASE lost' = lost \cup {r}
      <4> DEFINE here == {}
                 gone == {r}
      <4>1. gone \in SUBSET Calls /\ open' = open \ here /\ lost' = lost \cup gone
        BY <3>1, <3>3
      <4> HIDE DEF here, gone
      <4>2. QED
        BY <1>1, <1>3, <3>1, <4>1, LosesUse DEF Use!Next, IInv
    <3>4. QED
      BY <3>1, <3>2, <3>3
  <2>9. ASSUME NEW s \in Servers, Crash(s) PROVE Use!Next
    <3> DEFINE here == { r \in Calls : ServerOf[r] = s }
               gone == { r \in here \cap Granted : mode = "none" \/ pc[r] = "mark" }
    <3>1. /\ Crashes /\ open' = open \ here /\ lost' = lost \cup gone
          /\ UNCHANGED <<grant, charged, valid, expired>>
      BY <2>9 DEF Crash
    <3>2. gone \in SUBSET Calls
      OBVIOUS
    <3> HIDE DEF here, gone
    <3>3. QED
      BY <1>1, <1>3, <3>1, <3>2, LosesUse DEF Use!Next, IInv
  <2>10. ASSUME NEW s \in Servers, LocalMarkExpires(s) PROVE Use!Next \/ UNCHANGED UseNow
    <3>1. CASE mode = "none"
      <4>1. s = Lone
        BY <2>10, <3>1 DEF LocalMarkExpires, HoldOver, IInv, NoStore
      <4>2. QED
        BY <1>1, <1>3, <2>10, <3>1, <4>1, ForgetsUse DEF LocalMarkExpires, TheMark, Use!Next
    <3>2. CASE mode # "none"
      BY <2>10, <3>2, SilentSteps DEF LocalMarkExpires, run, past
    <3>3. QED
      BY <3>1, <3>2
  <2>11. CASE MarkExpires
    <3>1. mode # "none"
      BY <2>11 DEF MarkExpires, HoldOver, IInv, NoStore
    <3>2. QED
      BY <1>1, <1>3, <2>11, <3>1, ForgetsUse DEF MarkExpires, TheMark, Use!Next
  <2>12. ASSUME NEW s \in Servers, RenewalCap(s) PROVE UNCHANGED UseNow
    BY <2>12, SilentSteps DEF RenewalCap, run
  <2>13. CASE Lapse
    BY <2>13, SilentSteps DEF Lapse, run
  <2>14. CASE ValidityEnds
    <3>1. valid /\ valid' = FALSE /\ UNCHANGED <<open, grant, charged, past>>
      BY <2>14 DEF ValidityEnds
    <3>2. Guarded' /\ Granted' = Granted /\ lost' = lost /\ expired' = expired
      BY <1>1, <1>3, <3>1 DEF Guarded, Granted, past
    <3>3. UNCHANGED <<UsersNow, GrantsNow, LostNow, ChargedNow>>
      BY <1>3, <3>1, <3>2 DEF UsersNow, GrantsNow, LostNow, ChargedNow
    <3>4. FreeNow' = FreeNow
      BY <3>1, <3>3 DEF FreeNow
    <3>5. QED
      BY <3>1, <3>3, <3>4 DEF Use!Next, Use!Expire
  <2>15. QED
    BY <2>1, <2>2, <2>3, <2>4, <2>5, <2>6, <2>7, <2>8, <2>9, <2>10, <2>11, <2>12, <2>13, <2>14
      DEF Next, Step, End
<1>4. QED
  BY <1>2, <1>3

\* The guard of several processes, with its store, its fallback, its renewals and
\* its crashes, lets an authorization be used as OneUse says.
THEOREM Implementation == Spec => ImplementsOneUse
<1>1. Init => Use!Init
  BY DEF Init, Use!Init, UsersNow, GrantsNow, FreeNow, LostNow, ChargedNow, Granted
<1>2. QED
  BY <1>1, Inductive, StepsAsUse, PTL DEF Spec, ImplementsOneUse, Use!Spec, UseNow, Use!use

============================================================================
