------------------------- MODULE CreditsClaimProofs -------------------------
(***************************************************************************)
(* Proofs about CreditsClaim, for any sessions, claims, servers and packs. *)
(*                                                                         *)
(* The inductive invariants, over the types.  Indexed: a key the index     *)
(* carries is its session's only one, its record is there, and its claim   *)
(* is past the orphan's delete.  Refusals: a session is being refunded by  *)
(* one claim at most, while its outcome stays pending.  These two make     *)
(* CreditsClaim implement PackPurchase.  Lines: the claims in a process's  *)
(* line are the chained ones, once each, and one that had its turn is the  *)
(* first of its key.  Locked: a guarded claim holds the locks of all its   *)
(* buyer's keys.  Budget: one that decided still has room for its pack     *)
(* under each of them, because whoever is issued a key for one of them     *)
(* holds that lock too.                                                    *)
(***************************************************************************)
EXTENDS CreditsClaim, TotalsTheorems

------------------------------------------------------------------------------
(* The inductive invariants *)

Written ==
  /\ \A cl \in issued : /\ cl \in rows /\ outcome[SessionOf[cl]] = "minted"
                        /\ pc[cl] \in {"unlock", "done", "dead"}
  /\ \A cl \in Claims : pc[cl] = "index" => cl \in rows

OneIssued ==
  /\ \A c, d \in issued : SessionOf[c] = SessionOf[d] => c = d
  /\ \A s \in Sessions : outcome[s] = "minted" => \E cl \in issued : SessionOf[cl] = s

Indexed == Written /\ OneIssued

\* The claims that refused their session and have not recorded its refund.
Refunding == { cl \in Claims : pc[cl] \in {"refund", "recordYes", "recordNo"} }

OneRefunds ==
  /\ \A cl \in Refunding : outcome[SessionOf[cl]] = "pending"
  /\ \A c, d \in Refunding : SessionOf[c] = SessionOf[d] => c = d

Seen ==
  \A cl \in Claims : /\ pc[cl] = "recordYes" \/ sawBack[cl] => SessionOf[cl] \in returned
                     /\ pc[cl] = "refuseRefunded" => sawBack[cl]

Refunds ==
  \A s \in Sessions :
    /\ refunds[s] > 0 => /\ refunds[s] = 1 /\ s \in returned
                         /\ outcome[s] \in {"pending", "refunded", "failed"}
    /\ outcome[s] = "refunded" => s \in returned

Refusals == OneRefunds /\ Seen /\ Refunds

\* The places of a claim in its process's chain, and of one whose turn it is.
Chained == Places \ {"idle", "buyer", "done", "dead"}
Turn    == Chained \ {"chain"}

\* A line has its claims once each; one of them is the first of its key.
Members(line)  == { line[i] : i \in 1 .. Len(line) }
Distinct(line) == \A i, j \in 1 .. Len(line) : line[i] = line[j] => i = j

First(line, key, cl) ==
  \A i \in 1 .. Len(line) :
    line[i] # cl /\ key[line[i]] = key[cl] => \E j \in 1 .. i : line[j] = cl

FirstKeys == [cl \in Claims |-> FirstKey(cl)]

Lines ==
  /\ \A p \in Servers : /\ Distinct(chain[p])
                        /\ Members(chain[p]) = { cl \in Claims : pc[cl] \in Chained /\ ServerOf[cl] = p }
  /\ \A cl \in Claims : pc[cl] \in Turn => First(chain[ServerOf[cl]], FirstKeys, cl)

\* The claims that decide under the shared locks of all their keys.
Guarded == { cl \in Claims \ unguarded : pc[cl] \in {"recheck", "decide", "insert", "index"} }

Locked ==
  /\ \A cl \in Guarded : \A k \in KeysOf(cl) : lock[k] = cl
  /\ \A cl \in Claims \ unguarded : pc[cl] = "lockEmail" => lock[FirstKey(cl)] = cl

PackOf == [r \in Claims |-> Pack[SessionOf[r]]]

\* The issued keys of a buyer key, the unguarded ones aside.
IssuedFor(k) == { r \in issued \ unguarded : Carries(r, k) }

\* The ones of other sessions than the claim's.
OthersFor(cl, k) == { r \in IssuedFor(k) : SessionOf[r] # SessionOf[cl] }

Budget ==
  /\ DailyLimit
  /\ \A cl \in Guarded : pc[cl] \in {"insert", "index"} =>
       \A k \in KeysOf(cl) : Total(PackOf, OthersFor(cl, k)) + Pack[SessionOf[cl]] <= DailyMax

USE ClaimAssumption

------------------------------------------------------------------------------
(* Lines *)

\* A line of claims that loses one is a line of claims.
LEMMA WithoutTyped ==
  ASSUME NEW line \in Seq(Claims), NEW cl
  PROVE  Without(line, cl) \in Seq(Claims)
<1> DEFINE at == CHOOSE i \in 1 .. Len(line) : line[i] = cl
           w  == [i \in 1 .. Len(line) - 1 |-> line[IF i < at THEN i ELSE i + 1]]
<1>1. Without(line, cl) = w
  BY DEF Without
<1> HIDE DEF at
<1>2. CASE Len(line) = 0
  BY <1>1, <1>2
<1>3. CASE Len(line) # 0
  BY <1>1, <1>3
<1>4. QED
  BY <1>2, <1>3

\* A claim that joins a line is last in it.
LEMMA Appended ==
  ASSUME NEW line \in Seq(Claims), NEW e \in Claims, Distinct(line), e \notin Members(line)
  PROVE  /\ Members(Append(line, e)) = Members(line) \cup {e}
         /\ Distinct(Append(line, e))
<1> DEFINE n   == Len(line)
           all == Append(line, e)
<1>1. /\ n \in Nat /\ Len(all) = n + 1 /\ all[n + 1] = e
      /\ \A i \in 1 .. n : all[i] = line[i]
      /\ 1 .. n + 1 = (1 .. n) \cup {n + 1}
  OBVIOUS
<1> HIDE DEF n, all
<1>2. \A i \in 1 .. n : line[i] # e
  BY DEF Members, n
<1>3. Members(all) = Members(line) \cup {e}
  <2>1. Members(all) = { all[i] : i \in 1 .. n + 1 } /\ Members(line) = { line[i] : i \in 1 .. n }
    BY <1>1 DEF Members, n
  <2>2. \A i \in 1 .. n : line[i] \in { all[j] : j \in 1 .. n + 1 }
    BY <1>1
  <2>3. e \in { all[j] : j \in 1 .. n + 1 }
    BY <1>1
  <2>4. \A i \in 1 .. n + 1 : all[i] \in { line[j] : j \in 1 .. n } \cup {e}
    BY <1>1
  <2>5. { all[i] : i \in 1 .. n + 1 } = { line[i] : i \in 1 .. n } \cup {e}
    BY <2>2, <2>3, <2>4
  <2>6. QED
    BY <2>1, <2>5
<1>4. Distinct(all)
  <2> SUFFICES ASSUME NEW i \in 1 .. n + 1, NEW j \in 1 .. n + 1, all[i] = all[j] PROVE i = j
    BY <1>1 DEF Distinct
  <2>1. CASE i \in 1 .. n /\ j \in 1 .. n
    BY <1>1, <2>1 DEF Distinct, n
  <2>2. CASE i = n + 1 \/ j = n + 1
    BY <1>1, <1>2, <2>2
  <2>3. QED
    BY <1>1, <2>1, <2>2
<1>5. QED
  BY <1>3, <1>4 DEF all

\* The first of its key is so whatever becomes of the keys of other lines.
LEMMA SameFirst ==
  ASSUME NEW line, NEW key, NEW new, NEW cl,
         First(line, key, cl), cl \in Members(line), \A d \in Members(line) : new[d] = key[d]
  PROVE  First(line, new, cl)
<1>1. \A i \in 1 .. Len(line) : new[line[i]] = key[line[i]]
  BY DEF Members
<1>2. new[cl] = key[cl]
  OBVIOUS
<1>3. QED
  BY <1>1, <1>2 DEF First

\* Who was first of its key in the line still is.
LEMMA StillFirst ==
  ASSUME NEW line \in Seq(Claims), NEW e \in Claims, NEW key, NEW new, NEW cl,
         First(line, key, cl), cl \in Members(line), \A d \in Members(line) : new[d] = key[d]
  PROVE  First(Append(line, e), new, cl)
<1> DEFINE n   == Len(line)
           all == Append(line, e)
<1>1. /\ n \in Nat /\ Len(all) = n + 1 /\ all[n + 1] = e
      /\ \A i \in 1 .. n : all[i] = line[i]
      /\ 1 .. n + 1 = (1 .. n) \cup {n + 1}
  OBVIOUS
<1> HIDE DEF n, all
<1> SUFFICES ASSUME NEW i \in 1 .. n + 1, all[i] # cl, new[all[i]] = new[cl]
             PROVE  \E j \in 1 .. i : all[j] = cl
  BY <1>1 DEF First, all
<1>2. PICK k \in 1 .. n : line[k] = cl
  BY DEF Members, n
<1>3. CASE i = n + 1
  BY <1>1, <1>2, <1>3
<1>4. CASE i \in 1 .. n
  <2>1. line[i] \in Members(line) /\ line[i] # cl /\ key[line[i]] = key[cl]
    BY <1>1, <1>4 DEF Members, n
  <2>2. PICK j \in 1 .. i : line[j] = cl
    BY <1>4, <2>1 DEF First, n
  <2>3. j \in 1 .. n
    BY <1>1, <1>4
  <2>4. QED
    BY <1>1, <2>2, <2>3
<1>5. QED
  BY <1>1, <1>3, <1>4

\* A claim that leaves a line leaves the others in their order.
LEMMA Removed ==
  ASSUME NEW line \in Seq(Claims), NEW e \in Members(line), Distinct(line)
  PROVE  /\ Members(Without(line, e)) = Members(line) \ {e}
         /\ Distinct(Without(line, e))
         /\ \A key, cl : First(line, key, cl) /\ cl \in Members(line) \ {e}
                         => First(Without(line, e), key, cl)
<1>1. PICK k \in 1 .. Len(line) : line[k] = e
  BY DEF Members
<1> DEFINE n    == Len(line)
           at   == CHOOSE i \in 1 .. Len(line) : line[i] = e
           rest == Without(line, e)
           P(i) == IF i < k THEN i ELSE i + 1
<1>2. at = k
  BY <1>1 DEF Distinct
<1>3. rest = [i \in 1 .. n - 1 |-> line[P(i)]]
  BY <1>2 DEF Without
<1>4. rest \in Seq(Claims)
  BY WithoutTyped
<1>5. n \in Nat /\ n >= 1 /\ k \in 1 .. n
  BY <1>1
<1> HIDE DEF at, rest, n
<1>6. Len(rest) = n - 1 /\ \A i \in 1 .. n - 1 : rest[i] = line[P(i)]
  BY <1>3, <1>4, <1>5
<1>7. \A i \in 1 .. n - 1 : P(i) \in 1 .. n /\ P(i) # k
  BY <1>5
<1>8. \A i \in 1 .. n : i # k => \E j \in 1 .. n - 1 : P(j) = i /\ j <= i
  <2> SUFFICES ASSUME NEW i \in 1 .. n, i # k PROVE \E j \in 1 .. n - 1 : P(j) = i /\ j <= i
    OBVIOUS
  <2>1. CASE i < k
    <3>1. i \in 1 .. n - 1 /\ P(i) = i
      BY <1>5, <2>1
    <3>2. QED
      BY <3>1
  <2>2. CASE i > k
    <3>1. i - 1 \in 1 .. n - 1 /\ P(i - 1) = i /\ i - 1 <= i
      BY <1>5, <2>2
    <3>2. QED
      BY <3>1
  <2>3. QED
    BY <1>5, <2>1, <2>2
<1>9. \A i, j \in 1 .. n - 1 : (P(i) = P(j) => i = j) /\ (P(i) <= P(j) => i <= j)
  BY <1>5
<1>10. \A i \in 1 .. n : line[i] = e => i = k
  BY <1>1 DEF Distinct, n
<1> HIDE DEF P
<1>11. Members(rest) = Members(line) \ {e}
  <2>1. \A i \in 1 .. n - 1 : rest[i] \in Members(line) \ {e}
    BY <1>6, <1>7, <1>10 DEF Members, n
  <2>2. ASSUME NEW x \in Members(line), x # e PROVE x \in Members(rest)
    <3>1. PICK i \in 1 .. n : line[i] = x
      BY DEF Members, n
    <3>2. PICK j \in 1 .. n - 1 : P(j) = i
      BY <1>1, <1>8, <2>2, <3>1
    <3>3. QED
      BY <1>6, <3>1, <3>2 DEF Members
  <2>3. Members(rest) = { rest[i] : i \in 1 .. n - 1 }
    BY <1>6 DEF Members
  <2>4. QED
    BY <2>1, <2>2, <2>3
<1>12. Distinct(rest)
  BY <1>6, <1>7, <1>9 DEF Distinct, n
<1>13. ASSUME NEW key, NEW cl \in Members(line) \ {e}, First(line, key, cl)
       PROVE  First(rest, key, cl)
  <2> SUFFICES ASSUME NEW i \in 1 .. n - 1, rest[i] # cl, key[rest[i]] = key[cl]
               PROVE  \E j \in 1 .. i : rest[j] = cl
    BY <1>6 DEF First
  <2>1. PICK j \in 1 .. P(i) : line[j] = cl
    BY <1>6, <1>7, <1>13 DEF First, n
  <2>2. j \in 1 .. n /\ j # k
    BY <1>1, <1>5, <1>7, <1>13, <2>1
  <2>3. PICK h \in 1 .. n - 1 : P(h) = j
    BY <1>8, <2>2
  <2>4. P(h) <= P(i)
    BY <1>5, <1>7, <2>1, <2>3
  <2>5. h \in 1 .. i
    BY <1>9, <2>4
  <2>6. rest[h] = cl
    BY <1>6, <2>1, <2>3
  <2>7. QED
    BY <2>5, <2>6
<1>14. QED
  BY <1>11, <1>12, <1>13 DEF rest

\* The write of the index by a claim whose session is not decided yet.
LEMMA IndexWritten ==
  ASSUME TypeOK, NEW cl \in Claims, NEW value, NEW won, NEW lost,
         ClaimIndex(cl, value, won, lost), outcome[SessionOf[cl]] = "none"
  PROVE  /\ outcome'[SessionOf[cl]] = value
         /\ \A s \in Sessions : s # SessionOf[cl] => outcome'[s] = outcome[s]
         /\ pc'[cl] = won
         /\ \A d \in Claims : d # cl => pc'[d] = pc[d]
BY DEF ClaimIndex, Goto, TypeOK

\* A claim whose session was decided by another leaves the index alone.
LEMMA IndexKept ==
  ASSUME NEW cl \in Claims, NEW value, NEW won, NEW lost,
         ClaimIndex(cl, value, won, lost), outcome[SessionOf[cl]] # "none"
  PROVE  UNCHANGED outcome /\ pc' = [pc EXCEPT ![cl] = lost]
BY DEF ClaimIndex, Goto

------------------------------------------------------------------------------
(* Types *)

\* Every variable keeps its type.
THEOREM TypeCorrect == Spec => []TypeOK
<1>1. Init => TypeOK
  BY RefundAssumption DEF Init, TypeOK, Outcomes, Places
<1>2. TypeOK /\ [Next]_vars => TypeOK'
  <2> SUFFICES ASSUME TypeOK, [Next]_vars PROVE TypeOK'
    OBVIOUS
  <2> USE WithoutTyped DEF TypeOK, vars, store, stripe, seen, locks, Goto, Outcomes, Places, ClaimIndex, SetRefusal, Freed
  <2>1. CASE UNCHANGED vars
    BY <2>1 DEF vars
  <2>2. ASSUME NEW cl \in Claims, Begin(cl) PROVE TypeOK'
    BY <2>2 DEF Begin
  <2>3. ASSUME NEW cl \in Claims, NEW reads \in BOOLEAN, ReadBuyer(cl, reads) PROVE TypeOK'
    BY <2>3 DEF ReadBuyer
  <2>4. ASSUME NEW cl \in Claims, EnterChain(cl) PROVE TypeOK'
    BY <2>4 DEF EnterChain
  <2>5. ASSUME NEW cl \in Claims, TakeLock(cl) PROVE TypeOK'
    BY <2>5 DEF TakeLock
  <2>6. ASSUME NEW cl \in Claims, GiveUpLock(cl) PROVE TypeOK'
    BY <2>6 DEF GiveUpLock
  <2>7. ASSUME NEW cl \in Claims, Recheck(cl) PROVE TypeOK'
    BY <2>7 DEF Recheck
  <2>8. ASSUME NEW cl \in Claims, Decide(cl) PROVE TypeOK'
    BY <2>8 DEF Decide
  <2>9. ASSUME NEW cl \in Claims, InsertKey(cl) PROVE TypeOK'
    BY <2>9 DEF InsertKey
  <2>10. ASSUME NEW cl \in Claims, MintKey(cl) PROVE TypeOK'
    BY <2>10 DEF MintKey
  <2>11. ASSUME NEW cl \in Claims, DropOrphan(cl) PROVE TypeOK'
    BY <2>11 DEF DropOrphan
  <2>12. ASSUME NEW cl \in Claims, Refuse(cl) PROVE TypeOK'
    BY <2>12 DEF Refuse
  <2>13. ASSUME NEW cl \in Claims, RefuseRefunded(cl) PROVE TypeOK'
    BY <2>13 DEF RefuseRefunded
  <2>14. ASSUME NEW cl \in Claims, MakeRefund(cl) PROVE TypeOK'
    <3>1. CASE UNCHANGED stripe /\ Goto(cl, "recordNo")
      BY <2>14, <3>1 DEF MakeRefund
    <3>2. ASSUME NEW place \in {"recordYes", "recordNo"},
                 /\ SessionOf[cl] \notin returned
                 /\ returned' = returned \cup {SessionOf[cl]}
                 /\ refunds' = [refunds EXCEPT ![SessionOf[cl]] = @ + 1]
                 /\ Goto(cl, place)
          PROVE  TypeOK'
      <4>1. CASE place = "recordYes"
        BY <2>14, <3>2, <4>1 DEF MakeRefund
      <4>2. CASE place = "recordNo"
        BY <2>14, <3>2, <4>2 DEF MakeRefund
      <4>3. QED
        BY <4>1, <4>2
    <3>3. QED
      BY <2>14, <3>1, <3>2 DEF MakeRefund
  <2>15. ASSUME NEW cl \in Claims, RecordRefund(cl) PROVE TypeOK'
    BY <2>15 DEF RecordRefund
  <2>16. ASSUME NEW cl \in Claims, Unlock(cl) PROVE TypeOK'
    BY <2>16 DEF Unlock
  <2>17. ASSUME NEW cl \in Claims, LockExpires(cl) PROVE TypeOK'
    BY <2>17 DEF LockExpires
  <2>18. ASSUME NEW p \in Servers, Crash(p) PROVE TypeOK'
    BY <2>18 DEF Crash, AtWork
  <2>19. ASSUME NEW s \in Sessions, RefundByHand(s) PROVE TypeOK'
    BY <2>19 DEF RefundByHand, SetRefusal, ToRefund
  <2>20. QED
    BY <2>1, <2>2, <2>3, <2>4, <2>5, <2>6, <2>7, <2>8, <2>9, <2>10, <2>11, <2>12, <2>13, <2>14, <2>15, <2>16, <2>17, <2>18, <2>19 DEF Next, ClaimStep
<1>3. QED
  BY <1>1, <1>2, PTL DEF Spec

------------------------------------------------------------------------------
(* Keys and refunds *)

\* A claim without a key of its own that moves on, and touches no record, keeps
\* what is said of the index.
LEMMA IndexedMoved ==
  ASSUME TypeOK, Indexed, UNCHANGED <<outcome, rows, issued>>,
         NEW cl \in Claims, cl \notin issued, NEW place, place # "index",
         pc' = [pc EXCEPT ![cl] = place]
  PROVE  Indexed'
<1>1. \A c \in Claims : c # cl => pc'[c] = pc[c]
  BY DEF TypeOK
<1>2. pc'[cl] = place
  BY DEF TypeOK
<1>3. Written'
  <2>1. \A c \in issued : c \in Claims /\ c # cl
    BY DEF TypeOK
  <2>2. QED
    BY <1>1, <1>2, <2>1 DEF Indexed, Written
<1>4. OneIssued'
  BY DEF Indexed, OneIssued
<1>5. QED
  BY <1>3, <1>4 DEF Indexed

\* What the claim index says of a session's key is inductive.
LEMMA IndexedInductive == Spec => []Indexed
<1>1. Init => Indexed
  BY DEF Init, Indexed, Written, OneIssued
<1>2. TypeOK /\ Indexed /\ [Next]_vars => Indexed'
  <2> SUFFICES ASSUME TypeOK, Indexed, [Next]_vars PROVE Indexed'
    OBVIOUS
  <2> USE DEF TypeOK, Indexed, Written, OneIssued, vars, store, stripe, seen, locks, Goto, ClaimIndex, SetRefusal
  <2>1. CASE UNCHANGED vars
    BY <2>1 DEF vars
  <2>2. ASSUME NEW cl \in Claims, Begin(cl) PROVE Indexed'
    BY <2>2 DEF Begin
  <2>3. ASSUME NEW cl \in Claims, NEW reads \in BOOLEAN, ReadBuyer(cl, reads) PROVE Indexed'
    BY <2>3 DEF ReadBuyer
  <2>4. ASSUME NEW cl \in Claims, EnterChain(cl) PROVE Indexed'
    BY <2>4 DEF EnterChain
  <2>5. ASSUME NEW cl \in Claims, TakeLock(cl) PROVE Indexed'
    BY <2>5 DEF TakeLock
  <2>6. ASSUME NEW cl \in Claims, GiveUpLock(cl) PROVE Indexed'
    BY <2>6 DEF GiveUpLock
  <2>7. ASSUME NEW cl \in Claims, Recheck(cl) PROVE Indexed'
    BY <2>7 DEF Recheck
  <2>8. ASSUME NEW cl \in Claims, Decide(cl) PROVE Indexed'
    BY <2>8 DEF Decide
  <2>9. ASSUME NEW cl \in Claims, InsertKey(cl) PROVE Indexed'
    BY <2>9 DEF InsertKey
  <2>10. ASSUME NEW cl \in Claims, MintKey(cl) PROVE Indexed'
    <3>1. CASE outcome[SessionOf[cl]] = "none"
      <4>1. /\ outcome'[SessionOf[cl]] = "minted" /\ pc'[cl] = "unlock"
            /\ \A s \in Sessions : s # SessionOf[cl] => outcome'[s] = outcome[s]
            /\ \A d \in Claims : d # cl => pc'[d] = pc[d]
        BY <2>10, <3>1, IndexWritten DEF MintKey
      <4>2. issued' = issued \cup {cl} /\ rows' = rows /\ cl \in rows
        BY <2>10, <3>1 DEF MintKey
      <4>3. \A c \in issued : /\ c \in Claims /\ c # cl
                             /\ SessionOf[c] \in Sessions /\ SessionOf[c] # SessionOf[cl]
        BY <2>10, <3>1 DEF MintKey
      <4> HIDE DEF ClaimIndex, Goto
      <4>4. Written'
        BY <4>1, <4>2, <4>3
      <4>5. OneIssued'
        <5> SUFFICES ASSUME NEW t \in Sessions, outcome'[t] = "minted"
                     PROVE  \E c \in issued' : SessionOf[c] = t
          BY <4>2, <4>3
        <5>1. CASE t = SessionOf[cl]
          BY <4>2, <5>1
        <5>2. CASE t # SessionOf[cl]
          BY <4>1, <4>2, <5>2
        <5>3. QED
          BY <5>1, <5>2
      <4>6. QED
        BY <4>4, <4>5
    <3>2. CASE outcome[SessionOf[cl]] # "none"
      <4>1. UNCHANGED <<outcome, rows, issued>> /\ pc' = [pc EXCEPT ![cl] = "orphan"]
        BY <2>10, <3>2, IndexKept DEF MintKey
      <4>2. cl \notin issued
        BY <2>10 DEF MintKey
      <4>3. QED
        BY <4>1, <4>2, IndexedMoved
    <3>3. QED
      BY <3>1, <3>2
  <2>11. ASSUME NEW cl \in Claims, DropOrphan(cl) PROVE Indexed'
    BY <2>11 DEF DropOrphan
  <2>12. ASSUME NEW cl \in Claims, Refuse(cl) PROVE Indexed'
    <3>1. CASE outcome[SessionOf[cl]] = "none"
      <4>1. /\ outcome'[SessionOf[cl]] = "pending" /\ pc'[cl] = "refund"
            /\ \A s \in Sessions : s # SessionOf[cl] => outcome'[s] = outcome[s]
            /\ \A d \in Claims : d # cl => pc'[d] = pc[d]
        BY <2>12, <3>1, IndexWritten DEF Refuse
      <4>2. UNCHANGED <<rows, issued>> /\ cl \notin issued /\ pc[cl] # "index"
        BY <2>12 DEF Refuse
      <4>3. \A c \in issued : /\ c \in Claims /\ c # cl
                             /\ SessionOf[c] \in Sessions /\ SessionOf[c] # SessionOf[cl]
        BY <3>1, <4>2
      <4> HIDE DEF ClaimIndex, Goto
      <4>4. Written'
        <5>1. \A c \in issued : c \in rows /\ outcome'[SessionOf[c]] = "minted" /\ pc'[c] \in {"unlock", "done", "dead"}
          BY <4>1, <4>3
        <5>2. \A c \in Claims : pc'[c] = "index" => c \in rows
          BY <4>1
        <5>3. QED
          BY <4>2, <5>1, <5>2
      <4>5. OneIssued'
        <5> SUFFICES ASSUME NEW t \in Sessions, outcome'[t] = "minted"
                     PROVE  \E c \in issued : SessionOf[c] = t
          BY <4>2
        <5>1. outcome[t] = "minted"
          BY <4>1
        <5>2. QED
          BY <5>1
      <4>6. QED
        BY <4>4, <4>5
    <3>2. CASE outcome[SessionOf[cl]] # "none"
      <4>1. UNCHANGED <<outcome, rows, issued>> /\ pc' = [pc EXCEPT ![cl] = "unlock"]
        BY <2>12, <3>2, IndexKept DEF Refuse
      <4>2. cl \notin issued
        BY <2>12 DEF Refuse
      <4>3. QED
        BY <4>1, <4>2, IndexedMoved
    <3>3. QED
      BY <3>1, <3>2
  <2>13. ASSUME NEW cl \in Claims, RefuseRefunded(cl) PROVE Indexed'
    <3>1. CASE outcome[SessionOf[cl]] = "none"
      <4>1. /\ outcome'[SessionOf[cl]] = "refunded" /\ pc'[cl] = "unlock"
            /\ \A s \in Sessions : s # SessionOf[cl] => outcome'[s] = outcome[s]
            /\ \A d \in Claims : d # cl => pc'[d] = pc[d]
        BY <2>13, <3>1, IndexWritten DEF RefuseRefunded
      <4>2. UNCHANGED <<rows, issued>> /\ cl \notin issued /\ pc[cl] # "index"
        BY <2>13 DEF RefuseRefunded
      <4>3. \A c \in issued : /\ c \in Claims /\ c # cl
                             /\ SessionOf[c] \in Sessions /\ SessionOf[c] # SessionOf[cl]
        BY <3>1, <4>2
      <4> HIDE DEF ClaimIndex, Goto
      <4>4. Written'
        <5>1. \A c \in issued : c \in rows /\ outcome'[SessionOf[c]] = "minted" /\ pc'[c] \in {"unlock", "done", "dead"}
          BY <4>1, <4>3
        <5>2. \A c \in Claims : pc'[c] = "index" => c \in rows
          BY <4>1
        <5>3. QED
          BY <4>2, <5>1, <5>2
      <4>5. OneIssued'
        <5> SUFFICES ASSUME NEW t \in Sessions, outcome'[t] = "minted"
                     PROVE  \E c \in issued : SessionOf[c] = t
          BY <4>2
        <5>1. outcome[t] = "minted"
          BY <4>1
        <5>2. QED
          BY <5>1
      <4>6. QED
        BY <4>4, <4>5
    <3>2. CASE outcome[SessionOf[cl]] # "none"
      <4>1. UNCHANGED <<outcome, rows, issued>> /\ pc' = [pc EXCEPT ![cl] = "unlock"]
        BY <2>13, <3>2, IndexKept DEF RefuseRefunded
      <4>2. cl \notin issued
        BY <2>13 DEF RefuseRefunded
      <4>3. QED
        BY <4>1, <4>2, IndexedMoved
    <3>3. QED
      BY <3>1, <3>2
  <2>14. ASSUME NEW cl \in Claims, MakeRefund(cl) PROVE Indexed'
    <3>1. UNCHANGED <<outcome, rows, issued>>
      BY <2>14 DEF MakeRefund
    <3>2. \E place \in {"recordYes", "recordNo"} : pc' = [pc EXCEPT ![cl] = place]
      BY <2>14 DEF MakeRefund
    <3>3. cl \notin issued
      BY <2>14 DEF MakeRefund
    <3>4. PICK place \in {"recordYes", "recordNo"} : pc' = [pc EXCEPT ![cl] = place]
      BY <3>2
    <3>5. QED
      BY <3>1, <3>3, <3>4, IndexedMoved
  <2>15. ASSUME NEW cl \in Claims, RecordRefund(cl) PROVE Indexed'
    BY <2>15 DEF RecordRefund
  <2>16. ASSUME NEW cl \in Claims, Unlock(cl) PROVE Indexed'
    BY <2>16 DEF Unlock
  <2>17. ASSUME NEW cl \in Claims, LockExpires(cl) PROVE Indexed'
    BY <2>17 DEF LockExpires
  <2>18. ASSUME NEW p \in Servers, Crash(p) PROVE Indexed'
    BY <2>18 DEF Crash, AtWork
  <2>19. ASSUME NEW s \in Sessions, RefundByHand(s) PROVE Indexed'
    BY <2>19 DEF RefundByHand, SetRefusal, ToRefund
  <2>20. QED
    BY <2>1, <2>2, <2>3, <2>4, <2>5, <2>6, <2>7, <2>8, <2>9, <2>10, <2>11, <2>12, <2>13, <2>14, <2>15, <2>16, <2>17, <2>18, <2>19 DEF Next, ClaimStep
<1>3. QED
  BY <1>1, <1>2, TypeCorrect, PTL DEF Spec

\* A claim that neither refunds nor is about to, and touches no outcome, keeps
\* what is said of the refusals.
LEMMA RefusalsMoved ==
  ASSUME TypeOK, Refusals, UNCHANGED <<outcome, returned, refunds, sawBack>>,
         NEW cl \in Claims, pc[cl] \notin {"refund", "recordYes", "recordNo"},
         NEW place \in {"orphan", "unlock"}, pc' = [pc EXCEPT ![cl] = place]
  PROVE  Refusals'
<1>1. pc'[cl] = place /\ \A c \in Claims : c # cl => pc'[c] = pc[c]
  BY DEF TypeOK
<1>2. Refunding' = Refunding
  BY <1>1 DEF Refunding
<1>3. OneRefunds' /\ Refunds'
  BY <1>2 DEF Refusals, OneRefunds, Refunds
<1>4. Seen'
  BY <1>1 DEF Refusals, Seen
<1>5. QED
  BY <1>3, <1>4 DEF Refusals

\* So is what it says of a refusal.
LEMMA RefusalsInductive == Spec => []Refusals
<1>1. Init => Refusals
  BY DEF Init, Refusals, OneRefunds, Seen, Refunds, Refunding
<1>2. TypeOK /\ Refusals /\ [Next]_vars => Refusals'
  <2> SUFFICES ASSUME TypeOK, Refusals, [Next]_vars PROVE Refusals'
    OBVIOUS
  <2> USE DEF TypeOK, Refusals, OneRefunds, Seen, Refunds, Refunding, vars, store, stripe, seen, locks, Goto, ClaimIndex, SetRefusal
  <2>1. CASE UNCHANGED vars
    BY <2>1 DEF vars
  <2>2. ASSUME NEW cl \in Claims, Begin(cl) PROVE Refusals'
    BY <2>2 DEF Begin
  <2>3. ASSUME NEW cl \in Claims, NEW reads \in BOOLEAN, ReadBuyer(cl, reads) PROVE Refusals'
    BY <2>3 DEF ReadBuyer
  <2>4. ASSUME NEW cl \in Claims, EnterChain(cl) PROVE Refusals'
    BY <2>4 DEF EnterChain
  <2>5. ASSUME NEW cl \in Claims, TakeLock(cl) PROVE Refusals'
    BY <2>5 DEF TakeLock
  <2>6. ASSUME NEW cl \in Claims, GiveUpLock(cl) PROVE Refusals'
    BY <2>6 DEF GiveUpLock
  <2>7. ASSUME NEW cl \in Claims, Recheck(cl) PROVE Refusals'
    BY <2>7 DEF Recheck
  <2>8. ASSUME NEW cl \in Claims, Decide(cl) PROVE Refusals'
    BY <2>8 DEF Decide
  <2>9. ASSUME NEW cl \in Claims, InsertKey(cl) PROVE Refusals'
    BY <2>9 DEF InsertKey
  <2>10. ASSUME NEW cl \in Claims, MintKey(cl) PROVE Refusals'
    <3>1. CASE outcome[SessionOf[cl]] = "none"
      <4>1. /\ outcome'[SessionOf[cl]] = "minted" /\ pc'[cl] = "unlock"
            /\ \A s \in Sessions : s # SessionOf[cl] => outcome'[s] = outcome[s]
            /\ \A d \in Claims : d # cl => pc'[d] = pc[d]
        BY <2>10, <3>1, IndexWritten DEF MintKey
      <4>2. UNCHANGED <<returned, refunds, sawBack>> /\ pc[cl] \notin {"refund", "recordYes", "recordNo"}
        BY <2>10 DEF MintKey
      <4>3. SessionOf[cl] \in Sessions /\ SessionOf[cl] \notin { SessionOf[d] : d \in Refunding }
        BY <3>1
      <4>4. OneRefunds'
        <5>1. Refunding' = Refunding
          BY <4>1, <4>2
        <5>2. \A c \in Refunding : SessionOf[c] \in Sessions /\ SessionOf[c] # SessionOf[cl]
          BY <4>3
        <5> HIDE DEF Refunding
        <5>3. QED
          BY <4>1, <5>1, <5>2
      <4>5. Seen'
        BY <4>1, <4>2
      <4>6. Refunds'
        BY <2>10, <3>1, <4>1, <4>2, <4>3 DEF MintKey
      <4>7. QED
        BY <4>4, <4>5, <4>6
    <3>2. CASE outcome[SessionOf[cl]] # "none"
      <4>1. UNCHANGED <<outcome, returned, refunds, sawBack>> /\ pc' = [pc EXCEPT ![cl] = "orphan"]
        BY <2>10, <3>2, IndexKept DEF MintKey
      <4>2. pc[cl] \notin {"refund", "recordYes", "recordNo"}
        BY <2>10 DEF MintKey
      <4>3. QED
        BY <4>1, <4>2, RefusalsMoved
    <3>3. QED
      BY <3>1, <3>2
  <2>11. ASSUME NEW cl \in Claims, DropOrphan(cl) PROVE Refusals'
    BY <2>11 DEF DropOrphan
  <2>12. ASSUME NEW cl \in Claims, Refuse(cl) PROVE Refusals'
    <3>1. CASE outcome[SessionOf[cl]] = "none"
      <4>1. /\ outcome'[SessionOf[cl]] = "pending" /\ pc'[cl] = "refund"
            /\ \A s \in Sessions : s # SessionOf[cl] => outcome'[s] = outcome[s]
            /\ \A d \in Claims : d # cl => pc'[d] = pc[d]
        BY <2>12, <3>1, IndexWritten DEF Refuse
      <4>2. UNCHANGED <<returned, refunds, sawBack>> /\ pc[cl] \notin {"refund", "recordYes", "recordNo"}
        BY <2>12 DEF Refuse
      <4>3. SessionOf[cl] \in Sessions /\ SessionOf[cl] \notin { SessionOf[d] : d \in Refunding }
        BY <3>1
      <4>4. OneRefunds'
        <5>1. Refunding' = Refunding \cup {cl}
          BY <4>1, <4>2
        <5>2. \A c \in Refunding : SessionOf[c] \in Sessions /\ SessionOf[c] # SessionOf[cl]
          BY <4>3
        <5> HIDE DEF Refunding
        <5>3. QED
          BY <4>1, <5>1, <5>2
      <4>5. Seen'
        BY <4>1, <4>2
      <4>6. Refunds'
        BY <2>12, <3>1, <4>1, <4>2, <4>3 DEF Refuse
      <4>7. QED
        BY <4>4, <4>5, <4>6
    <3>2. CASE outcome[SessionOf[cl]] # "none"
      <4>1. UNCHANGED <<outcome, returned, refunds, sawBack>> /\ pc' = [pc EXCEPT ![cl] = "unlock"]
        BY <2>12, <3>2, IndexKept DEF Refuse
      <4>2. pc[cl] \notin {"refund", "recordYes", "recordNo"}
        BY <2>12 DEF Refuse
      <4>3. QED
        BY <4>1, <4>2, RefusalsMoved
    <3>3. QED
      BY <3>1, <3>2
  <2>13. ASSUME NEW cl \in Claims, RefuseRefunded(cl) PROVE Refusals'
    <3>1. CASE outcome[SessionOf[cl]] = "none"
      <4>1. /\ outcome'[SessionOf[cl]] = "refunded" /\ pc'[cl] = "unlock"
            /\ \A s \in Sessions : s # SessionOf[cl] => outcome'[s] = outcome[s]
            /\ \A d \in Claims : d # cl => pc'[d] = pc[d]
        BY <2>13, <3>1, IndexWritten DEF RefuseRefunded
      <4>2. UNCHANGED <<returned, refunds, sawBack>> /\ pc[cl] \notin {"refund", "recordYes", "recordNo"}
        BY <2>13 DEF RefuseRefunded
      <4>3. SessionOf[cl] \in Sessions /\ SessionOf[cl] \notin { SessionOf[d] : d \in Refunding }
        BY <3>1
      <4>4. OneRefunds'
        <5>1. Refunding' = Refunding
          BY <4>1, <4>2
        <5>2. \A c \in Refunding : SessionOf[c] \in Sessions /\ SessionOf[c] # SessionOf[cl]
          BY <4>3
        <5> HIDE DEF Refunding
        <5>3. QED
          BY <4>1, <5>1, <5>2
      <4>5. Seen'
        BY <4>1, <4>2
      <4>6. Refunds'
        BY <2>13, <3>1, <4>1, <4>2, <4>3 DEF RefuseRefunded
      <4>7. QED
        BY <4>4, <4>5, <4>6
    <3>2. CASE outcome[SessionOf[cl]] # "none"
      <4>1. UNCHANGED <<outcome, returned, refunds, sawBack>> /\ pc' = [pc EXCEPT ![cl] = "unlock"]
        BY <2>13, <3>2, IndexKept DEF RefuseRefunded
      <4>2. pc[cl] \notin {"refund", "recordYes", "recordNo"}
        BY <2>13 DEF RefuseRefunded
      <4>3. QED
        BY <4>1, <4>2, RefusalsMoved
    <3>3. QED
      BY <3>1, <3>2
  <2>14. ASSUME NEW cl \in Claims, MakeRefund(cl) PROVE Refusals'
    <3>1. CASE UNCHANGED stripe /\ Goto(cl, "recordNo")
      BY <2>14, <3>1 DEF MakeRefund
    <3>2. ASSUME NEW place \in {"recordYes", "recordNo"},
                 /\ SessionOf[cl] \notin returned
                 /\ returned' = returned \cup {SessionOf[cl]}
                 /\ refunds' = [refunds EXCEPT ![SessionOf[cl]] = @ + 1]
                 /\ Goto(cl, place)
          PROVE  Refusals'
      <4>1. CASE place = "recordYes"
        BY <2>14, <3>2, <4>1 DEF MakeRefund
      <4>2. CASE place = "recordNo"
        BY <2>14, <3>2, <4>2 DEF MakeRefund
      <4>3. QED
        BY <4>1, <4>2
    <3>3. QED
      BY <2>14, <3>1, <3>2 DEF MakeRefund
  <2>15. ASSUME NEW cl \in Claims, RecordRefund(cl) PROVE Refusals'
    <3>1. /\ \A d \in Claims : d # cl => pc'[d] = pc[d]
          /\ pc'[cl] = "unlock"
          /\ UNCHANGED <<returned, refunds, sawBack>>
      BY <2>15 DEF RecordRefund
    <3>2. \A s \in Sessions : s # SessionOf[cl] => outcome'[s] = outcome[s]
      BY <2>15 DEF RecordRefund
    <3>3. cl \in Refunding
      BY <2>15 DEF RecordRefund
    <3>4. \/ outcome'[SessionOf[cl]] = "pending"
          \/ outcome'[SessionOf[cl]] = "refunded" /\ pc[cl] = "recordYes"
          \/ outcome'[SessionOf[cl]] = "failed"
      BY <2>15, <3>3 DEF RecordRefund
    <3>5. OneRefunds'
      <4>1. Refunding' = Refunding \ {cl}
        BY <3>1, <3>3
      <4>2. \A c \in Refunding \ {cl} : SessionOf[c] \in Sessions /\ SessionOf[c] # SessionOf[cl]
        BY <3>3
      <4> HIDE DEF Refunding
      <4>3. QED
        BY <3>2, <4>1, <4>2
    <3>6. Seen'
      BY <3>1
    <3>7. Refunds'
      BY <3>1, <3>2, <3>3, <3>4
    <3>8. QED
      BY <3>5, <3>6, <3>7
  <2>16. ASSUME NEW cl \in Claims, Unlock(cl) PROVE Refusals'
    BY <2>16 DEF Unlock
  <2>17. ASSUME NEW cl \in Claims, LockExpires(cl) PROVE Refusals'
    BY <2>17 DEF LockExpires
  <2>18. ASSUME NEW p \in Servers, Crash(p) PROVE Refusals'
    BY <2>18 DEF Crash, AtWork
  <2>19. ASSUME NEW s \in Sessions, RefundByHand(s) PROVE Refusals'
    BY <2>19 DEF RefundByHand, SetRefusal, ToRefund
  <2>20. QED
    BY <2>1, <2>2, <2>3, <2>4, <2>5, <2>6, <2>7, <2>8, <2>9, <2>10, <2>11, <2>12, <2>13, <2>14, <2>15, <2>16, <2>17, <2>18, <2>19 DEF Next, ClaimStep
<1>3. QED
  BY <1>1, <1>2, TypeCorrect, PTL DEF Spec

\* However often a paid session is claimed, on whatever processes, the index has
\* one key for it once it is minted, whose record is there, and none before.
THEOREM OneKeyPerSessionAlways == Spec => []OneKeyPerSession
<1>1. TypeOK /\ Indexed => OneKeyPerSession
  <2> SUFFICES ASSUME TypeOK, Indexed, NEW s \in Sessions
               PROVE  /\ KeysFor(s) \subseteq rows
                      /\ Cardinality(KeysFor(s)) = IF outcome[s] = "minted" THEN 1 ELSE 0
    BY DEF OneKeyPerSession
  <2>1. KeysFor(s) \subseteq rows
    BY DEF Indexed, Written, KeysFor
  <2>2. CASE outcome[s] = "minted"
    <3>1. PICK c \in issued : SessionOf[c] = s
      BY <2>2 DEF Indexed, OneIssued
    <3>2. KeysFor(s) = {c}
      BY <3>1 DEF Indexed, OneIssued, KeysFor
    <3>3. QED
      BY <2>1, <2>2, <3>2, FS_Singleton
  <2>3. CASE outcome[s] # "minted"
    <3>1. KeysFor(s) = {}
      BY <2>3 DEF Indexed, Written, KeysFor
    <3>2. QED
      BY <2>1, <2>3, <3>1, FS_EmptySet
  <2>4. QED
    BY <2>2, <2>3
<1>2. QED
  BY <1>1, TypeCorrect, IndexedInductive, PTL

\* The code refunds a session at most once, and never one it minted a key for.
THEOREM KeyOrRefundAlways == Spec => []KeyOrRefund
<1>1. Refusals => KeyOrRefund
  BY DEF Refusals, Refunds, KeyOrRefund
<1>2. QED
  BY <1>1, RefusalsInductive, PTL

\* A refusal recorded as refunded is refunded at Stripe.
THEOREM RefundedIsTrueAlways == Spec => []RefundedIsTrue
<1>1. Refusals => RefundedIsTrue
  BY DEF Refusals, Refunds, RefundedIsTrue
<1>2. QED
  BY <1>1, RefusalsInductive, PTL

------------------------------------------------------------------------------
(* The refinement: CreditsClaim implements PackPurchase.  A claim's step sells *)
(* or refuses its session, repays it, records that, or is nothing the buyer    *)
(* could tell.                                                                 *)

PurchaseNow == <<issued, Refused, Repaid, returned>>

\* A session the index has nothing of is open.
LEMMA NothingIsOpen ==
  ASSUME Indexed, NEW s \in Sessions, outcome[s] = "none"
  PROVE  Purchase!Open(s)
BY DEF Indexed, Written, Purchase!Open, Refused

\* The steps on the index row.
LEMMA IndexedPurchase ==
  ASSUME TypeOK, Indexed, Seen, NEW cl \in Claims,
         MintKey(cl) \/ Refuse(cl) \/ RefuseRefunded(cl)
  PROVE  Purchase!Next \/ UNCHANGED PurchaseNow
<1> DEFINE s == SessionOf[cl]
<1>0. s \in Sessions
  OBVIOUS
<1>1. CASE outcome[s] # "none"
  <2>1. UNCHANGED <<outcome, issued, returned>>
    BY <1>1 DEF MintKey, Refuse, RefuseRefunded, ClaimIndex, stripe
  <2> QED
    BY <2>1 DEF PurchaseNow, Refused, Repaid
<1>2. CASE outcome[s] = "none" /\ MintKey(cl)
  <2>1. /\ issued' = issued \cup {cl} /\ returned' = returned
        /\ outcome' = [outcome EXCEPT ![s] = "minted"]
    BY <1>2 DEF MintKey, ClaimIndex, stripe
  <2>2. Refused' = Refused /\ Repaid' = Repaid
    BY <1>2, <2>1 DEF Refused, Repaid, TypeOK
  <2>3. Purchase!Open(s)
    BY <1>0, <1>2, NothingIsOpen
  <2> QED
    BY <2>1, <2>2, <2>3 DEF Purchase!Next, Purchase!Sell
<1>3. CASE outcome[s] = "none" /\ Refuse(cl)
  <2>1. /\ UNCHANGED <<issued, returned>>
        /\ outcome' = [outcome EXCEPT ![s] = "pending"]
    BY <1>3 DEF Refuse, ClaimIndex, stripe
  <2>2. Refused' = Refused \cup {s} /\ Repaid' = Repaid
    BY <1>0, <1>3, <2>1 DEF Refused, Repaid, TypeOK
  <2>3. Purchase!Open(s)
    BY <1>0, <1>3, NothingIsOpen
  <2> QED
    BY <1>0, <2>1, <2>2, <2>3 DEF Purchase!Next, Purchase!Refuse
<1>4. CASE outcome[s] = "none" /\ RefuseRefunded(cl)
  <2>1. /\ UNCHANGED <<issued, returned>> /\ pc[cl] = "refuseRefunded"
        /\ outcome' = [outcome EXCEPT ![s] = "refunded"]
    BY <1>4 DEF RefuseRefunded, ClaimIndex, stripe
  <2>2. Refused' = Refused \cup {s} /\ Repaid' = Repaid \cup {s}
    BY <1>0, <1>4, <2>1 DEF Refused, Repaid, TypeOK
  <2>3. s \in returned
    BY <2>1 DEF Seen
  <2>4. Purchase!Open(s)
    BY <1>0, <1>4, NothingIsOpen
  <2> QED
    BY <1>0, <2>1, <2>2, <2>3, <2>4 DEF Purchase!Next, Purchase!Refuse
<1> QED
  BY <1>1, <1>2, <1>3, <1>4

\* The refund, and its record: both are of a session this claim refused.
LEMMA RefundPurchase ==
  ASSUME TypeOK, Refusals, NEW cl \in Claims, MakeRefund(cl) \/ RecordRefund(cl)
  PROVE  Purchase!Next \/ UNCHANGED PurchaseNow
<1> DEFINE s == SessionOf[cl]
<1>1. s \in Sessions /\ outcome[s] = "pending"
  BY DEF Refusals, OneRefunds, Refunding, MakeRefund, RecordRefund
<1>2. s \in Refused \ Repaid
  BY <1>1 DEF Refused, Repaid
<1>3. CASE MakeRefund(cl)
  <2>1. UNCHANGED <<outcome, issued>>
    BY <1>3 DEF MakeRefund, store
  <2>2. UNCHANGED <<Refused, Repaid>>
    BY <2>1 DEF Refused, Repaid
  <2>3. \/ s \notin returned /\ returned' = returned \cup {s}
        \/ UNCHANGED returned
    BY <1>3 DEF MakeRefund, stripe
  <2> QED
    BY <1>1, <1>2, <2>1, <2>2, <2>3 DEF PurchaseNow, Purchase!Next, Purchase!Repay
<1>4. CASE RecordRefund(cl)
  <2>1. UNCHANGED <<issued, returned>>
    BY <1>4 DEF RecordRefund, stripe
  <2>2. \/ UNCHANGED outcome
        \/ outcome' = [outcome EXCEPT ![s] = "failed"]
        \/ outcome' = [outcome EXCEPT ![s] = "refunded"] /\ s \in returned
    BY <1>1, <1>4 DEF RecordRefund, SetRefusal, Refusals, Seen
  <2>3. CASE UNCHANGED outcome \/ outcome' = [outcome EXCEPT ![s] = "failed"]
    <3>1. UNCHANGED <<Refused, Repaid>>
      BY <1>1, <2>3 DEF Refused, Repaid, TypeOK
    <3> QED
      BY <2>1, <3>1 DEF PurchaseNow
  <2>4. CASE outcome' = [outcome EXCEPT ![s] = "refunded"] /\ s \in returned
    <3>1. Refused' = Refused /\ Repaid' = Repaid \cup {s}
      BY <1>1, <2>4 DEF Refused, Repaid, TypeOK
    <3>2. returned' = returned \cup {s}
      BY <2>1, <2>4
    <3> QED
      BY <1>1, <1>2, <2>1, <3>1, <3>2 DEF Purchase!Next, Purchase!Record
  <2> QED
    BY <2>2, <2>3, <2>4
<1> QED
  BY <1>3, <1>4

\* Every step is one of the purchase, or none.
LEMMA StepsAsPurchase ==
  TypeOK /\ Indexed /\ Refusals /\ [Next]_vars => [Purchase!Next]_PurchaseNow
<1> SUFFICES ASSUME TypeOK, Indexed, Refusals, [Next]_vars
             PROVE  Purchase!Next \/ UNCHANGED PurchaseNow
  OBVIOUS
<1>1. ASSUME UNCHANGED <<outcome, issued, returned>>
      PROVE  UNCHANGED PurchaseNow
  BY <1>1 DEF PurchaseNow, Refused, Repaid
<1>2. ASSUME NEW cl \in Claims, MintKey(cl) \/ Refuse(cl) \/ RefuseRefunded(cl)
      PROVE  Purchase!Next \/ UNCHANGED PurchaseNow
  BY <1>2, IndexedPurchase DEF Refusals
<1>3. ASSUME NEW cl \in Claims, MakeRefund(cl) \/ RecordRefund(cl)
      PROVE  Purchase!Next \/ UNCHANGED PurchaseNow
  BY <1>3, RefundPurchase
<1>4. ASSUME NEW s \in Sessions, RefundByHand(s)
      PROVE  Purchase!Next
  <2>1. /\ outcome[s] \in {"pending", "failed"} /\ UNCHANGED issued
        /\ returned' = returned \cup {s}
        /\ outcome' = [outcome EXCEPT ![s] = "refunded"]
    BY <1>4 DEF RefundByHand, ToRefund, SetRefusal
  <2>2. s \in Refused \ Repaid /\ Refused' = Refused /\ Repaid' = Repaid \cup {s}
    BY <2>1 DEF Refused, Repaid, TypeOK
  <2> QED
    BY <2>1, <2>2 DEF Purchase!Next, Purchase!Record
<1>5. ASSUME NEW cl \in Claims, ClaimStep(cl) \/ LockExpires(cl),
             ~(MintKey(cl) \/ Refuse(cl) \/ RefuseRefunded(cl) \/ MakeRefund(cl) \/ RecordRefund(cl))
      PROVE  UNCHANGED <<outcome, issued, returned>>
  BY <1>5 DEF ClaimStep, LockExpires, Begin, ReadBuyer, EnterChain, TakeLock, GiveUpLock,
       Recheck, Decide, InsertKey, DropOrphan, Unlock, store, stripe
<1>6. ASSUME NEW p \in Servers, Crash(p)
      PROVE  UNCHANGED <<outcome, issued, returned>>
  BY <1>6 DEF Crash, store, stripe
<1>7. UNCHANGED vars => UNCHANGED <<outcome, issued, returned>>
  BY DEF vars, store, stripe
<1> QED
  BY <1>1, <1>2, <1>3, <1>4, <1>5, <1>6, <1>7, Zenon DEF Next

\* The claims of paid sessions, with their races, crashes and failing refunds,
\* give the buyer what PackPurchase promises: a session is decided once, sold
\* for one key or refused, and only a refused one is paid back.
THEOREM Implementation == Spec => ImplementsPackPurchase
<1>1. Init => Purchase!Init
  BY RefundAssumption DEF Init, Purchase!Init, Refused, Repaid
<1> QED
  BY <1>1, TypeCorrect, IndexedInductive, RefusalsInductive, StepsAsPurchase, PTL
     DEF Spec, ImplementsPackPurchase, Purchase!Spec, PurchaseNow, Purchase!purchase

------------------------------------------------------------------------------
(* The chain of a process *)

LEMMA TurnIsFirst ==
  ASSUME TypeOK, NEW cl \in Claims, MyTurn(cl)
  PROVE  First(chain[ServerOf[cl]], FirstKeys, cl)
<1> DEFINE line == chain[ServerOf[cl]]
<1>1. line \in Seq(Claims)
  BY DEF TypeOK
<1>2. \A i \in 1 .. Len(line) : line[i] \in Claims
  BY <1>1
<1>3. \A i \in 1 .. Len(line) : FirstKeys[line[i]] = FirstKey(line[i])
  BY <1>2 DEF FirstKeys
<1>4. FirstKeys[cl] = FirstKey(cl)
  BY DEF FirstKeys
<1>5. \A i \in 1 .. Len(line) :
        line[i] # cl /\ FirstKey(line[i]) = FirstKey(cl) => \E j \in 1 .. i : line[j] = cl
  BY DEF MyTurn
<1> HIDE DEF line
<1>6. First(line, FirstKeys, cl)
  BY <1>3, <1>4, <1>5 DEF First
<1>7. QED
  BY <1>6 DEF line

\* A step that moves claims along between two places of the chain leaves the
\* lines as they are.
LEMMA MovesAlong ==
  ASSUME TypeOK, Lines, UNCHANGED <<chain, cardKnown>>,
         \A d \in Claims : pc'[d] \in Chained <=> pc[d] \in Chained,
         \A d \in Claims : pc'[d] \in Turn => pc[d] \in Turn \/ MyTurn(d)
  PROVE  Lines'
<1>1. FirstKeys' = FirstKeys
  BY DEF FirstKeys, FirstKey
<1>2. \A d \in Claims : pc'[d] \in Turn => First(chain[ServerOf[d]], FirstKeys, d)
  BY TurnIsFirst DEF Lines
<1>3. \A p \in Servers : { cl \in Claims : pc'[cl] \in Chained /\ ServerOf[cl] = p }
                         = { cl \in Claims : pc[cl] \in Chained /\ ServerOf[cl] = p }
  OBVIOUS
<1>4. QED
  BY <1>1, <1>2, <1>3 DEF Lines

\* A claim joins its process's line.
LEMMA Joins ==
  ASSUME TypeOK, Lines, NEW cl \in Claims, NEW reads \in BOOLEAN, ReadBuyer(cl, reads)
  PROVE  Lines'
<1> DEFINE p == ServerOf[cl]
           In(q) == { d \in Claims : pc[d] \in Chained /\ ServerOf[d] = q }
<1>1. /\ p \in Servers
      /\ \A q \in Servers : chain[q] \in Seq(Claims)
      /\ chain'[p] = Append(chain[p], cl)
      /\ \A q \in Servers : q # p => chain'[q] = chain[q]
      /\ pc[cl] = "buyer" /\ pc'[cl] = "chain"
      /\ \A d \in Claims : d # cl => pc'[d] = pc[d]
  BY DEF ReadBuyer, TypeOK, Goto
<1>2. \A d \in Claims : d # cl => FirstKeys'[d] = FirstKeys[d]
  BY DEF ReadBuyer, TypeOK, FirstKeys, FirstKey
<1>3. /\ "buyer" \notin Chained /\ "chain" \in Chained /\ "chain" \notin Turn
      /\ \A x \in Turn : x \in Chained
  BY DEF Chained, Turn, Places
<1>4. \A q \in Servers : Distinct(chain[q]) /\ Members(chain[q]) = In(q) /\ cl \notin In(q)
  BY <1>1, <1>3 DEF Lines
<1>5. \A q \in Servers : { d \in Claims : pc'[d] \in Chained /\ ServerOf[d] = q }
                         = IF q = p THEN In(q) \cup {cl} ELSE In(q)
  BY <1>1, <1>3
<1>6. ASSUME NEW q \in Servers
      PROVE  Distinct(chain'[q]) /\ Members(chain'[q]) = { d \in Claims : pc'[d] \in Chained /\ ServerOf[d] = q }
  <2> HIDE DEF In, p
  <2>1. CASE q = p
    <3>1. Members(Append(chain[p], cl)) = In(p) \cup {cl} /\ Distinct(Append(chain[p], cl))
      BY <1>1, <1>4, Appended
    <3>2. QED
      BY <1>1, <1>5, <2>1, <3>1
  <2>2. CASE q # p
    BY <1>1, <1>4, <1>5, <2>2
  <2>3. QED
    BY <2>1, <2>2
<1>7. ASSUME NEW d \in Claims, pc'[d] \in Turn
      PROVE  First(chain'[ServerOf[d]], FirstKeys', d)
  <2>1. d # cl /\ pc[d] \in Turn /\ ServerOf[d] \in Servers
    BY <1>1, <1>3, <1>7
  <2>2. First(chain[ServerOf[d]], FirstKeys, d) /\ d \in Members(chain[ServerOf[d]])
    BY <1>3, <1>4, <2>1 DEF Lines
  <2>3. \A c \in Members(chain[ServerOf[d]]) : FirstKeys'[c] = FirstKeys[c]
    BY <1>2, <1>4, <2>1
  <2>4. CASE ServerOf[d] = p
    <3>1. First(Append(chain[p], cl), FirstKeys', d)
      BY <1>1, <1>4, <2>2, <2>3, <2>4, StillFirst
    <3>2. QED
      BY <1>1, <2>4, <3>1
  <2>5. CASE ServerOf[d] # p
    <3>1. chain'[ServerOf[d]] = chain[ServerOf[d]]
      BY <1>1, <2>1, <2>5
    <3>2. QED
      BY <2>2, <2>3, <3>1, SameFirst
  <2>6. QED
    BY <2>4, <2>5
<1>8. QED
  BY <1>6, <1>7 DEF Lines

\* A claim leaves its process's line.
LEMMA Leaves ==
  ASSUME TypeOK, Lines, NEW cl \in Claims, Unlock(cl)
  PROVE  Lines'
<1> DEFINE p == ServerOf[cl]
           In(q) == { d \in Claims : pc[d] \in Chained /\ ServerOf[d] = q }
<1>1. /\ p \in Servers
      /\ \A q \in Servers : chain[q] \in Seq(Claims)
      /\ chain'[p] = Without(chain[p], cl)
      /\ \A q \in Servers : q # p => chain'[q] = chain[q]
      /\ pc[cl] = "unlock" /\ pc'[cl] = "done"
      /\ \A d \in Claims : d # cl => pc'[d] = pc[d]
  BY DEF Unlock, TypeOK, Goto
<1>2. FirstKeys' = FirstKeys
  BY DEF Unlock, seen, FirstKeys, FirstKey
<1>3. /\ "unlock" \in Chained /\ "done" \notin Chained
      /\ \A x \in Turn : x \in Chained
  BY DEF Chained, Turn, Places
<1>4. \A q \in Servers : Distinct(chain[q]) /\ Members(chain[q]) = In(q) /\ (cl \in In(q) <=> q = p)
  BY <1>1, <1>3 DEF Lines
<1>5. \A q \in Servers : { d \in Claims : pc'[d] \in Chained /\ ServerOf[d] = q }
                         = IF q = p THEN In(q) \ {cl} ELSE In(q)
  BY <1>1, <1>3
<1>6. ASSUME NEW q \in Servers
      PROVE  Distinct(chain'[q]) /\ Members(chain'[q]) = { d \in Claims : pc'[d] \in Chained /\ ServerOf[d] = q }
  <2> HIDE DEF In, p
  <2>1. CASE q = p
    BY <1>1, <1>4, <1>5, <2>1, Removed
  <2>2. CASE q # p
    BY <1>1, <1>4, <1>5, <2>2
  <2>3. QED
    BY <2>1, <2>2
<1>7. ASSUME NEW d \in Claims, pc'[d] \in Turn
      PROVE  First(chain'[ServerOf[d]], FirstKeys', d)
  <2>1. d # cl /\ pc[d] \in Turn /\ ServerOf[d] \in Servers
    BY <1>1, <1>3, <1>7
  <2>2. First(chain[ServerOf[d]], FirstKeys, d) /\ d \in Members(chain[ServerOf[d]])
    BY <1>3, <1>4, <2>1 DEF Lines
  <2>3. CASE ServerOf[d] = p
    <3>1. First(Without(chain[p], cl), FirstKeys, d)
      BY <1>1, <1>4, <2>1, <2>2, <2>3, Removed
    <3>2. QED
      BY <1>1, <1>2, <2>3, <3>1
  <2>4. CASE ServerOf[d] # p
    BY <1>1, <1>2, <2>1, <2>2, <2>4
  <2>5. QED
    BY <2>3, <2>4
<1>8. QED
  BY <1>6, <1>7 DEF Lines

\* A process that crashes loses its line with the claims in it.
LEMMA LineLost ==
  ASSUME TypeOK, Lines, NEW p \in Servers, Crash(p)
  PROVE  Lines'
<1>1. /\ chain'[p] = <<>>
      /\ \A q \in Servers : q # p => chain'[q] = chain[q]
      /\ \A d \in Claims : ServerOf[d] = p => pc'[d] \notin Chained
      /\ \A d \in Claims : ServerOf[d] # p => pc'[d] = pc[d]
  BY DEF Crash, TypeOK, AtWork, Chained, Places
<1>2. FirstKeys' = FirstKeys
  BY DEF Crash, seen, FirstKeys, FirstKey
<1>3. \A x \in Turn : x \in Chained
  BY DEF Turn
<1>4. Members(<<>>) = {} /\ Distinct(<<>>)
  BY DEF Members, Distinct
<1>5. ASSUME NEW q \in Servers
      PROVE  Distinct(chain'[q]) /\ Members(chain'[q]) = { d \in Claims : pc'[d] \in Chained /\ ServerOf[d] = q }
  <2>1. CASE q = p
    BY <1>1, <1>4, <2>1
  <2>2. CASE q # p
    <3>1. chain'[q] = chain[q] /\ \A d \in Claims : ServerOf[d] = q => pc'[d] = pc[d]
      BY <1>1, <2>2
    <3>2. Distinct(chain[q]) /\ Members(chain[q]) = { d \in Claims : pc[d] \in Chained /\ ServerOf[d] = q }
      BY DEF Lines
    <3>3. QED
      BY <3>1, <3>2
  <2>3. QED
    BY <2>1, <2>2
<1>6. ASSUME NEW d \in Claims, pc'[d] \in Turn
      PROVE  First(chain'[ServerOf[d]], FirstKeys', d)
  BY <1>1, <1>2, <1>3, <1>6 DEF Lines
<1>7. QED
  BY <1>5, <1>6 DEF Lines

\* The lines are inductive.
LEMMA LinesInductive == Spec => []Lines
<1>1. Init => Lines
  <2> SUFFICES ASSUME Init PROVE Lines
    OBVIOUS
  <2>1. Members(<<>>) = {} /\ Distinct(<<>>)
    BY DEF Members, Distinct
  <2>2. QED
    BY <2>1 DEF Init, Lines, Turn, Chained
<1>2. TypeOK /\ Lines /\ [Next]_vars => Lines'
  <2> SUFFICES ASSUME TypeOK, Lines, [Next]_vars PROVE Lines'
    OBVIOUS
  <2>1. ASSUME NEW cl \in Claims,
               Begin(cl) \/ EnterChain(cl) \/ TakeLock(cl) \/ GiveUpLock(cl) \/ Recheck(cl)
        PROVE  Lines'
    BY <2>1, MovesAlong DEF Begin, EnterChain, TakeLock, GiveUpLock, Recheck,
         TypeOK, Goto, locks, seen, Chained, Turn, Places
  <2>2. ASSUME NEW cl \in Claims,
               Decide(cl) \/ InsertKey(cl) \/ DropOrphan(cl) \/ RecordRefund(cl)
        PROVE  Lines'
    BY <2>2, MovesAlong DEF Decide, InsertKey, DropOrphan, RecordRefund,
         TypeOK, Goto, locks, seen, Chained, Turn, Places
  <2>3. ASSUME NEW cl \in Claims, MintKey(cl) \/ Refuse(cl) \/ RefuseRefunded(cl) PROVE Lines'
    BY <2>3, MovesAlong DEF MintKey, Refuse, RefuseRefunded, ClaimIndex,
         TypeOK, Goto, locks, seen, Chained, Turn, Places
  <2>4. ASSUME NEW cl \in Claims, LockExpires(cl) PROVE Lines'
    BY <2>4, MovesAlong DEF LockExpires, seen
  <2>5. ASSUME NEW s \in Sessions, RefundByHand(s) PROVE Lines'
    BY <2>5, MovesAlong DEF RefundByHand, locks, seen
  <2>6. CASE UNCHANGED vars
    BY <2>6, MovesAlong DEF vars, locks, seen
  <2>7. ASSUME NEW cl \in Claims, MakeRefund(cl) PROVE Lines'
    BY <2>7, MovesAlong DEF MakeRefund, TypeOK, Goto, locks, seen, Chained, Turn, Places
  <2>8. QED
    BY <2>1, <2>2, <2>3, <2>4, <2>5, <2>6, <2>7, Joins, Leaves, LineLost DEF Next, ClaimStep
<1>3. QED
  BY <1>1, <1>2, TypeCorrect, PTL DEF Spec

\* In one process, the claims of one first key are decided one after the other:
\* two of them are never past their turn together.
ChainExcludes ==
  \A c, d \in Claims :
    pc[c] \in Turn /\ pc[d] \in Turn /\ ServerOf[c] = ServerOf[d] /\ FirstKey(c) = FirstKey(d) => c = d

THEOREM ChainExcludesAlways == Spec => []ChainExcludes
<1>1. TypeOK /\ Lines => ChainExcludes
  <2> SUFFICES ASSUME TypeOK, Lines, NEW c \in Claims, NEW d \in Claims, pc[c] \in Turn, pc[d] \in Turn,
                      ServerOf[c] = ServerOf[d], FirstKey(c) = FirstKey(d), c # d
               PROVE  FALSE
    BY DEF ChainExcludes
  <2> DEFINE line == chain[ServerOf[c]]
  <2>1. First(line, FirstKeys, c) /\ First(line, FirstKeys, d) /\ FirstKeys[c] = FirstKeys[d]
    BY DEF Lines, FirstKeys
  <2>2. c \in Members(line) /\ d \in Members(line) /\ Distinct(line) /\ line \in Seq(Claims)
    BY DEF Lines, Turn, TypeOK
  <2> HIDE DEF line
  <2>3. PICK i \in 1 .. Len(line) : line[i] = c
    BY <2>2 DEF Members
  <2>4. PICK j \in 1 .. Len(line) : line[j] = d
    BY <2>2 DEF Members
  <2>5. \E k \in 1 .. i : line[k] = d
    BY <2>1, <2>3 DEF First
  <2>6. \E k \in 1 .. j : line[k] = c
    BY <2>1, <2>4 DEF First
  <2>7. ASSUME NEW h \in 1 .. Len(line), NEW m \in 1 .. Len(line), line[h] = line[m] PROVE h = m
    BY <2>2, <2>7 DEF Distinct
  <2>8. j <= i
    <3>1. PICK k \in 1 .. i : line[k] = d
      BY <2>5
    <3>2. k = j
      BY <2>3, <2>4, <2>7, <3>1
    <3>3. QED
      BY <3>1, <3>2
  <2>9. i <= j
    <3>1. PICK k \in 1 .. j : line[k] = c
      BY <2>6
    <3>2. k = i
      BY <2>3, <2>4, <2>7, <3>1
    <3>3. QED
      BY <3>1, <3>2
  <2>10. QED
    BY <2>3, <2>4, <2>8, <2>9
<1>2. QED
  BY <1>1, TypeCorrect, LinesInductive, PTL

------------------------------------------------------------------------------
(* The daily limit *)

\* Fewer keys load less.
LEMMA LoadsLess ==
  ASSUME NEW S \in SUBSET Claims, NEW T \in SUBSET S
  PROVE  Total(PackOf, T) \in Nat /\ Total(PackOf, S) \in Nat /\ Total(PackOf, T) <= Total(PackOf, S)
<1>1. IsFiniteSet(S) /\ IsFiniteSet(S \ T)
  BY FS_Subset
<1>2. \A r \in S : PackOf[r] \in Nat
  BY DEF PackOf
<1>3. /\ Total(PackOf, S \ T) \in Nat /\ Total(PackOf, T) \in Nat /\ Total(PackOf, S) \in Nat
      /\ Total(PackOf, S \ T) = Total(PackOf, S) - Total(PackOf, T)
  BY <1>1, <1>2, TotalRemove
<1>4. QED
  BY <1>3

\* With the shared store, a claim that decides guarded has the locks of all its keys.
LEMMA LockedInductive ==
  ASSUME SharedStore
  PROVE  Spec => []Locked
<1>1. Init => Locked
  BY DEF Init, Locked, Guarded
<1>2. TypeOK /\ Locked /\ [Next]_vars => Locked'
  <2> SUFFICES ASSUME TypeOK, Locked, [Next]_vars PROVE Locked'
    OBVIOUS
  <2>0. \A cl \in Claims : FirstKey(cl) \in Keys /\ KeysOf(cl) \subseteq Keys /\ Email[SessionOf[cl]] \in Keys
    BY DEF FirstKey, KeysOf, Keys
  <2>1. ASSUME UNCHANGED <<lock, cardKnown>>, unguarded \subseteq unguarded',
               \A d \in Claims : pc'[d] \in {"recheck", "decide", "insert", "index"}
                                 => pc[d] \in {"recheck", "decide", "insert", "index"},
               \A d \in Claims : pc'[d] = "lockEmail" => pc[d] = "lockEmail"
        PROVE  Locked'
    BY <2>1 DEF Locked, Guarded, KeysOf, FirstKey
  <2>2. ASSUME NEW cl \in Claims, NEW reads \in BOOLEAN, ReadBuyer(cl, reads) PROVE Locked'
    BY <2>2 DEF ReadBuyer, TypeOK, Goto, Locked, Guarded, KeysOf, FirstKey
  <2>3. ASSUME NEW cl \in Claims, TakeLock(cl) PROVE Locked'
    <3> DEFINE next == IF pc[cl] = "lock" THEN FirstKey(cl) ELSE Email[SessionOf[cl]]
    <3>1. /\ next \in Keys /\ lock[next] = NoClaim
          /\ lock'[next] = cl /\ \A k \in Keys : k # next => lock'[k] = lock[k]
          /\ \A d \in Claims : d # cl => pc'[d] = pc[d]
          /\ pc'[cl] = IF next = Email[SessionOf[cl]] THEN "recheck" ELSE "lockEmail"
          /\ UNCHANGED <<cardKnown, unguarded>>
      BY <2>0, <2>3 DEF TakeLock, TypeOK, Goto, seen
    <3>2. \A d \in Claims : /\ KeysOf(d)' = KeysOf(d) /\ FirstKey(d)' = FirstKey(d)
      BY <3>1 DEF KeysOf, FirstKey
    <3>3. \A k \in Keys : lock[k] \in Claims => lock'[k] = lock[k]
      BY <3>1
    <3>4. ASSUME NEW d \in Claims, d # cl, d \notin unguarded
          PROVE  /\ pc'[d] \in {"recheck", "decide", "insert", "index"} => \A k \in KeysOf(d) : lock'[k] = d
                 /\ pc'[d] = "lockEmail" => lock'[FirstKey(d)] = d
      BY <2>0, <3>1, <3>3, <3>4 DEF Locked, Guarded
    <3>5. ASSUME cl \notin unguarded
          PROVE  /\ pc'[cl] \in {"recheck", "decide", "insert", "index"} => \A k \in KeysOf(cl) : lock'[k] = cl
                 /\ pc'[cl] = "lockEmail" => lock'[FirstKey(cl)] = cl
      <4>1. CASE pc[cl] = "lock"
        BY <2>0, <3>1, <4>1 DEF KeysOf, FirstKey
      <4>2. CASE pc[cl] = "lockEmail"
        <5>1. lock[FirstKey(cl)] = cl
          BY <3>5, <4>2 DEF Locked
        <5>2. QED
          BY <2>0, <3>1, <4>2, <5>1 DEF KeysOf, FirstKey
      <4>3. QED
        BY <2>3, <4>1, <4>2 DEF TakeLock
    <3>6. QED
      BY <3>1, <3>2, <3>4, <3>5 DEF Locked, Guarded
  <2>4. ASSUME NEW cl \in Claims, GiveUpLock(cl) \/ Unlock(cl) PROVE Locked'
    <3>1. /\ \A k \in Keys : lock[k] # cl => lock'[k] = lock[k]
          /\ \A d \in Claims : d # cl => pc'[d] = pc[d] /\ (d \in unguarded' <=> d \in unguarded)
          /\ cl \in unguarded' \/ pc'[cl] = "done"
          /\ UNCHANGED cardKnown
      BY <2>4 DEF GiveUpLock, Unlock, Freed, TypeOK, Goto, seen
    <3>2. \A d \in Claims : /\ KeysOf(d)' = KeysOf(d) /\ FirstKey(d)' = FirstKey(d)
      BY <3>1 DEF KeysOf, FirstKey
    <3>3. ASSUME NEW d \in Claims, d # cl, d \notin unguarded
          PROVE  /\ pc'[d] \in {"recheck", "decide", "insert", "index"} => \A k \in KeysOf(d) : lock'[k] = d
                 /\ pc'[d] = "lockEmail" => lock'[FirstKey(d)] = d
      BY <2>0, <3>1, <3>3 DEF Locked, Guarded
    <3>4. QED
      BY <3>1, <3>2, <3>3 DEF Locked, Guarded
  <2>5. ASSUME NEW cl \in Claims, LockExpires(cl) PROVE Locked'
    <3>1. /\ \A k \in Keys : lock[k] # cl => lock'[k] = lock[k]
          /\ UNCHANGED <<pc, cardKnown>>
          /\ \A d \in Claims : d # cl => (d \in unguarded' <=> d \in unguarded)
          /\ cl \in unguarded' \/ pc[cl] = "dead"
      BY <2>5 DEF LockExpires, TypeOK, seen
    <3>2. \A d \in Claims : /\ KeysOf(d)' = KeysOf(d) /\ FirstKey(d)' = FirstKey(d)
      BY <3>1 DEF KeysOf, FirstKey
    <3>3. ASSUME NEW d \in Claims, d # cl, d \notin unguarded
          PROVE  /\ pc[d] \in {"recheck", "decide", "insert", "index"} => \A k \in KeysOf(d) : lock'[k] = d
                 /\ pc[d] = "lockEmail" => lock'[FirstKey(d)] = d
      BY <2>0, <3>1, <3>3 DEF Locked, Guarded
    <3>4. QED
      BY <3>1, <3>2, <3>3 DEF Locked, Guarded
  <2>6. ASSUME NEW cl \in Claims,
               \/ Begin(cl) \/ EnterChain(cl) \/ Recheck(cl) \/ Decide(cl) \/ InsertKey(cl)
               \/ DropOrphan(cl) \/ MakeRefund(cl) \/ RecordRefund(cl)
        PROVE  Locked'
    BY <2>1, <2>6 DEF Begin, EnterChain, Recheck, Decide, InsertKey, DropOrphan, MakeRefund, RecordRefund,
         TypeOK, Goto, locks, seen
  <2>7. ASSUME NEW cl \in Claims, MintKey(cl) \/ Refuse(cl) \/ RefuseRefunded(cl) PROVE Locked'
    BY <2>1, <2>7 DEF MintKey, Refuse, RefuseRefunded, ClaimIndex, TypeOK, Goto, locks, seen
  <2>8. ASSUME NEW p \in Servers, Crash(p) PROVE Locked'
    BY <2>1, <2>8 DEF Crash, TypeOK, seen
  <2>9. CASE UNCHANGED vars \/ \E s \in Sessions : RefundByHand(s)
    BY <2>1, <2>9 DEF RefundByHand, vars, locks, seen
  <2>10. QED
    BY <2>2, <2>3, <2>4, <2>5, <2>6, <2>7, <2>8, <2>9 DEF Next, ClaimStep
<1>3. QED
  BY <1>1, <1>2, TypeCorrect, PTL DEF Spec

\* What was bought in the day covers the guarded keys of the other sessions that
\* share a key with the claim.
LEMMA BoughtCovers ==
  ASSUME TypeOK, Indexed, NEW cl \in Claims, NEW k \in KeysOf(cl),
         BoughtInDay(cl) + Pack[SessionOf[cl]] <= DailyMax
  PROVE  Total(PackOf, OthersFor(cl, k)) + Pack[SessionOf[cl]] <= DailyMax
<1> DEFINE bought == { r \in rows : /\ SessionOf[r] # SessionOf[cl]
                                   /\ \E h \in KeysOf(cl) : Carries(r, h) }
<1>1. bought \subseteq Claims
  BY DEF TypeOK
<1>2. OthersFor(cl, k) \subseteq bought
  BY DEF OthersFor, IssuedFor, Indexed, Written
<1>3. BoughtInDay(cl) = Total(PackOf, bought)
  BY DEF BoughtInDay, PackOf
<1> HIDE DEF bought
<1>4. /\ Total(PackOf, OthersFor(cl, k)) \in Nat /\ Total(PackOf, bought) \in Nat
      /\ Total(PackOf, OthersFor(cl, k)) <= Total(PackOf, bought)
  BY <1>1, <1>2, LoadsLess
<1>5. Pack[SessionOf[cl]] \in Nat
  OBVIOUS
<1>6. QED
  BY <1>3, <1>4, <1>5

\* A step that issues no key and lets nobody in past its decision leaves the
\* budgets as they are, or takes a key out of them.
LEMMA BudgetKept ==
  ASSUME TypeOK, Budget, UNCHANGED issued, unguarded \subseteq unguarded',
         \A d \in Claims : pc[d] # "buyer" \/ d \notin issued,
         \A d \in Claims : pc[d] # "buyer" => cardKnown'[d] = cardKnown[d],
         \A d \in Claims : pc'[d] \in {"insert", "index"} => pc[d] \in {"insert", "index"}
  PROVE  Budget'
<1>1. issued \subseteq Claims
  BY DEF TypeOK
<1>2. \A d \in Claims : pc[d] # "buyer" => KeysOf(d)' = KeysOf(d)
  BY DEF KeysOf
<1>3. ASSUME NEW k PROVE IssuedFor(k)' \subseteq IssuedFor(k) /\ IssuedFor(k) \subseteq Claims
  BY <1>1, <1>2 DEF IssuedFor, Carries
<1>4. DailyLimit'
  <2> SUFFICES ASSUME NEW k \in Keys PROVE Total(PackOf, IssuedFor(k)') <= DailyMax
    BY DEF DailyLimit, Loaded, IssuedFor, PackOf
  <2>1. Total(PackOf, IssuedFor(k)) <= DailyMax
    BY DEF Budget, DailyLimit, Loaded, IssuedFor, PackOf
  <2>2. QED
    BY <1>3, <2>1, LoadsLess
<1>5. ASSUME NEW cl \in Guarded', pc'[cl] \in {"insert", "index"}, NEW k \in KeysOf(cl)'
      PROVE  Total(PackOf, OthersFor(cl, k)') + Pack[SessionOf[cl]] <= DailyMax
  <2>1. cl \in Guarded /\ cl \in Claims /\ k \in KeysOf(cl) /\ pc[cl] \in {"insert", "index"}
    BY <1>2, <1>5 DEF Guarded
  <2>2. Total(PackOf, OthersFor(cl, k)) + Pack[SessionOf[cl]] <= DailyMax
    BY <2>1 DEF Budget
  <2>3. OthersFor(cl, k)' \subseteq OthersFor(cl, k) /\ OthersFor(cl, k) \subseteq Claims
    BY <1>3 DEF OthersFor
  <2>4. Pack[SessionOf[cl]] \in Nat
    BY <2>1
  <2>5. QED
    BY <2>2, <2>3, <2>4, LoadsLess
<1>6. QED
  BY <1>4, <1>5 DEF Budget, PackOf

\* A key that is issued was within the budget of each of its keys, and the other
\* claims that decided guarded share none of them.
LEMMA IssueWithinBudget ==
  ASSUME TypeOK, Indexed, Locked, Budget, NEW cl \in Claims, MintKey(cl)
  PROVE  Budget'
<1>1. /\ UNCHANGED <<unguarded, cardKnown, lock>>
      /\ pc[cl] = "index"
      /\ pc'[cl] \in {"unlock", "orphan"} /\ \A d \in Claims : d # cl => pc'[d] = pc[d]
  BY DEF MintKey, ClaimIndex, Goto, TypeOK, seen, locks
<1>2. CASE outcome[SessionOf[cl]] # "none"
  <2>1. UNCHANGED issued
    BY <1>2 DEF MintKey
  <2>2. \A d \in issued : pc[d] # "buyer"
    BY DEF Indexed, Written
  <2>3. QED
    BY <1>1, <2>1, <2>2, BudgetKept
<1>3. CASE outcome[SessionOf[cl]] = "none"
  <2>1. issued' = issued \cup {cl} /\ issued \subseteq Claims
    BY <1>3 DEF MintKey, TypeOK
  <2>2. \A d : KeysOf(d)' = KeysOf(d)
    BY <1>1 DEF KeysOf
  <2>3. \A r \in issued : SessionOf[r] # SessionOf[cl] /\ r # cl
    BY <1>3 DEF Indexed, Written
  <2> DEFINE counts(k) == cl \notin unguarded /\ k \in KeysOf(cl)
  <2>4. ASSUME NEW k PROVE IssuedFor(k)' = IF counts(k) THEN IssuedFor(k) \cup {cl} ELSE IssuedFor(k)
    BY <1>1, <2>1, <2>2 DEF IssuedFor, Carries
  <2>5. ASSUME NEW k PROVE /\ IssuedFor(k) \subseteq Claims /\ cl \notin IssuedFor(k)
                           /\ OthersFor(cl, k) = IssuedFor(k)
    BY <2>1, <2>3 DEF IssuedFor, OthersFor
  <2>6. DailyLimit'
    <3> SUFFICES ASSUME NEW k \in Keys PROVE Total(PackOf, IssuedFor(k)') <= DailyMax
      BY DEF DailyLimit, Loaded, IssuedFor, PackOf, Keys
    <3>1. Total(PackOf, IssuedFor(k)) <= DailyMax
      BY DEF Budget, DailyLimit, Loaded, IssuedFor, PackOf
    <3>2. CASE counts(k)
      <4>1. cl \in Guarded
        BY <1>1, <3>2 DEF Guarded
      <4>2. Total(PackOf, IssuedFor(k)) + Pack[SessionOf[cl]] <= DailyMax
        BY <1>1, <2>5, <3>2, <4>1 DEF Budget
      <4>3. IsFiniteSet(IssuedFor(k)) /\ \A r \in IssuedFor(k) \cup {cl} : PackOf[r] \in Nat
        BY <2>5, FS_Subset DEF PackOf
      <4>4. Total(PackOf, IssuedFor(k) \cup {cl}) = Total(PackOf, IssuedFor(k)) + PackOf[cl]
        BY <2>5, <4>3, TotalAdd
      <4>5. PackOf[cl] = Pack[SessionOf[cl]]
        BY DEF PackOf
      <4>6. QED
        BY <2>4, <3>2, <4>2, <4>4, <4>5
    <3>3. CASE ~counts(k)
      BY <2>4, <3>1, <3>3
    <3>4. QED
      BY <3>2, <3>3
  <2>7. ASSUME NEW d \in Guarded', pc'[d] \in {"insert", "index"}, NEW k \in KeysOf(d)'
        PROVE  Total(PackOf, OthersFor(d, k)') + Pack[SessionOf[d]] <= DailyMax
    <3>1. d # cl /\ d \in Claims /\ d \in Guarded /\ pc[d] \in {"insert", "index"} /\ k \in KeysOf(d)
      BY <1>1, <2>2, <2>7 DEF Guarded
    <3>2. ~counts(k)
      BY <1>1, <3>1 DEF Locked, Guarded
    <3>3. OthersFor(d, k)' = OthersFor(d, k)
      BY <2>4, <3>2 DEF OthersFor
    <3>4. QED
      BY <3>1, <3>3 DEF Budget
  <2>8. QED
    BY <2>6, <2>7 DEF Budget, PackOf
<1>4. QED
  BY <1>2, <1>3

LEMMA BudgetInductive ==
  ASSUME SharedStore
  PROVE  Spec => []Budget
<1>1. Init => Budget
  <2> SUFFICES ASSUME Init PROVE Budget
    OBVIOUS
  <2>1. issued = {} /\ \A cl \in Claims : pc[cl] = "idle"
    BY DEF Init
  <2>2. DailyLimit
    <3> SUFFICES ASSUME NEW k \in Keys PROVE Total(PackOf, {}) <= DailyMax
      BY <2>1 DEF DailyLimit, Loaded, PackOf
    <3>1. QED
      BY TotalEmpty
  <2>3. QED
    BY <2>1, <2>2 DEF Budget, Guarded
<1>2. TypeOK /\ Indexed /\ Locked /\ Budget /\ [Next]_vars => Budget'
  <2> SUFFICES ASSUME TypeOK, Indexed, Locked, Budget, [Next]_vars PROVE Budget'
    OBVIOUS
  <2>0. \A d \in Claims : pc[d] # "buyer" \/ d \notin issued
    BY DEF Indexed, Written
  <2>1. ASSUME NEW cl \in Claims,
               \/ Begin(cl) \/ EnterChain(cl) \/ TakeLock(cl) \/ GiveUpLock(cl) \/ Recheck(cl) \/ InsertKey(cl)
               \/ DropOrphan(cl) \/ MakeRefund(cl) \/ RecordRefund(cl) \/ Unlock(cl) \/ LockExpires(cl)
        PROVE  Budget'
    BY <2>0, <2>1, BudgetKept DEF Begin, EnterChain, TakeLock, GiveUpLock, Recheck, InsertKey, DropOrphan,
         MakeRefund, RecordRefund, Unlock, LockExpires, TypeOK, Goto, locks, seen, store
  <2>2. ASSUME NEW cl \in Claims, Refuse(cl) \/ RefuseRefunded(cl) PROVE Budget'
    BY <2>0, <2>2, BudgetKept DEF Refuse, RefuseRefunded, ClaimIndex, TypeOK, Goto, locks, seen
  <2>3. ASSUME NEW cl \in Claims, NEW reads \in BOOLEAN, ReadBuyer(cl, reads) PROVE Budget'
    BY <2>0, <2>3, BudgetKept DEF ReadBuyer, TypeOK, Goto, store
  <2>4. ASSUME NEW cl \in Claims, Decide(cl) PROVE Budget'
    <3>1. CASE pc'[cl] # "insert"
      BY <2>0, <2>4, <3>1, BudgetKept DEF Decide, TypeOK, Goto, locks, seen, store
    <3>2. CASE pc'[cl] = "insert"
      <4>1. /\ UNCHANGED <<issued, unguarded, cardKnown>> /\ pc[cl] = "decide"
            /\ \A d \in Claims : d # cl => pc'[d] = pc[d]
            /\ ~(BoughtInDay(cl) + Pack[SessionOf[cl]] > DailyMax)
        BY <2>4, <3>2 DEF Decide, TypeOK, Goto, locks, seen, store
      <4>2. \A k : IssuedFor(k)' = IssuedFor(k) /\ \A d : KeysOf(d)' = KeysOf(d)
        BY <4>1 DEF IssuedFor, Carries, KeysOf
      <4>3. \A d, k : OthersFor(d, k)' = OthersFor(d, k)
        BY <4>2 DEF OthersFor
      <4>4. BoughtInDay(cl) + Pack[SessionOf[cl]] <= DailyMax
        <5>1. BoughtInDay(cl) \in Nat
          <6> DEFINE bought == { r \in rows : /\ SessionOf[r] # SessionOf[cl]
                                             /\ \E h \in KeysOf(cl) : Carries(r, h) }
          <6>1. bought \subseteq Claims
            BY DEF TypeOK
          <6>2. Total(PackOf, bought) \in Nat
            BY <6>1, LoadsLess
          <6>3. QED
            BY <6>2 DEF BoughtInDay, PackOf
        <5>2. QED
          BY <4>1, <5>1
      <4>5. DailyLimit'
        BY <4>2 DEF Budget, DailyLimit, IssuedFor, Carries
      <4>6. ASSUME NEW d \in Guarded', pc'[d] \in {"insert", "index"}, NEW k \in KeysOf(d)'
            PROVE  Total(PackOf, OthersFor(d, k)') + Pack[SessionOf[d]] <= DailyMax
        <5>1. k \in KeysOf(d) /\ d \in Claims /\ OthersFor(d, k)' = OthersFor(d, k)
          BY <4>2, <4>3, <4>6 DEF Guarded
        <5>2. CASE d = cl
          BY <4>4, <5>1, <5>2, BoughtCovers
        <5>3. CASE d # cl
          BY <4>1, <4>6, <5>1, <5>3 DEF Budget, Guarded
        <5>4. QED
          BY <5>2, <5>3
      <4>7. QED
        BY <4>5, <4>6 DEF Budget, PackOf
    <3>3. QED
      BY <3>1, <3>2
  <2>5. ASSUME NEW p \in Servers, Crash(p) PROVE Budget'
    BY <2>0, <2>5, BudgetKept DEF Crash, TypeOK, seen, store
  <2>6. CASE UNCHANGED vars \/ \E s \in Sessions : RefundByHand(s)
    BY <2>0, <2>6, BudgetKept DEF RefundByHand, vars, locks, seen, store
  <2>7. QED
    BY <2>1, <2>2, <2>3, <2>4, <2>5, <2>6, IssueWithinBudget DEF Next, ClaimStep
<1>3. QED
  BY <1>1, <1>2, TypeCorrect, IndexedInductive, LockedInductive, PTL DEF Spec

\* With the shared store, the claims of one buyer that keep their locks never pass
\* the daily limit on the same total, on one process or on several: the keys they
\* are issued for an email, or for a card, stay within it.
THEOREM DailyLimitAlways ==
  ASSUME SharedStore
  PROVE  Spec => []DailyLimit
<1>1. Budget => DailyLimit
  BY DEF Budget
<1>2. QED
  BY <1>1, BudgetInductive, PTL
=============================================================================
