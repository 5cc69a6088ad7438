--------------------------- MODULE MCCreditsClaim ---------------------------
(* Sessions a and b of one buyer: one email, two cards. *)
EXTENDS CreditsClaim, TLC

MCSessions  == {"a", "b"}
\* Session a may be claimed twice.
MCClaims    == {"a1", "a2", "b1"}
MCTwoClaims == {"a1", "b1"}
MCServers   == {"p", "q"}
MCSessionOf == [cl \in Claims |-> IF cl = "b1" THEN "b" ELSE "a"]
\* The second claim of a runs on another process.
MCServerOf  == [cl \in Claims |-> IF cl = "a2" THEN "q" ELSE "p"]
MCEmail     == [s \in MCSessions |-> "email"]
MCCard      == [s \in MCSessions |-> IF s = "a" THEN "card1" ELSE "card2"]
MCPack      == [s \in MCSessions |-> 2]
=============================================================================
