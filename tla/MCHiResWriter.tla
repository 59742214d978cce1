---------------------------- MODULE MCHiResWriter ----------------------------
(* Instances of HiResWriter: book rows are never dropped, trades may be.     *)
EXTENDS HiResWriter
Two == {"book", "trade"}
TwoPriorities == [k \in Two |-> IF k = "book" THEN 0 ELSE 2]
Three == {"book", "ticker", "trade"}
ThreePriorities == [k \in Three |-> CASE k = "book" -> 0
                                      [] k = "ticker" -> 1
                                      [] k = "trade" -> 2]
=============================================================================
