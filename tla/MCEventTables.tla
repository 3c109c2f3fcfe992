--------------------------- MODULE MCEventTables ---------------------------
(* Two events on pages of one row, and a filter that matches the older.    *)
EXTENDS EventTables

\* The filter and what it matches.
MCTexts == {"", "old"}
MCContains == [t \in MCTexts |-> IF t = "" THEN 1..2 ELSE {1}]
MCDeliveryIds == 1..(MaxMoves + 1)
=============================================================================
