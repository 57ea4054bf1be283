-------------------------- MODULE MCWatchStream --------------------------
(* Two plans of one project and one of another, for TLC.                    *)
EXTENDS WatchStream

CONSTANTS a, b, solo, shared, other

MCHome == [p \in {a, b, solo} |-> IF p = solo THEN other ELSE shared]
MCPaths == <<a, solo, b>>
MCKind == [p \in {a, b, solo} |-> IF p = b THEN {"lease"} ELSE {"progress"}]
MCRoom == [pr \in {shared, other} |-> IF pr = shared THEN 3 ELSE 1]
=============================================================================
