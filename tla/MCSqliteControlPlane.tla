------------------------ MODULE MCSqliteControlPlane ------------------------
(* Instance of SqliteControlPlane for TLC: two submissions share a key. *)
EXTENDS SqliteControlPlane

MCKey == [x \in Work |-> IF x \in Jobs THEN "key" ELSE None]
=============================================================================
