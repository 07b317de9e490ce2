--------------------------- MODULE MCArchiveImport ----------------------------
(* An instance of ArchiveImport for TLC: a scene that shows a map, and a portrait. *)
EXTENDS ArchiveImport

MCRefers == {<<"scene", "map">>}
===============================================================================
