----------------------------- MODULE MCNetSinks -----------------------------
(* Small instances of NetSinks. *)
EXTENDS NetSinks

(* The third event is longer than the mtu and, as an ndjson element, than  *)
(* a body; the first two fill one exactly, the second and the fourth would *)
(* without room for the closing bracket.                                   *)
NeedDef == <<2, 3, 9, 3>>
=============================================================================
