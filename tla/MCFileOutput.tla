---------------------------- MODULE MCFileOutput ----------------------------
(* Small instances of FileOutput. *)
EXTENDS FileOutput

(* A buffer of 4 with a threshold of 3: lines that stay in the buffer, that *)
(* fill it, that make it be written first, and one larger than the buffer.  *)
SizeDef == <<1, 2, 1, 5>>
=============================================================================
