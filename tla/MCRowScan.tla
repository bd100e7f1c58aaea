----------------------------- MODULE MCRowScan -----------------------------
(* RowScan over rows of eight pixels (four chroma cells), two rows a frame. *)
EXTENDS RowScan
====
