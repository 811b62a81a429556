------------------------------ MODULE MCEndToEnd ------------------------------
(***************************************************************************)
(* EndToEnd for TLC: an empty file, one with equal stamps, and one with    *)
(* stamps out of order and a line that has none.                           *)
(***************************************************************************)
EXTENDS EndToEnd

MCFiles == {<<>>, <<5, 5>>, <<9, Absent, 4>>}
=============================================================================
