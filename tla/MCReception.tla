---------------------------- MODULE MCReception -----------------------------
(***************************************************************************)
(* Four of the eight fields, integers of 4 bits (-8 to 7) and 5 bits, and  *)
(* numbers of up to 2 characters.  The test gets every text of up to 7     *)
(* characters.  The reader has room for lines of 7: it gets frames of 6    *)
(* and 7, one that does not fit, a number out of range and an empty line.  *)
(***************************************************************************)
EXTENDS Reception

MCFields == <<"ground", "long", "int", "double">>
MCAlphabet == {"G", ";", "-", "0", "8"}
MCBoostLines == {<<"G", ";", "8", ";", "0", ";">>, <<"G", ";", "0", ";", "-", "8", ";">>,
                 <<"G", ";", "-", "8", ";", "0", ";", "0">>}
MCLines == MCBoostLines \cup {<<"G", ";", "0", ";", "8", ";">>, << >>}
=============================================================================
