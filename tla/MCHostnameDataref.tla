-------------------------- MODULE MCHostnameDataref --------------------------
(***************************************************************************)
(* Host names of up to 4 characters, of which a scoped address takes all.  *)
(* Texts replace, extend or end the name at each offset; names are shorter *)
(* than, as long as and parts of each other, too long, or not valid.       *)
(***************************************************************************)
EXTENDS HostnameDataref

CONSTANTS a, g

MCHexDigits == {a}
MCOtherLetters == {g}
MCDefault == <<g, a>>
MCTexts ==
    UNION {[1 .. n -> Chars \cup {NUL}] : n \in 1 .. 2} \cup {<< >>, <<a, a, a, Percent, g>>}
MCNames ==
    {<<a>>, <<a, g>>, <<g, a, g>>, <<a, Colon, a>>, <<g, a, g, a>>, <<a, Dot, Dot>>, << >>,
     <<a, g, a, g, a>>}
==============================================================================
