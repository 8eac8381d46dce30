------------------------------ MODULE MCShell -------------------------------
EXTENDS Shell

CONSTANT MaxLen          (* every line of at most this length is typed      *)

Chars == {"a", " "} \cup symbols

MCScripts ==
  {<<b>> : b \in UNION {[1 .. n -> Chars] : n \in 1 .. MaxLen}}
    \cup {<<<<"a", "|", "b", "|", "c">>>>,
          <<<<"(", "a", ";", "b", ")", "|", "c">>>>,
          <<<<"a", "<", "f", "|", "b", ">", ">", "g">>>>,
          <<<<"(", "a", "|", "b", ")", ">", "f", ";", "c">>>>,
          <<<<"a", ">", "f", " ", "b", ">", "g">>>>,
          <<<<"a", " ", "b", " ", "c">>>>,
          <<<<"(", "a", ")", ">", "f", ">", "g">>>>,
          <<<<"(", "a", "&", "b", ")">>>>,
          <<<<"c", "d", " ", "a">>, <<"a", "&">>, <<"b", "|", "c">>>>,
          <<<<"(", "a", "|", "b", ")", "&", ";", "c">>>>}

=============================================================================
