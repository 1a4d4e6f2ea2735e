----------------------------- MODULE MCMetadata -----------------------------
(* A small instance of Metadata: a subnet with a curated name, whose name on *)
(* the page is cut off and whose entry under the second storage key bears    *)
(* none; and one that the page does not list, that was named differently     *)
(* when the seed names were collected, and whose older identity is markup.   *)
EXTENDS Metadata

CONSTANTS n1, n2

MCNames == {"GroundLayer", "GroundLa", "Gamma", "Gamma<br>", "Delta"}
Kin == {<<"GroundLayer", "GroundLa">>, <<"Gamma<br>", "Gamma">>}
MCFamily == {<<a, a>> : a \in MCNames} \cup Kin \cup {<<k[2], k[1]>> : k \in Kin}
MCLength ==
  [a \in MCNames |-> CASE a = "GroundLayer" -> 11 [] a = "GroundLa" -> 8
                       [] a = "Gamma<br>" -> 9 [] OTHER -> 5]

Of(first, second) == [n \in Netuids |-> IF n = n1 THEN first ELSE second]
MCChain    == <<Of("GroundLa", "Gamma"), Of(NoName, "Gamma<br>")>>
MCPage     == Of("GroundLa", NoName)
MCSeed     == Of("Delta", "Delta")
MCOverride == Of("GroundLayer", NoName)
=============================================================================
