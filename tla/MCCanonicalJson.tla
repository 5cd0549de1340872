-------------------------- MODULE MCCanonicalJson --------------------------
(***************************************************************************)
(* Keys and strings in two spellings, on both sides of the point where     *)
(* UTF-8 and UTF-16 order differ, that look like array indexes, and with a *)
(* lone surrogate; maps of at most two keys and one level of nesting.      *)
(***************************************************************************)
EXTENDS CanonicalJson

\* A name in capitals stands for one character; e-acute~ is its decomposed form.
MCCodePoints ==
  [s \in {"a", "10", "9", "e-acute", "e-acute~", "PRIVATE", "EMOJI", "LONE",
          "REPLACEMENT", "$bytes_hex", "6b"} |->
     CASE s = "a" -> <<97>>
       [] s = "10" -> <<49, 48>>
       [] s = "9" -> <<57>>
       [] s = "e-acute" -> <<233>>
       [] s = "e-acute~" -> <<101, 769>>
       [] s = "PRIVATE" -> <<57344>>
       [] s = "EMOJI" -> <<128512>>
       [] s = "LONE" -> <<55357>>
       [] s = "REPLACEMENT" -> <<65533>>
       [] s = "$bytes_hex" -> <<36, 98, 121, 116, 101, 115, 95, 104, 101, 120>>
       [] s = "6b" -> <<54, 98>>]

MCNfc(s) == IF s = "e-acute~" THEN "e-acute" ELSE s

MCArrayIndex == [s \in {"9", "10"} |-> IF s = "9" THEN 9 ELSE 10]

MCKeys == {"10", "9", "e-acute", "e-acute~", "PRIVATE", "EMOJI", "LONE", "$bytes_hex"}

Numbers ==
  {<<"num", n, "int">> : n \in {-3, -2, 0, 2, 3}}
  \cup {<<"num", 0, "minus_zero">>, <<"num", 2, "decimal">>,
        <<"num", 2, "rounded">>, <<"num", 2, "fraction">>}

Texts == {<<"str", s>> : s \in {"6b", "e-acute", "e-acute~", "LONE"}}

MCLeaves ==
  Numbers \cup Texts
  \cup {<<"null">>, <<"bool", TRUE>>, <<"bytes", "6b">>, <<"list", << >> >>, <<"map", << >> >>}

\* What a document may hold besides one more member: leaves in a list, and in a
\* map these.
PairMembers == {Part(v) : v \in {<<"num", 2, "int">>, <<"num", 3, "int">>, <<"str", "e-acute~">>}}

\* The documents that are put into others: two keys in each order, or one key.
Inner ==
  {<<"map", << <<k, Part(<<"num", 2, "int">>)>>, <<l, Part(<<"num", 3, "int">>)>> >> >> :
     <<k, l>> \in {p \in MCKeys \X MCKeys : p[1] # p[2]}}
  \cup {<<"map", << <<k, p>> >> >> : k \in MCKeys, p \in PairMembers}
  \cup {<<"map", << <<"$bytes_hex", Part(<<"str", "6b">>)>> >> >>, <<"list", <<Part(<<"str", "LONE">>)>> >>}

InnerParts == {Part(v) : v \in Inner}

\* Lists of two leaves, maps of two keys with the members above, and at most one
\* document that is put into others, as an only member.
MCConsidered(d, kept) ==
  /\ Cardinality(kept) <= 1 /\ kept \subseteq InnerParts
  /\ Kind(d) \in {"list", "map"} => Len(d[2]) <= 2
  /\ Kind(d) = "list" /\ Len(d[2]) = 2 => Range(d[2]) \subseteq LeafParts
  /\ Kind(d) = "map" /\ Len(d[2]) = 2 => {d[2][1][2], d[2][2][2]} \subseteq PairMembers
=============================================================================
