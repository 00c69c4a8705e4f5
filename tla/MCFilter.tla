------------------------------ MODULE MCFilter ------------------------------
(***************************************************************************)
(* Constants of Filter for TLC: two words, three keywords, of which one is *)
(* whitelisted and takes away from the strength and one needs both words,  *)
(* and every URL of up to two tokens, one of them too short to count.      *)
(***************************************************************************)
EXTENDS Filter

CONSTANTS first, second

MCBlacklist ==
    <<[category |-> "Porn", strength |-> 100, words |-> <<first>>],
      [category |-> "Whitelist", strength |-> -50, words |-> <<second>>],
      [category |-> "Drugs", strength |-> 7, words |-> <<first, second>>]>>

MCExtensions == <<200, 10>>

\* A part of the token, and all of it.
Part(length)  == [length |-> 1, edges |-> 1]
Whole(length) == [length |-> length, edges |-> 2]

Tokens ==
    UNION {{[length |-> length, hits |-> (first :> f) @@ (second :> s)] :
            f \in {<<>>, <<Whole(length)>>, <<Part(length), Part(length)>>},
            s \in {<<>>, <<Part(length)>>}} : length \in {2, 4}}

MCUrls ==
    [found : SUBSET {first, second}, tokens : BoundedSeq(Tokens, 2), extensions : {{}, {1, 2}}]

\* Twice the length of a token times the numbers of hits, 1 to 6.
MCUnit == 2 * 4 * 60

=============================================================================
