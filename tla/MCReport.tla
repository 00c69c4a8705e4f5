------------------------------ MODULE MCReport ------------------------------
(***************************************************************************)
(* Constants of Report for TLC.  Two flagged requests share a keyword, one *)
(* of them is weak, and one is whitelisted; one hostname ends in the       *)
(* domain of another without belonging to it.                              *)
(***************************************************************************)
EXTENDS Report, TLC

CONSTANTS bad, mild, white, \* requests
          gun, porn,        \* keywords
          ab_com, b_com, www_b_com

MCHost == (bad :> ab_com) @@ (mild :> www_b_com) @@ (white :> www_b_com)
MCKeywords == (bad :> {gun, porn}) @@ (mild :> {gun}) @@ (white :> {gun})
MCStrength == (bad :> 5) @@ (mild :> 1) @@ (white :> 5)
MCDomain == (ab_com :> ab_com) @@ (www_b_com :> b_com)
MCEndsIn == {<<ab_com, ab_com>>, <<www_b_com, b_com>>, <<ab_com, b_com>>}

\* Everything everywhere; a short body, and the rest in an archive.
MCConfigurations ==
    {[body |-> Parts, attached |-> Parts, threshold |-> 0, compress |-> FALSE],
     [body |-> {"warnings"}, attached |-> {"bypasses", "whitelist", "history_hostnames"},
      threshold |-> 2, compress |-> TRUE]}

Symmetry == Permutations(Reporters)

=============================================================================
