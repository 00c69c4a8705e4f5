------------------------------- MODULE Filter -------------------------------
(***************************************************************************)
(* What the filter makes of a URL.  Filter::isUrlMatch looks for every     *)
(* keyword of the blacklist in the URL as a whole; if one of them is not   *)
(* whitelisted, Filter::isTokenMatch splits the decoded URL into tokens    *)
(* and looks for the keywords found in each of them, to tell how strong    *)
(* the match is.  A SnifferThread uses one BlacklistMatch for all the      *)
(* requests it reads, so that what one of them leaves in it is there when  *)
(* the next one is matched.                                                *)
(*                                                                         *)
(* A keyword is several words, each a regular expression; what they match  *)
(* is an input: a URL is the set of the words found in it, the tokens of   *)
(* the decoded URL with the hits of each word, and the extensions that     *)
(* match its own.  As a URL may be encoded, or a word go beyond a token,   *)
(* the two are independent.  No word matches the empty string, and every   *)
(* keyword has a word.  The strengths are exact multiples of 1/Unit, where *)
(* the code has floats.                                                    *)
(***************************************************************************)
EXTENDS Integers, Sequences, SequencesExt

CONSTANTS Words,      \* the regular expressions of all keywords
          Blacklist,  \* the keywords of all categories, in the order of the file
          Extensions, \* the strengths of the extensions, in the order of the file
          Urls,       \* see above
          Unit,       \* see above
          None        \* no URL

Keyword == [category : STRING, strength : Int, words : Seq(Words)]

\* edges is the number of the hit's ends at which a word of the token ends.
Hit == [length : Nat \ {0}, edges : 0..2]

Token == [length : Nat \ {0}, hits : [Words -> Seq(Hit)]]

ASSUME FilterAssumption ==
    /\ Blacklist \in Seq(Keyword)
    /\ \A k \in 1..Len(Blacklist) : Blacklist[k].words # <<>>
    /\ Extensions \in Seq(Int)
    /\ \A u \in Urls : /\ u.found \subseteq Words
                       /\ u.tokens \in Seq(Token)
                       /\ u.extensions \subseteq 1..Len(Extensions)
    /\ \A u \in Urls : \A n \in 1..Len(u.tokens) : Unit % (2 * u.tokens[n].length) = 0
    /\ Unit \in Nat \ {0}
    /\ None \notin Urls

VARIABLES
    pc,
    url,    \* the request, as the filter sees it
    match,  \* the BlacklistMatch of the thread
    verdict \* isMatch

vars == <<pc, url, match, verdict>>

NoMatch == [keyword |-> <<>>, whitelist |-> FALSE, strength |-> 0]

Init ==
    /\ pc = "next"
    /\ url = None
    /\ match = NoMatch
    /\ verdict = FALSE

Whitelisted(k) == Blacklist[k].category = "Whitelist"

-----------------------------------------------------------------------------
GotRequest(u) ==
    /\ pc = "next"
    /\ url' = u
    /\ pc' = "isUrlMatch"
    /\ UNCHANGED <<match, verdict>>

\* isSubMatch: all the words of the keyword are found.
SubMatch(k, found) == \A n \in 1..Len(Blacklist[k].words) : Blacklist[k].words[n] \in found

\* One keyword more in the loop of isUrlMatch.
AddKeyword(m, k) ==
    IF SubMatch(k, url.found)
    THEN [keyword |-> Append(m.keyword, k),
          whitelist |-> m.whitelist \/ Whitelisted(k),
          strength |-> m.strength + Blacklist[k].strength]
    ELSE m

\* Slips: what the request before left in the match is not cleared.
IsUrlMatchUncleared ==
    /\ pc = "isUrlMatch"
    /\ LET m == FoldLeftDomain(AddKeyword, [match EXCEPT !.whitelist = FALSE, !.strength = 0],
                               Blacklist) IN
          /\ match' = m
          /\ verdict' = (\E n \in 1..Len(m.keyword) : ~Whitelisted(m.keyword[n]))
          /\ pc' = IF verdict' THEN "isTokenMatch" ELSE "decided"
    /\ UNCHANGED url

IsUrlMatchStaleWhitelist ==
    /\ pc = "isUrlMatch"
    /\ LET m == FoldLeftDomain(AddKeyword, [match EXCEPT !.keyword = <<>>, !.strength = 0],
                               Blacklist) IN
          /\ match' = m
          /\ verdict' = (\E n \in 1..Len(m.keyword) : ~Whitelisted(m.keyword[n]))
          /\ pc' = IF verdict' THEN "isTokenMatch" ELSE "decided"
    /\ UNCHANGED url

\* Filter::isUrlMatch: a URL with whitelisted keywords only does not match.
IsUrlMatch ==
    /\ pc = "isUrlMatch"
    /\ LET m == FoldLeftDomain(AddKeyword, NoMatch, Blacklist) IN
          /\ verdict' = (\E n \in 1..Len(m.keyword) : ~Whitelisted(m.keyword[n]))
          /\ match' = IF verdict' THEN m ELSE [m EXCEPT !.strength = 0]
          /\ pc' = IF verdict' THEN "isTokenMatch" ELSE "decided"
    /\ UNCHANGED url

-----------------------------------------------------------------------------
(***************************************************************************)
(* Filter::isTokenMatch.  Its state is what the loops carry on: the        *)
(* strength so far, whether anything matched, and for the keywords of a    *)
(* token tokenMatches, which counts the hits of all of them.               *)
(***************************************************************************)

\* A hit weighs its share of the token, more if a word begins or ends there.
Weight(t, hit) == (hit.length * (1 + hit.edges) * Unit) \div (2 * t.length)

WordWeight(t, word) == SumFunction([n \in 1..Len(t.hits[word]) |-> Weight(t, t.hits[word][n])])

\* The words the loop looks at and finds: it ends with the first one missing.
WordsBefore(t, words) ==
    LET missing == {n \in 1..Len(words) : t.hits[words[n]] = <<>>}
    IN  {n \in 1..Len(words) : \A m \in missing : n < m}

\* strengthFactor and the number of hits after the loop over those words.
FactorOf(t, words) ==
    SumFunction([n \in WordsBefore(t, words) |-> WordWeight(t, words[n])])

HitsOf(t, words) ==
    SumFunction([n \in WordsBefore(t, words) |-> Len(t.hits[words[n]])])

InToken(t, words) == \A n \in 1..Len(words) : t.hits[words[n]] # <<>>

NothingYet == [strength |-> 0, isMatch |-> FALSE, tokenMatches |-> 0]

\* A slip: one word of a keyword is enough.
MatchKeywordPartly(t, acc, k) ==
    LET words        == Blacklist[k].words
        factor       == FactorOf(t, words)
        tokenMatches == acc.tokenMatches + HitsOf(t, words)
    IN  IF HitsOf(t, words) > 0
        THEN [strength |-> acc.strength
                           + (factor + factor \div tokenMatches) * Blacklist[k].strength,
              isMatch |-> TRUE,
              tokenMatches |-> tokenMatches]
        ELSE [acc EXCEPT !.tokenMatches = tokenMatches]

\* One keyword more in the loop over the keywords of a token.
MatchKeyword(t, acc, k) ==
    LET words        == Blacklist[k].words
        factor       == FactorOf(t, words)
        tokenMatches == acc.tokenMatches + HitsOf(t, words)
    IN  IF InToken(t, words)
        THEN [strength |-> acc.strength
                           + (factor + factor \div tokenMatches) * Blacklist[k].strength,
              isMatch |-> TRUE,
              tokenMatches |-> tokenMatches]
        ELSE [acc EXCEPT !.tokenMatches = tokenMatches]

\* One token more: those of one or two characters are passed over.
MatchToken(acc, t) ==
    IF t.length > 2
    THEN FoldLeft(LAMBDA a, k : MatchKeyword(t, a, k), [acc EXCEPT !.tokenMatches = 0],
                  match.keyword)
    ELSE acc

\* Filter::getExtensionFactor, in percent: the first extension that matches.
ExtensionFactor(u) ==
    IF u.extensions = {} THEN 100
    ELSE Extensions[CHOOSE n \in u.extensions : \A m \in u.extensions : n <= m]

\* The conversion to int cuts the fraction off.
Truncate(x, d) == IF x >= 0 THEN x \div d ELSE -((-x) \div d)

ToStrength(units) == Truncate(units * ExtensionFactor(url), 100 * Unit)

\* A slip: isMatch is what isUrlMatch returned.
IsTokenMatchAnyway ==
    /\ pc = "isTokenMatch"
    /\ LET result == FoldLeft(MatchToken, NothingYet, url.tokens) IN
          match' = IF result.isMatch THEN [match EXCEPT !.strength = ToStrength(result.strength)]
                   ELSE match
    /\ pc' = "decided"
    /\ UNCHANGED <<url, verdict>>

IsTokenMatch ==
    /\ pc = "isTokenMatch"
    /\ LET result == FoldLeft(MatchToken, NothingYet, url.tokens) IN
          /\ verdict' = result.isMatch
          /\ match' = IF result.isMatch
                      THEN [match EXCEPT !.strength = ToStrength(result.strength)]
                      ELSE match
    /\ pc' = "decided"
    /\ UNCHANGED url

\* The request is logged and, with this verdict, the match.
Log ==
    /\ pc = "decided"
    /\ url' = None
    /\ verdict' = FALSE
    /\ pc' = "next"
    /\ UNCHANGED match

Next ==
    \/ \E u \in Urls : GotRequest(u)
    \/ IsUrlMatch
    \/ IsTokenMatch
    \/ Log

Spec == Init /\ [][Next]_vars

-----------------------------------------------------------------------------
(***************************************************************************)
(* Properties.                                                             *)
(***************************************************************************)
Keywords == 1..Len(Blacklist)

\* Every variable stays in its type; a match in particular holds a keyword once.
TypeOK ==
    /\ pc \in {"next", "isUrlMatch", "isTokenMatch", "decided"}
    /\ url \in Urls \cup {None}
    /\ match.keyword \in Seq(Keywords)
    /\ IsInjective(match.keyword)
    /\ match.whitelist \in BOOLEAN
    /\ match.strength \in Int
    /\ verdict \in BOOLEAN

\* The keywords all of whose words are found in the URL of the request.
Found == {k \in Keywords : ToSet(Blacklist[k].words) \subseteq url.found}

\* The tokens that are long enough.
Considered == {t \in ToSet(url.tokens) : t.length > 2}

\* "The return value is true if the URL is considered suspicious, otherwise
\* false" (Filter.h:73): what the loops of the two methods come to for any order
\* of the blacklist and whatever was matched before.  Some keyword is found in the
\* URL that is not whitelisted, and some keyword (the same or another, whitelisted
\* or not) in a single token.
Suspicious ==
    /\ \E k \in Found : Blacklist[k].category # "Whitelist"
    /\ \E k \in Found, t \in Considered : \A w \in ToSet(Blacklist[k].words) : Len(t.hits[w]) > 0

VerdictIsRight == pc = "decided" => (verdict <=> Suspicious)

\* "The keywords that are found in the URL" and "if it is a whitelist match"
\* (Blacklist.h:93-97): although one match serves for all requests of a thread,
\* it tells of this one only, and of all of its keywords.
MatchIsOfThisUrl ==
    pc \in {"isTokenMatch", "decided"} =>
        /\ ToSet(match.keyword) = Found
        /\ match.whitelist <=> \E k \in Found : Whitelisted(k)

\* The strength of the hits of a keyword in the tokens.
TokenShare(t, k) ==
    IF t.length > 2 /\ InToken(t, Blacklist[k].words) THEN FactorOf(t, Blacklist[k].words) ELSE 0

Share(k) ==
    SumFunction([n \in 1..Len(url.tokens) |-> TokenShare(url.tokens[n], k)]) * Blacklist[k].strength

Least(k) == IF Blacklist[k].strength < 0 THEN 2 * Share(k) ELSE Share(k)
Most(k)  == IF Blacklist[k].strength < 0 THEN Share(k) ELSE 2 * Share(k)

\* "This means every match will be given an individual strength" (Filter.h:53-54):
\* a keyword contributes what its hits weigh in the tokens, at least once and at
\* most twice, and nothing from another URL, token or keyword comes to that.  The
\* factor of an extension may be negative.
StrengthInBounds ==
    pc = "decided" /\ verdict =>
        LET low  == ToStrength(SumFunction([k \in Found |-> Least(k)]))
            high == ToStrength(SumFunction([k \in Found |-> Most(k)]))
        IN  match.strength \in low..high \cup high..low

=============================================================================
