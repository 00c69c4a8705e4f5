----------------------------- MODULE FlaggedLog -----------------------------
(***************************************************************************)
(* What the database promises its readers about the log, without threads,  *)
(* bound fields, rowids or retries: a sequence of visited URLs, in which   *)
(* an entry may be flagged right after it was added, if the filter found   *)
(* keywords in it, and is then given those keywords one after another.     *)
(* Earlier entries never change.  The promise ends with the first entry    *)
(* that could not be stored.                                               *)
(***************************************************************************)
EXTENDS Naturals, Sequences, FiniteSets

CONSTANTS Packets, Matches

VARIABLES log,
          broken \* whether something could not be stored

vars == <<log, broken>>

Entry(p) == [url |-> p, flagged |-> FALSE, words |-> {}]

Last == log[Len(log)]

\* The last entry becomes e.
Amend(e) == log' = [log EXCEPT ![Len(log)] = e]

Init ==
    /\ log = <<>>
    /\ broken = FALSE

Visit(p) ==
    /\ \A n \in 1..Len(log) : log[n].url # p
    /\ log # <<>> => Cardinality(Last.words) = Matches[Last.url]
    /\ log' = Append(log, Entry(p))

Flag ==
    /\ log # <<>>
    /\ Matches[Last.url] > 0
    /\ ~Last.flagged
    /\ Amend([Last EXCEPT !.flagged = TRUE])

\* The k-th keyword comes after the k - 1 before it.
AddWord ==
    /\ log # <<>>
    /\ Last.flagged
    /\ \E k \in 1..Matches[Last.url] :
          /\ Last.words = {<<Last.url, j>> : j \in 1..(k - 1)}
          /\ Amend([Last EXCEPT !.words = @ \cup {<<Last.url, k>>}])

Add ==
    /\ \/ \E p \in Packets : Visit(p)
       \/ Flag
       \/ AddWord
    /\ UNCHANGED broken

\* From here on nothing is promised.
Break == broken' = TRUE

Spec == Init /\ [][Add \/ Break]_vars

=============================================================================
