---------------------------- MODULE MCSnifferLog ----------------------------
(***************************************************************************)
(* Constants of SnifferLog for TLC.  A clean request, one with a single    *)
(* keyword and one with two are enough for every path through logUrl,      *)
(* logWarning and the loop of logMatch.                                    *)
(***************************************************************************)
EXTENDS SnifferLog

CONSTANTS clean, bad, worse

MCMatches == [p \in Packets |-> CASE p = clean -> 0 [] p = bad -> 1 [] p = worse -> 2]

\* _lastRowId may hold the rowid of the session (1), or something that is the
\* rowid of no URL yet.
MCStaleRowIds == {0, 1}

=============================================================================
