----------------------------- MODULE MCSessions -----------------------------
(***************************************************************************)
(* Sessions for TLC, with a comparison of the loop of                      *)
(* BootHistory::readFile with what ReadFile says at once.                  *)
(***************************************************************************)
EXTENDS Sessions

SmallRecord == {r \in [kind : {"boot", "down", "other"}, time : 1..3] : r.kind = "other" => r.time = 1}

\* The two agree on every file of up to four records, also one that no computer
\* writes.
ASSUME ReadingAgrees ==
    \A file \in BoundedSeq(SmallRecord, 4) : ReadFile(file, 4) = ReadBackwards(file, 4)

=============================================================================
