--------------------------- MODULE ReportDelivery ---------------------------
(***************************************************************************)
(* What the reports promise: an entry is logged once, may be delivered any *)
(* number of times as long as it is stored, and is deleted only after it   *)
(* was delivered.  Nobody escapes a report by being logged at a bad time.  *)
(***************************************************************************)
CONSTANT Entries

VARIABLES logged,    \* the entries that were ever stored
          stored,    \* those that still are
          delivered  \* those that a delivered report lists

vars == <<logged, stored, delivered>>

Init == logged = {} /\ stored = {} /\ delivered = {}

Log == \E e \in Entries \ logged :
    /\ logged' = logged \cup {e}
    /\ stored' = stored \cup {e}
    /\ UNCHANGED delivered

Deliver == \E report \in SUBSET stored :
    /\ delivered' = delivered \cup report
    /\ UNCHANGED <<logged, stored>>

Rotate == \E old \in SUBSET (stored \cap delivered) :
    /\ stored' = stored \ old
    /\ UNCHANGED <<logged, delivered>>

Next == Log \/ Deliver \/ Rotate

Spec == Init /\ [][Next]_vars

=============================================================================
