---------------------------- MODULE BootHistory ----------------------------
(***************************************************************************)
(* BootHistory: what the file wtmp tells about the sessions of the         *)
(* computer, that is the times from a boot to the halt after it.           *)
(*                                                                         *)
(* A record of wtmp is a boot, a halt (a shutdown record, or a change to   *)
(* run level 0 or 6) or anything else.  A computer that crashes leaves no  *)
(* record.                                                                 *)
(***************************************************************************)
EXTENDS Naturals, Sequences, SequencesExt, FiniteSetsExt, TLC

CONSTANT Fresh  \* so soon after its end a session is taken for the running one

ASSUME BootHistoryAssumption == Fresh \in Nat \ {0}

WtmpRecord == [kind : {"boot", "down", "other"}, time : Nat]

\* The file is read from its last record to its first.  lastdown, at first the time
\* of the reading, is then the halt that follows record n most closely.
LastDown(wtmp, n, now) ==
    LET downs == {m \in n+1..Len(wtmp) : wtmp[m].kind = "down"} IN
    IF downs = {} THEN now ELSE wtmp[Min(downs)].time

\* The map _boots from boot times to halt times: of two boots at a time the later
\* record counts.
ReadFile(wtmp, now) ==
    LET Booted == {n \in 1..Len(wtmp) : wtmp[n].kind = "boot"} IN
    [b \in {wtmp[n].time : n \in Booted} |->
        LastDown(wtmp, Max({n \in Booted : wtmp[n].time = b}), now)]

\* map::insert, which keeps an entry that is already there.
Insert(map, key, value) ==
    [k \in DOMAIN map \cup {key} |-> IF k \in DOMAIN map THEN map[k] ELSE value]

\* The loop of readFile: what a record adds to what was read after it.
ReadRecord(r, read) ==
    CASE r.kind = "down" -> [read EXCEPT !.lastdown = r.time]
      [] r.kind = "boot" -> [read EXCEPT !.boots = Insert(@, r.time, read.lastdown)]
      [] OTHER -> read

ReadBackwards(wtmp, now) ==
    FoldRight(ReadRecord, wtmp, [lastdown |-> now, boots |-> [b \in {} |-> 0]]).boots

\* The boot time of the running session, 0 if none ended just now.
BootTime(boots, now) ==
    Max({0} \cup {b \in DOMAIN boots : now < boots[b] + Fresh})

\* A slip: a later session with the same halt time is not looked for.
HaltTimeRead(boots, boot, now) ==
    IF boot \in DOMAIN boots /\ boot # BootTime(boots, now) THEN boots[boot] ELSE 0

\* The time the session with that boot time halted, 0 if it is the running one,
\* unknown, or crashed: then a later session has the same halt time.
HaltTime(boots, boot, now) ==
    IF /\ boot \in DOMAIN boots
       /\ boot # BootTime(boots, now)
       /\ \A b \in DOMAIN boots : b > boot => boots[b] # boots[boot]
    THEN boots[boot]
    ELSE 0

\* The sessions that are not logged, after the first one that is.
OmittedSessions(boots, logged, now) ==
    {b \in DOMAIN boots \ logged :
        /\ b # BootTime(boots, now)
        /\ \E first \in logged \cap DOMAIN boots : first < b}

=============================================================================
