--------------------------- MODULE BypassesProofs ---------------------------
(***************************************************************************)
(* Proofs about the bypasses that Sessions logs: each is one the user is   *)
(* answerable for, and each of those is logged, once.                      *)
(*                                                                         *)
(* At any time some bypasses are still due: the table and wtmp show them,  *)
(* so that this start of the program or the next one logs them.  A start   *)
(* and a halt make the outage due that they put an end to; what is logged  *)
(* was due until then; everything else leaves alone what is due.           *)
(***************************************************************************)
EXTENDS SessionsProofs

\* The boots with a row, and in the first loop of a start those that had one.
Logged(phase) ==
    {row.boot : row \in sessions} \cup IF phase \in {"row", "delete"} THEN seen ELSE {}

\* The bypass x is still to be logged.
LateDue(x, phase) ==
    /\ x.kind = "late"
    /\ x.gap > StartGap
    /\ \/ /\ phase # "delete"
          /\ \E row \in sessions : row.boot = x.boot /\ x.gap = row.start - row.boot
       \/ /\ phase \in Phases
          /\ x.boot = boot
          /\ x.gap = now - boot
          /\ \A row \in sessions : row.boot # boot

KilledDue(x, phase) ==
    /\ x.kind = "killed"
    /\ x.gap = 0
    /\ \E row \in sessions :
          /\ row.boot = x.boot
          /\ row.stop = 0
          /\ \/ row.boot \in DOMAIN halted /\ phase # "delete"
             \/ row.boot = boot /\ phase \in {"select", "row", "delete", "start"}

EarlyDue(x, phase) ==
    /\ x.kind = "early"
    /\ x.gap > StartGap
    /\ phase # "delete"
    /\ \E row \in sessions :
          /\ row.boot = x.boot
          /\ row.stop # 0
          /\ row.boot \in DOMAIN halted
          /\ x.gap = halted[row.boot] - row.stop

RestartDue(x, phase) ==
    /\ x.kind = "restart"
    /\ x.gap > RestartGap
    /\ phase \in {"select", "row", "delete", "start"}
    /\ x.boot = boot
    /\ \E row \in sessions : row.boot = boot /\ row.stop # 0 /\ x.gap = now - row.stop

OmittedDue(x, phase) ==
    /\ x.kind = "omitted"
    /\ x.gap > StartGap
    /\ x.boot \in DOMAIN halted
    /\ x.gap = halted[x.boot] - x.boot
    /\ \E f \in Logged(phase) : f < x.boot

Due(x, phase) ==
    \/ LateDue(x, phase)
    \/ KilledDue(x, phase)
    \/ EarlyDue(x, phase)
    \/ RestartDue(x, phase)
    \/ OmittedDue(x, phase)

\* A session without a halt is one that crashed.
CrashInv == "crash" \notin mishaps => \A b \in DOMAIN halted : halted[b] # 0

\* The label before the row was looked at, to which a lock leads back.
Before == CASE pc = "delete" -> "row" [] pc = "reopen" -> "start" [] OTHER -> pc

Answerable(x) == \E o \in outages : About(x, o)

\* What was logged, or will be, is what the user is answerable for.
AnswerableInv ==
    mishaps \subseteq {"locked"} =>
        /\ \A n \in 1..Len(bypasses) : Answerable(bypasses[n])
        /\ \A x \in BypassType : Due(x, Before) => Answerable(x)

\* What a report is to tell of.
Relevant(o) ==
    /\ o.boot \in Booted
    /\ o.boot \in DOMAIN halted => halted[o.boot] # 0
    /\ o.kind = "omitted" => "crash" \notin mishaps /\ \E b \in known : b < o.boot

Told(o) == \E n \in 1..Len(bypasses) : About(bypasses[n], o)

\* What the user is answerable for is logged, or will be.
ToldInv ==
    Orderly =>
        /\ known \subseteq Booted
        /\ \A o \in outages : o.boot \in Booted
        /\ \A o \in outages :
              Relevant(o) => Told(o) \/ \E x \in BypassType : About(x, o) /\ Due(x, pc)
        /\ "crash" \notin mishaps /\ known # {} => pc = "start" \/ Logged(pc) # {}

Times(x)  == Cardinality({n \in 1..Len(bypasses) : bypasses[n] = x})
Causes(x) == Cardinality({o \in outages : About(x, o)})

\* Each bypass has an outage of its own.
OnceInv ==
    mishaps = {} =>
        /\ IsFiniteSet(outages)
        /\ \A o \in outages : o.boot \in Booted /\ o.act <= acts
        /\ pc = "off" /\ boot # 0 => \A o \in outages : o.boot = boot => how # "boot" /\ o.act < acts
        /\ \A x \in BypassType : Times(x) + (IF Due(x, pc) THEN 1 ELSE 0) <= Causes(x)

-----------------------------------------------------------------------------
In(x, t) == \E n \in 1..Len(t) : t[n] = x

\* A step logs the bypasses t, each once.  They were due until then, and what was
\* due besides stays due, unless the computer crashed then.
Logs(t) ==
    /\ t \in Seq(BypassType)
    /\ bypasses' = bypasses \o t
    /\ \A m, n \in 1..Len(t) : t[m] = t[n] => m = n
    /\ \A x \in BypassType :
          /\ Due(x, pc)' => Due(x, pc)
          /\ In(x, t) /\ "crash" \notin mishaps => Due(x, pc) /\ ~Due(x, pc)'
          /\ Due(x, pc) => Due(x, pc)' \/ In(x, t) \/ (x.boot \in DOMAIN halted /\ halted[x.boot] = 0)

\* A step records the outage o, if the user is answerable for it, and it becomes
\* due; only that the program was omitted is not known without an earlier row.
Asks(o) ==
    /\ Record(o)
    /\ bypasses' = bypasses
    /\ \A x \in BypassType :
          /\ Due(x, pc)' => Due(x, pc) \/ (Guilty(o) /\ About(x, o))
          /\ Due(x, pc) => Due(x, pc)'
          /\ Guilty(o) /\ About(x, o) => ~Due(x, pc)
    /\ Guilty(o) => \E x \in BypassType :
          About(x, o) /\ ((o.kind = "omitted" /\ Logged(pc) = {}) \/ Due(x, pc)')

\* While the program is down or sniffs, only the table and the halts tell what is
\* due.
LEMMA SameDown ==
    ASSUME NEW x, UNCHANGED <<sessions, halted>>, pc \in {"off", "running"}, pc' \in {"off", "running"}
    PROVE  Due(x, pc)' <=> Due(x, pc)
<1>1. LateDue(x, pc)' <=> LateDue(x, pc)
  BY DEF LateDue, Phases
<1>2. KilledDue(x, pc)' <=> KilledDue(x, pc)
  BY DEF KilledDue
<1>3. EarlyDue(x, pc)' <=> EarlyDue(x, pc)
  BY DEF EarlyDue
<1>4. RestartDue(x, pc)' <=> RestartDue(x, pc)
  BY DEF RestartDue
<1>5. OmittedDue(x, pc)' <=> OmittedDue(x, pc)
  BY DEF OmittedDue, Logged
<1> QED BY <1>1, <1>2, <1>3, <1>4, <1>5 DEF Due

\* And so it is in the course of a start, where a bypass may have been logged
\* already that a lock leads back to.
LEMMA SameStart ==
    ASSUME NEW x, UNCHANGED <<sessions, halted, boot, now>>,
           NEW p \in {"select", "row", "start"}, NEW q \in {"select", "row", "start"},
           Logged(q)' = Logged(p)
    PROVE  Due(x, q)' <=> Due(x, p)
<1>1. LateDue(x, q)' <=> LateDue(x, p)
  BY DEF LateDue, Phases
<1>2. KilledDue(x, q)' <=> KilledDue(x, p)
  BY DEF KilledDue
<1>3. EarlyDue(x, q)' <=> EarlyDue(x, p)
  BY DEF EarlyDue
<1>4. RestartDue(x, q)' <=> RestartDue(x, p)
  BY DEF RestartDue
<1>5. OmittedDue(x, q)' <=> OmittedDue(x, p)
  BY DEF OmittedDue
<1> QED BY <1>1, <1>2, <1>3, <1>4, <1>5 DEF Due

\* What is due is due, too, where a lock leads back to.
LEMMA DueBefore ==
    ASSUME NEW x, Due(x, pc)
    PROVE  Due(x, Before)
<1>1. CASE pc \notin {"delete", "reopen"}
  BY <1>1 DEF Before
<1>2. CASE pc = "delete"
  <2>1. Before = "row"
    BY <1>2 DEF Before
  <2>2. LateDue(x, "delete") => LateDue(x, "row")
    BY DEF LateDue, Phases
  <2>3. KilledDue(x, "delete") => KilledDue(x, "row")
    BY DEF KilledDue
  <2>4. EarlyDue(x, "delete") => EarlyDue(x, "row")
    BY DEF EarlyDue
  <2>5. RestartDue(x, "delete") => RestartDue(x, "row")
    BY DEF RestartDue
  <2>6. OmittedDue(x, "delete") => OmittedDue(x, "row")
    BY DEF OmittedDue, Logged
  <2> QED BY <1>2, <2>1, <2>2, <2>3, <2>4, <2>5, <2>6 DEF Due
<1>3. CASE pc = "reopen"
  <2>1. Before = "start"
    BY <1>3 DEF Before
  <2>2. LateDue(x, "reopen") => LateDue(x, "start")
    BY DEF LateDue, Phases
  <2>3. KilledDue(x, "reopen") => KilledDue(x, "start")
    BY DEF KilledDue
  <2>4. EarlyDue(x, "reopen") => EarlyDue(x, "start")
    BY DEF EarlyDue
  <2>5. RestartDue(x, "reopen") => RestartDue(x, "start")
    BY DEF RestartDue
  <2>6. OmittedDue(x, "reopen") => OmittedDue(x, "start")
    BY DEF OmittedDue, Logged
  <2> QED BY <1>3, <2>1, <2>2, <2>3, <2>4, <2>5, <2>6 DEF Due
<1> QED BY <1>1, <1>2, <1>3

\* A step that logs nothing and changes nothing of what is due.
LEMMA QuietLogs ==
    ASSUME bypasses \in Seq(BypassType), bypasses' = bypasses,
           \A x \in BypassType : Due(x, pc)' <=> Due(x, pc)
    PROVE  Logs(<<>>)
<1>1. <<>> \in Seq(BypassType) /\ bypasses \o <<>> = bypasses
  OBVIOUS
<1>2. \A x : ~In(x, <<>>)
  BY DEF In
<1> QED BY <1>1, <1>2 DEF Logs

\* The steps that leave the table, the halts and the bypasses alone.
LEMMA QuietSteps ==
    ASSUME ReadingInv, TableInv, Orderly',
           \/ Tick \/ Boot \/ Kill
           \/ SelectSessions
           \/ ProcessRow /\ pc' = "row"
           \/ UNCHANGED vars
    PROVE  Logs(<<>>)
<1> USE DEF computer, tables, program, history
<1>1. bypasses \in Seq(BypassType) /\ (pc # "off" => boot # 0)
  BY DEF ReadingInv, TypeInv, TypeOK
<1>2. CASE Tick \/ Boot \/ Kill
  <2>1. UNCHANGED <<sessions, halted, bypasses>> /\ pc \in {"off", "running"} /\ pc' \in {"off", "running"}
    BY <1>1, <1>2 DEF Tick, Boot, Kill, Terminate, Mishap, Orderly
  <2> QED BY <1>1, <2>1, SameDown, QuietLogs
<1>3. CASE SelectSessions
  <2>1. /\ UNCHANGED <<sessions, halted, boot, now, bypasses>> /\ pc = "select" /\ pc' = "row"
        /\ seen' = {row.boot : row \in sessions}
    BY <1>3 DEF SelectSessions
  <2>2. Logged("row")' = Logged("select")
    BY <2>1 DEF Logged
  <2>3. \A x : Due(x, "row")' <=> Due(x, "select")
    BY <2>1, <2>2, SameStart
  <2> QED BY <1>1, <2>1, <2>3, QuietLogs
<1>4. CASE ProcessRow /\ pc' = "row"
  <2>1. /\ UNCHANGED <<sessions, halted, boot, now, bypasses, seen>> /\ pc = "row" /\ pc' = "row"
    BY <1>4 DEF ProcessRow
  <2>2. Logged("row")' = Logged("row")
    BY <2>1 DEF Logged
  <2>3. \A x : Due(x, "row")' <=> Due(x, "row")
    BY <2>1, <2>2, SameStart
  <2> QED BY <1>1, <2>1, <2>3, QuietLogs
<1>5. CASE UNCHANGED vars
  <2>1. UNCHANGED <<sessions, halted, boot, now, bypasses, seen, pc>>
    BY <1>5 DEF vars
  <2>2. \A x : Due(x, pc)' <=> Due(x, pc)
    BY <2>1 DEF Due, LateDue, KilledDue, EarlyDue, RestartDue, OmittedDue, Logged
  <2> QED BY <1>1, <2>1, <2>2, QuietLogs
<1> QED BY <1>2, <1>3, <1>4, <1>5

\* The row of the session that runs.
Running(row) ==
    /\ row \in Row
    /\ sessions = {row}
    /\ row.boot = boot

\* With the row of the present boot only its late start may be due, once the
\* restart was looked at.
LEMMA RunningDue ==
    ASSUME ReadingInv, NEW row, Running(row), pc \in {"off", "running", "reopen"}, boot # 0,
           NEW x \in BypassType
    PROVE  Due(x, pc) <=> /\ x.kind = "late"
                          /\ x.gap > StartGap
                          /\ x.boot = boot
                          /\ x.gap = row.start - boot
<1>1. boot \notin DOMAIN halted /\ \A b \in DOMAIN halted : b \in Nat /\ b < boot
  BY DEF ReadingInv, ComputerInv, TypeInv, TypeOK
<1>2. boot \in Nat
  BY DEF ReadingInv, TypeInv, TypeOK
<1>3. LateDue(x, pc) <=> x.kind = "late" /\ x.gap > StartGap /\ x.boot = boot /\ x.gap = row.start - boot
  BY DEF LateDue, Running
<1>4. ~KilledDue(x, pc)
  BY <1>1 DEF KilledDue, Running
<1>5. ~EarlyDue(x, pc)
  BY <1>1 DEF EarlyDue, Running
<1>6. ~RestartDue(x, pc)
  BY DEF RestartDue
<1>7. ~OmittedDue(x, pc)
  BY <1>1, <1>2 DEF OmittedDue, Logged, Running
<1> QED BY <1>3, <1>4, <1>5, <1>6, <1>7 DEF Due

\* The row while the program runs, or is about to.
LEMMA RunningIs ==
    ASSUME ReadingInv, TableInv, pc \in {"running", "reopen"}
    PROVE  boot # 0 /\ \E row \in sessions : Running(row)
<1>1. boot # 0 /\ sessions \in SUBSET Row
  BY DEF ReadingInv, TypeInv, TypeOK
<1>2. PICK row \in sessions : row.boot = boot
  BY DEF TableInv
<1>3. sessions = {row}
  BY <1>2 DEF TableInv
<1> QED BY <1>1, <1>2, <1>3 DEF Running

\* The row with another stop.
LEMMA RunningStop ==
    ASSUME NEW row, Running(row), NEW stop, sessions' = WithStop(sessions, boot, stop)
    PROVE  \E new : /\ sessions' = {new}
                    /\ new.boot = boot
                    /\ new.start = row.start
                    /\ new.stop = stop
<1> DEFINE new == [row EXCEPT !.stop = stop]
<1>1. sessions' = {new}
  BY DEF Running, WithStop
<1>2. new.boot = boot /\ new.start = row.start /\ new.stop = stop
  BY DEF Running, Row
<1> HIDE DEF new
<1> QED BY <1>1, <1>2

\* The end of the program that logs its stop.
LEMMA QuietStop ==
    ASSUME ReadingInv, TableInv, Stop \/ (Halt /\ pc = "running")
    PROVE  Logs(<<>>)
<1> USE DEF computer, tables, program, history
<1>1. pc = "running" /\ pc' = "off" /\ sessions' = WithStop(sessions, session, now) /\ bypasses' = bypasses
  BY DEF Stop, Halt, Terminate, LogSessionStop, WithStop
<1>2. bypasses \in Seq(BypassType) /\ now \in Nat /\ boot \in Nat /\ boot <= now /\ session = boot
  BY <1>1 DEF ReadingInv, TypeInv, TypeOK, TableInv
<1>3. boot # 0 /\ \E row \in sessions : Running(row)
  BY <1>1, RunningIs
<1>4. PICK row : Running(row)
  BY <1>3
<1>5. PICK new : sessions' = {new} /\ new.boot = boot /\ new.start = row.start /\ new.stop = now
  BY <1>1, <1>2, <1>4, RunningStop
<1>6. /\ \A b \in DOMAIN halted : b \in Nat /\ b < boot
      /\ boot \notin DOMAIN halted
  BY <1>3 DEF ReadingInv, ComputerInv, TypeInv, TypeOK
<1>7. \/ boot' = boot /\ halted' = halted
      \/ /\ boot' = 0
         /\ DOMAIN halted' = DOMAIN halted \cup {boot}
         /\ halted'[boot] = now
  BY DEF Stop, Halt, Ends
<1>8. StartGap \in Nat
  BY SessionsAssumption
<1>9. ASSUME NEW x \in BypassType
      PROVE  Due(x, pc)' <=> Due(x, pc)
  <2>1. LateDue(x, pc)' <=> x.kind = "late" /\ x.gap > StartGap /\ x.boot = boot /\ x.gap = row.start - boot
    BY <1>1, <1>5 DEF LateDue, Phases
  <2>2. ~KilledDue(x, pc)'
    BY <1>1, <1>2, <1>3, <1>5 DEF KilledDue
  <2>3. ~EarlyDue(x, pc)'
    <3>1. CASE halted' = halted
      BY <1>5, <1>6, <3>1 DEF EarlyDue
    <3>2. CASE boot \in DOMAIN halted' /\ halted'[boot] = now
      BY <1>2, <1>5, <1>8, <3>2 DEF EarlyDue
    <3> QED BY <1>7, <3>1, <3>2
  <2>4. ~RestartDue(x, pc)'
    BY <1>1 DEF RestartDue
  <2>5. ~OmittedDue(x, pc)'
    BY <1>1, <1>2, <1>5, <1>6, <1>7 DEF OmittedDue, Logged
  <2>6. Due(x, pc)' <=> LateDue(x, pc)'
    BY <2>2, <2>3, <2>4, <2>5 DEF Due
  <2> QED BY <1>1, <1>3, <1>4, <2>1, <2>6, RunningDue
<1> QED BY <1>1, <1>2, <1>9, QuietLogs

\* The program is about to run with the row: it was opened again, or is new.
LEMMA QuietOpen ==
    ASSUME ReadingInv, TableInv, Orderly, Orderly', StartFirst \/ Reopen
    PROVE  Logs(<<>>)
<1> USE DEF computer, tables, program, history
<1>1. pc \in {"start", "reopen"} /\ pc' = "running"
      /\ UNCHANGED <<bypasses, boot, halted, now>>
  BY DEF StartFirst, Reopen
<1>2. /\ bypasses \in Seq(BypassType) /\ now \in Nat /\ boot \in Nat /\ sessions \in SUBSET Row
      /\ \A b \in DOMAIN halted : b \in Nat
  BY DEF ReadingInv, TypeInv, TypeOK
<1>3. boot # 0 /\ BootTime(boots, now) = boot
  BY <1>1, OrderlyStart DEF Phases
<1>4. /\ \A b \in DOMAIN halted : b < boot
      /\ boot \notin DOMAIN halted
  BY <1>3 DEF ReadingInv, ComputerInv
<1>5. ASSUME NEW x \in BypassType, NEW new, sessions' = {new}, new.boot = boot, new.stop = 0
      PROVE  Due(x, pc)' <=> /\ x.kind = "late"
                             /\ x.gap > StartGap
                             /\ x.boot = boot
                             /\ x.gap = new.start - boot
  <2>1. LateDue(x, pc)' <=> x.kind = "late" /\ x.gap > StartGap /\ x.boot = boot /\ x.gap = new.start - boot
    BY <1>1, <1>5 DEF LateDue, Phases
  <2>2. ~KilledDue(x, pc)'
    BY <1>1, <1>4, <1>5 DEF KilledDue
  <2>3. ~EarlyDue(x, pc)'
    BY <1>1, <1>4, <1>5 DEF EarlyDue
  <2>4. ~RestartDue(x, pc)'
    BY <1>1 DEF RestartDue
  <2>5. ~OmittedDue(x, pc)'
    BY <1>1, <1>2, <1>4, <1>5 DEF OmittedDue, Logged
  <2> QED BY <2>1, <2>2, <2>3, <2>4, <2>5 DEF Due
<1>6. CASE StartFirst
  <2>1. /\ pc = "start"
        /\ sessions' = sessions \cup {[boot |-> boot, start |-> now, stop |-> 0]}
        /\ \A row \in sessions : row.boot # boot
    BY <1>3, <1>6 DEF StartFirst
  <2>2. sessions = {}
    BY <2>1 DEF TableInv
  <2>3. PICK new : sessions' = {new} /\ new.boot = boot /\ new.start = now /\ new.stop = 0
    <3> DEFINE new == [boot |-> boot, start |-> now, stop |-> 0]
    <3>1. sessions' = {new}
      BY <2>1, <2>2
    <3>2. new.boot = boot /\ new.start = now /\ new.stop = 0
      OBVIOUS
    <3> HIDE DEF new
    <3> QED BY <3>1, <3>2
  <2>4. ASSUME NEW x \in BypassType
        PROVE  Due(x, pc)' <=> Due(x, pc)
    <3>1. LateDue(x, pc) <=> x.kind = "late" /\ x.gap > StartGap /\ x.boot = boot /\ x.gap = now - boot
      BY <2>1, <2>2 DEF LateDue, Phases
    <3>2. ~KilledDue(x, pc) /\ ~EarlyDue(x, pc) /\ ~RestartDue(x, pc)
      BY <2>2 DEF KilledDue, EarlyDue, RestartDue
    <3>3. ~OmittedDue(x, pc)
      BY <2>1, <2>2 DEF OmittedDue, Logged
    <3> QED BY <1>5, <2>3, <3>1, <3>2, <3>3 DEF Due
  <2> QED BY <1>1, <1>2, <2>4, QuietLogs
<1>7. CASE Reopen
  <2>1. pc = "reopen" /\ sessions' = WithStop(sessions, boot, 0)
    BY <1>3, <1>7 DEF Reopen, WithStop
  <2>2. PICK row \in sessions : Running(row)
    BY <2>1, RunningIs
  <2>3. PICK new : sessions' = {new} /\ new.boot = boot /\ new.start = row.start /\ new.stop = 0
    BY <2>1, <2>2, RunningStop
  <2>4. ASSUME NEW x \in BypassType
        PROVE  Due(x, pc)' <=> Due(x, pc)
    BY <1>3, <1>5, <2>1, <2>2, <2>3, RunningDue
  <2> QED BY <1>1, <1>2, <2>4, QuietLogs
<1> QED BY <1>6, <1>7

\* The row that was processed: its bypasses were logged before.
LEMMA QuietDelete ==
    ASSUME ReadingInv, TableInv, Orderly, Orderly', DeleteRow
    PROVE  Logs(<<>>)
<1> USE DEF computer, tables, program, history
<1>1. /\ pc = "delete" /\ pc' = "row" /\ sessions' = sessions \ {rows[1]}
      /\ UNCHANGED <<bypasses, boot, halted, now, seen>>
  BY DEF DeleteRow
<1>2. bypasses \in Seq(BypassType)
  BY DEF ReadingInv, TypeInv, TypeOK
<1>3. sessions = {rows[1]} /\ rows[1].boot # boot /\ seen = {rows[1].boot}
  BY <1>1 DEF TableInv
<1>4. sessions' = {}
  BY <1>1, <1>3
<1>5. ASSUME NEW x \in BypassType
      PROVE  Due(x, pc)' <=> Due(x, pc)
  <2>1. LateDue(x, pc)' <=> LateDue(x, pc)
    BY <1>1, <1>3, <1>4 DEF LateDue, Phases
  <2>2. ~KilledDue(x, pc) /\ ~KilledDue(x, pc)'
    BY <1>1, <1>3, <1>4 DEF KilledDue
  <2>3. ~EarlyDue(x, pc) /\ ~EarlyDue(x, pc)'
    BY <1>1, <1>4 DEF EarlyDue
  <2>4. ~RestartDue(x, pc) /\ ~RestartDue(x, pc)'
    BY <1>1, <1>3, <1>4 DEF RestartDue
  <2>5. OmittedDue(x, pc)' <=> OmittedDue(x, pc)
    <3>1. Logged(pc) = seen /\ Logged(pc)' = seen
      BY <1>1, <1>3, <1>4 DEF Logged
    <3> QED BY <1>1, <3>1 DEF OmittedDue
  <2> QED BY <2>1, <2>2, <2>3, <2>4, <2>5 DEF Due
<1> QED BY <1>1, <1>2, <1>5, QuietLogs

-----------------------------------------------------------------------------
\* One element after another.
LEMMA Two == ASSUME NEW u, NEW v PROVE <<u>> \o <<v>> = <<u, v>>
<1> DEFINE s == <<u>> \o <<v>>
           t == <<u, v>>
<1>1. <<u>> \in Seq({u, v}) /\ <<v>> \in Seq({u, v}) /\ t \in Seq({u, v})
  OBVIOUS
<1>2. Len(s) = 2 /\ s[1] = u /\ s[2] = v
  BY <1>1
<1>3. s \in Seq({u, v}) /\ Len(t) = 2 /\ t[1] = u /\ t[2] = v
  BY <1>1
<1>4. Len(s) = Len(t) /\ \A i \in 1..Len(s) : s[i] = t[i]
  BY <1>2, <1>3
<1> HIDE DEF s, t
<1>5. s = t
  BY <1>1, <1>3, <1>4, SeqEqual
<1> QED BY <1>5 DEF s, t

\* The bypasses that a row shows, each once.
LEMMA BypassesOfIs ==
    ASSUME NEW row \in Row, NEW halt \in 1..MaxTime
    PROVE  /\ BypassesOf(row, halt) \in Seq(BypassType)
           /\ \A m, n \in 1..Len(BypassesOf(row, halt)) :
                 BypassesOf(row, halt)[m] = BypassesOf(row, halt)[n] => m = n
           /\ \A x : In(x, BypassesOf(row, halt)) <=>
                 \/ row.start - row.boot > StartGap /\ x = Outage(row.boot, "late", row.start - row.boot)
                 \/ row.stop = 0 /\ x = Outage(row.boot, "killed", 0)
                 \/ row.stop # 0 /\ halt - row.stop > StartGap
                    /\ x = Outage(row.boot, "early", halt - row.stop)
<1> DEFINE t == BypassesOf(row, halt)
           late == row.start - row.boot > StartGap
           early == halt - row.stop > StartGap
           a == Outage(row.boot, "late", row.start - row.boot)
           b == Outage(row.boot, "killed", 0)
           c == Outage(row.boot, "early", halt - row.stop)
<1>1. t \in Seq(BypassType)
  BY BypassesOfType
<1>2. t = (IF late THEN <<a>> ELSE <<>>)
          \o (IF row.stop = 0 THEN <<b>> ELSE IF early THEN <<c>> ELSE <<>>)
  BY DEF BypassesOf
<1>3. a # b /\ a # c
  BY DEF Outage
<1> HIDE DEF t, a, b, c, late, early
<1>4. t = IF late
          THEN IF row.stop = 0 THEN <<a, b>> ELSE IF early THEN <<a, c>> ELSE <<a>>
          ELSE IF row.stop = 0 THEN <<b>> ELSE IF early THEN <<c>> ELSE <<>>
  <2>1. <<a>> \o <<b>> = <<a, b>> /\ <<a>> \o <<c>> = <<a, c>> /\ <<a>> \o <<>> = <<a>>
    <3>1. <<a>> \o <<b>> = <<a, b>> /\ <<a>> \o <<c>> = <<a, c>>
      BY Two
    <3>2. <<a>> \o <<>> = <<a>>
      OBVIOUS
    <3> QED BY <3>1, <3>2
  <2>2. <<>> \o <<b>> = <<b>> /\ <<>> \o <<c>> = <<c>>
    OBVIOUS
  <2>3. <<>> \o <<>> = <<>>
    OBVIOUS
  <2>4. CASE late
    BY <1>2, <2>1, <2>4, Zenon
  <2>5. CASE ~late
    BY <1>2, <2>2, <2>3, <2>5, Zenon
  <2> QED BY <2>4, <2>5
<1>5. ASSUME NEW u, NEW v, u # v
      PROVE  /\ \A m, n \in 1..Len(<<u, v>>) : <<u, v>>[m] = <<u, v>>[n] => m = n
             /\ \A x : In(x, <<u, v>>) <=> x = u \/ x = v
  BY <1>5 DEF In
<1>6. ASSUME NEW u
      PROVE  /\ \A m, n \in 1..Len(<<u>>) : <<u>>[m] = <<u>>[n] => m = n
             /\ \A x : In(x, <<u>>) <=> x = u
  BY DEF In
<1>7. /\ \A m, n \in 1..Len(<<>>) : m = n
      /\ \A x : ~In(x, <<>>)
  BY DEF In
<1>8. \A m, n \in 1..Len(t) : t[m] = t[n] => m = n
  BY <1>3, <1>4, <1>5, <1>6, <1>7
<1>9. \A x : In(x, t) <=> (late /\ x = a) \/ (row.stop = 0 /\ x = b) \/ (row.stop # 0 /\ early /\ x = c)
  BY <1>3, <1>4, <1>5, <1>6, <1>7
<1> QED BY <1>1, <1>8, <1>9 DEF t, a, b, c, late, early

\* What a row that halted shows is logged before the row is deleted.
LEMMA LogsRow ==
    ASSUME ReadingInv, TableInv, Orderly, Orderly', ProcessRow, pc' = "delete"
    PROVE  \E t \in Seq(BypassType) : Logs(t)
<1> USE DEF computer, tables, program, history
<1> DEFINE row == rows[1]
           halt == HaltTime(boots, row.boot, now)
<1>1. pc = "row" /\ rows # <<>> /\ UNCHANGED <<sessions, halted, boot, now, seen>>
  BY DEF ProcessRow
<1>2. /\ bypasses \in Seq(BypassType) /\ sessions \in SUBSET Row
      /\ \A b \in DOMAIN halted : b \in Nat /\ halted[b] \in 0..MaxTime
      /\ StartGap \in Nat /\ MaxTime \in Nat
  BY SessionsAssumption DEF ReadingInv, TypeInv, TypeOK
<1>3. sessions = {row} /\ row.boot \in Booted /\ row \in Row
  BY <1>1, <1>2 DEF TableInv
<1>4. BootTime(boots, now) = boot /\ HaltTime(boots, boot, now) = 0
      /\ \A b \in DOMAIN halted : HaltTime(boots, b, now) = halted[b]
  BY <1>1, OrderlyStart DEF Phases
<1>5. row.boot # boot
  BY <1>1, <1>4 DEF ProcessRow
<1>6. row.boot \in DOMAIN halted /\ halt = halted[row.boot] /\ halt \in 0..MaxTime
  BY <1>2, <1>3, <1>4, <1>5 DEF Booted
<1> DEFINE Shown(x) ==
             \/ row.start - row.boot > StartGap /\ x = Outage(row.boot, "late", row.start - row.boot)
             \/ row.stop = 0 /\ x = Outage(row.boot, "killed", 0)
             \/ row.stop # 0 /\ halt - row.stop > StartGap
                /\ x = Outage(row.boot, "early", halt - row.stop)
<1>7. ASSUME NEW x \in BypassType
      PROVE  /\ Due(x, pc) <=> Shown(x) \/ Due(x, pc)'
             /\ Shown(x) => ~Due(x, pc)' /\ x.boot = row.boot
  <2> DEFINE Else == /\ x.kind = "late" /\ x.gap > StartGap
                     /\ x.boot = boot /\ x.gap = now - boot
  <2>1. x = [boot |-> x.boot, kind |-> x.kind, gap |-> x.gap]
    BY DEF BypassType
  <2>2. LateDue(x, pc)' <=> Else
    BY <1>1, <1>3, <1>5 DEF LateDue, Phases
  <2>3. LateDue(x, pc) <=> Else \/ (row.start - row.boot > StartGap /\ x = Outage(row.boot, "late", row.start - row.boot))
    BY <1>1, <1>3, <1>5, <2>1 DEF LateDue, Phases, Outage
  <2>4. KilledDue(x, pc) <=> row.stop = 0 /\ x = Outage(row.boot, "killed", 0)
    BY <1>1, <1>3, <1>6, <2>1 DEF KilledDue, Outage
  <2>5. EarlyDue(x, pc) <=> row.stop # 0 /\ halt - row.stop > StartGap
                           /\ x = Outage(row.boot, "early", halt - row.stop)
    BY <1>1, <1>3, <1>6, <2>1 DEF EarlyDue, Outage
  <2>6. ~RestartDue(x, pc) /\ ~RestartDue(x, pc)' /\ ~KilledDue(x, pc)' /\ ~EarlyDue(x, pc)'
    BY <1>1, <1>3, <1>5 DEF RestartDue, KilledDue, EarlyDue
  <2>7. OmittedDue(x, pc)' <=> OmittedDue(x, pc)
    BY <1>1 DEF OmittedDue, Logged
  <2>8. Due(x, pc) <=> Shown(x) \/ Due(x, pc)'
    BY <2>2, <2>3, <2>4, <2>5, <2>6, <2>7 DEF Due
  <2>9. Shown(x) => /\ x.boot = row.boot
                    /\ x.kind \in {"late", "killed", "early"}
    BY DEF Outage
  <2>10. Shown(x) => ~Due(x, pc)'
    <3>1. Shown(x) => ~Else
      BY <1>5, <2>9
    <3>2. Shown(x) => ~OmittedDue(x, pc)'
      BY <2>9 DEF OmittedDue
    <3> QED BY <2>2, <2>6, <3>1, <3>2 DEF Due
  <2> QED BY <2>8, <2>9, <2>10
<1>8. CASE halt > 0
  <2> DEFINE t == BypassesOf(row, halt)
  <2>1. bypasses' = bypasses \o t
    BY <1>1, <1>8 DEF ProcessRow
  <2>2. /\ t \in Seq(BypassType)
        /\ \A m, n \in 1..Len(t) : t[m] = t[n] => m = n
        /\ \A x : In(x, t) <=> Shown(x)
    <3>1. halt \in 1..MaxTime
      BY <1>2, <1>6, <1>8
    <3> HIDE DEF halt, row
    <3> QED BY <1>3, <3>1, BypassesOfIs
  <2> HIDE DEF t, Shown
  <2>3. Logs(t)
    BY <1>7, <2>1, <2>2 DEF Logs
  <2> QED BY <2>2, <2>3
<1>9. CASE ~(halt > 0)
  <2>1. halt = 0 /\ bypasses' = bypasses
    <3>1. halt = 0
      BY <1>2, <1>6, <1>9
    <3> QED BY <1>1, <1>9, <3>1 DEF ProcessRow
  <2>2. \A x \in BypassType : Shown(x) => x.boot \in DOMAIN halted /\ halted[x.boot] = 0
    BY <1>6, <1>7, <2>1
  <2>3. <<>> \in Seq(BypassType) /\ bypasses \o <<>> = bypasses /\ \A x : ~In(x, <<>>)
    BY <1>2 DEF In
  <2> HIDE DEF Shown
  <2>4. Logs(<<>>)
    BY <1>7, <2>1, <2>2, <2>3 DEF Logs
  <2> QED BY <2>3, <2>4
<1> QED BY <1>8, <1>9

\* The sessions in which the program was omitted are logged together.
LEMMA LogsOmitted ==
    ASSUME ReadingInv, TableInv, CrashInv, Orderly, Orderly', LogOmitted
    PROVE  \E t \in Seq(BypassType) : Logs(t)
<1> USE DEF computer, tables, program, history
<1>1. /\ pc = "row" /\ rows = <<>> /\ pc' = "start"
      /\ UNCHANGED <<sessions, halted, boot, now, seen, boots>>
  BY DEF LogOmitted
<1>2. /\ bypasses \in Seq(BypassType) /\ boot \in Nat /\ StartGap \in Nat
      /\ \A b \in DOMAIN halted : b \in Nat /\ halted[b] \in Nat
  BY SessionsAssumption DEF ReadingInv, TypeInv, TypeOK
<1>3. /\ \A row \in sessions : row.boot = boot /\ seen = {row.boot}
      /\ \A f, g \in seen : f = g
      /\ seen \subseteq Booted
  BY <1>1 DEF TableInv
<1>4. boot # 0 /\ BootTime(boots, now) = boot /\ IsTrue(boots)
  BY <1>1, OrderlyStart DEF Phases
<1>5. /\ \A b \in DOMAIN halted : b < boot
      /\ boot \notin DOMAIN halted
      /\ DOMAIN boots = DOMAIN halted \cup {boot}
      /\ Booted = DOMAIN halted \cup {boot}
  BY <1>2, <1>4 DEF ReadingInv, ComputerInv, IsTrue, Booted
<1>6. PICK t \in ByBoot(Omitted) : bypasses' = bypasses \o t /\ t \in Seq(BypassType)
  BY LogOmittedIs DEF ReadingInv
<1>7. /\ \A m, n \in 1..Len(t) : t[m] = t[n] => m = n
      /\ \A x : In(x, t) <=> x \in Omitted
  BY <1>6, OmittedType, ByBootIs DEF ReadingInv, In
<1>8. ASSUME NEW x \in BypassType
      PROVE  ~OmittedDue(x, pc)' /\ (Due(x, pc) <=> Due(x, pc)' \/ OmittedDue(x, pc))
  <2>1. ~OmittedDue(x, pc)'
    BY <1>1, <1>2, <1>3, <1>5 DEF OmittedDue, Logged
  <2>2. LateDue(x, pc)' <=> LateDue(x, pc)
    BY <1>1 DEF LateDue, Phases
  <2>3. KilledDue(x, pc)' <=> KilledDue(x, pc)
    BY <1>1 DEF KilledDue
  <2>4. EarlyDue(x, pc)' <=> EarlyDue(x, pc)
    BY <1>1 DEF EarlyDue
  <2>5. RestartDue(x, pc)' <=> RestartDue(x, pc)
    BY <1>1 DEF RestartDue
  <2> QED BY <2>1, <2>2, <2>3, <2>4, <2>5 DEF Due
<1>9. ASSUME NEW x \in BypassType, OmittedDue(x, pc)
      PROVE  x \in Omitted
  <2>1. /\ x.kind = "omitted" /\ x.gap > StartGap
        /\ x.boot \in DOMAIN halted /\ x.gap = halted[x.boot] - x.boot
    BY <1>9 DEF OmittedDue
  <2>2. PICK f \in seen : f < x.boot
    BY <1>1, <1>3, <1>9 DEF OmittedDue, Logged
  <2>3. x.boot \notin seen /\ f \in DOMAIN boots /\ x.boot \in DOMAIN boots /\ x.boot # boot
    BY <1>2, <1>3, <1>5, <2>1, <2>2
  <2>4. x.boot \in OmittedSessions(boots, seen, now)
    BY <1>4, <2>2, <2>3 DEF OmittedSessions
  <2>5. boots[x.boot] = halted[x.boot]
    <3>1. halted[x.boot] # 0
      BY <1>2, <2>1
    <3> QED BY <1>4, <2>1, <3>1 DEF IsTrue
  <2>6. x = Outage(x.boot, "omitted", boots[x.boot] - x.boot)
    BY <2>1, <2>5 DEF Outage, BypassType
  <2>7. boots[x.boot] - x.boot > StartGap
    BY <2>1, <2>5
  <2> QED BY <2>4, <2>6, <2>7 DEF Omitted
<1>10. ASSUME NEW x \in BypassType, x \in Omitted, "crash" \notin mishaps
       PROVE  OmittedDue(x, pc)
  <2>1. PICK b \in OmittedSessions(boots, seen, now) :
           boots[b] - b > StartGap /\ x = Outage(b, "omitted", boots[b] - b)
    BY <1>10 DEF Omitted
  <2>2. b \in DOMAIN boots \ seen /\ b # boot /\ \E f \in seen \cap DOMAIN boots : f < b
    BY <1>4 DEF OmittedSessions
  <2>3. b \in DOMAIN halted /\ halted[b] # 0
    BY <1>5, <1>10, <2>2 DEF CrashInv
  <2>4. boots[b] = halted[b]
    BY <1>4, <2>3 DEF IsTrue
  <2>5. x.kind = "omitted" /\ x.boot = b /\ x.gap = halted[b] - b /\ x.gap > StartGap
    BY <2>1, <2>4 DEF Outage
  <2>6. seen \subseteq Logged(pc)
    BY <1>1 DEF Logged
  <2> QED BY <2>2, <2>3, <2>5, <2>6 DEF OmittedDue
<1>11. Logs(t)
  <2>1. ASSUME NEW x \in BypassType
        PROVE  /\ Due(x, pc)' => Due(x, pc)
               /\ In(x, t) /\ "crash" \notin mishaps => Due(x, pc) /\ ~Due(x, pc)'
               /\ Due(x, pc) => Due(x, pc)' \/ In(x, t)
    <3>1. In(x, t) /\ "crash" \notin mishaps => Due(x, pc) /\ ~Due(x, pc)'
      <4> SUFFICES ASSUME In(x, t), "crash" \notin mishaps
                   PROVE  Due(x, pc) /\ ~Due(x, pc)'
        OBVIOUS
      <4>1. OmittedDue(x, pc)
        BY <1>7, <1>10
      <4>2. x.kind = "omitted"
        BY <4>1 DEF OmittedDue
      <4>3. ~LateDue(x, pc)' /\ ~KilledDue(x, pc)' /\ ~EarlyDue(x, pc)' /\ ~RestartDue(x, pc)'
        BY <4>2 DEF LateDue, KilledDue, EarlyDue, RestartDue
      <4> QED BY <1>8, <4>1, <4>3 DEF Due
    <3> QED BY <1>7, <1>8, <1>9, <3>1
  <2> QED BY <1>6, <1>7, <2>1 DEF Logs
<1> QED BY <1>6, <1>11

\* A restart, or that the program was killed, is logged before the row is opened
\* again.
LEMMA LogsAgain ==
    ASSUME ReadingInv, TableInv, Orderly, Orderly', StartAgain
    PROVE  \E t \in Seq(BypassType) : Logs(t)
<1> USE DEF computer, tables, program, history
<1>1. /\ pc = "start" /\ pc' = "reopen"
      /\ UNCHANGED <<sessions, halted, boot, now>>
  BY DEF StartAgain
<1>2. /\ bypasses \in Seq(BypassType) /\ sessions \in SUBSET Row /\ boot \in 0..MaxTime
      /\ now \in 0..MaxTime /\ RestartGap \in Nat /\ MaxTime \in Nat
      /\ \A b \in DOMAIN halted : b \in Nat
  BY SessionsAssumption DEF ReadingInv, TypeInv, TypeOK
<1>3. boot # 0 /\ BootTime(boots, now) = boot
  BY <1>1, OrderlyStart DEF Phases
<1>4. PICK row \in sessions :
         /\ row.boot = boot
         /\ bypasses' = CASE row.stop = 0 -> Append(bypasses, Outage(boot, "killed", 0))
                          [] row.stop # 0 /\ now - row.stop > RestartGap ->
                               Append(bypasses, Outage(boot, "restart", now - row.stop))
                          [] OTHER -> bypasses
  BY <1>3 DEF StartAgain
<1>5. sessions = {row} /\ row \in Row
  BY <1>2, <1>4 DEF TableInv
<1>6. \A b \in DOMAIN halted : b < boot
  BY <1>3 DEF ReadingInv, ComputerInv
<1>7. boot \notin DOMAIN halted
  BY DEF ReadingInv, ComputerInv
<1> DEFINE Shown(x) ==
             \/ row.stop = 0 /\ x = Outage(boot, "killed", 0)
             \/ row.stop # 0 /\ now - row.stop > RestartGap /\ x = Outage(boot, "restart", now - row.stop)
<1>8. ASSUME NEW x \in BypassType
      PROVE  (Due(x, pc) <=> Shown(x) \/ Due(x, pc)') /\ (Shown(x) => ~Due(x, pc)')
  <2>1. x = [boot |-> x.boot, kind |-> x.kind, gap |-> x.gap]
    BY DEF BypassType
  <2>2. LateDue(x, pc)' <=> LateDue(x, pc)
    BY <1>1 DEF LateDue, Phases
  <2>3. KilledDue(x, pc) <=> row.stop = 0 /\ x = Outage(boot, "killed", 0)
    BY <1>1, <1>4, <1>5, <1>7, <2>1 DEF KilledDue, Outage
  <2>4. RestartDue(x, pc) <=> row.stop # 0 /\ now - row.stop > RestartGap
                             /\ x = Outage(boot, "restart", now - row.stop)
    BY <1>1, <1>4, <1>5, <2>1 DEF RestartDue, Outage
  <2>5. ~EarlyDue(x, pc) /\ ~EarlyDue(x, pc)' /\ ~KilledDue(x, pc)' /\ ~RestartDue(x, pc)'
    BY <1>1, <1>4, <1>5, <1>7 DEF EarlyDue, KilledDue, RestartDue
  <2>6. ~OmittedDue(x, pc) /\ ~OmittedDue(x, pc)'
    BY <1>1, <1>2, <1>4, <1>5, <1>6 DEF OmittedDue, Logged
  <2>7. Due(x, pc) <=> Shown(x) \/ Due(x, pc)'
    BY <2>2, <2>3, <2>4, <2>5, <2>6 DEF Due
  <2>8. Shown(x) => x.kind \in {"killed", "restart"}
    BY DEF Outage
  <2>9. Shown(x) => ~LateDue(x, pc)'
    BY <2>8 DEF LateDue
  <2>10. Shown(x) => ~Due(x, pc)'
    BY <2>5, <2>6, <2>9 DEF Due
  <2> QED BY <2>7, <2>10
<1>9. ASSUME NEW u \in BypassType, bypasses' = Append(bypasses, u), \A x : Shown(x) <=> x = u
      PROVE  Logs(<<u>>)
  <2>1. <<u>> \in Seq(BypassType) /\ bypasses' = bypasses \o <<u>>
    BY <1>2, <1>9
  <2>2. /\ \A m, n \in 1..Len(<<u>>) : <<u>>[m] = <<u>>[n] => m = n
        /\ \A x : In(x, <<u>>) <=> x = u
    BY DEF In
  <2> HIDE DEF Shown
  <2> QED BY <1>8, <1>9, <2>1, <2>2 DEF Logs
<1>10. CASE row.stop = 0
  <2> DEFINE u == Outage(boot, "killed", 0)
  <2>1. u \in BypassType
    BY <1>2, <1>3 DEF Outage, BypassType, Kinds
  <2>2. bypasses' = Append(bypasses, u) /\ \A x : Shown(x) <=> x = u
    BY <1>4, <1>10
  <2>3. Logs(<<u>>) /\ <<u>> \in Seq(BypassType)
    <3> HIDE DEF u, Shown
    <3> QED BY <1>9, <2>1, <2>2
  <2> QED BY <2>3
<1>11. CASE row.stop # 0 /\ now - row.stop > RestartGap
  <2> DEFINE u == Outage(boot, "restart", now - row.stop)
  <2>1. u \in BypassType
    <3>1. row.stop \in 0..MaxTime
      BY <1>5 DEF Row
    <3>2. now - row.stop \in 0..MaxTime /\ boot \in 1..MaxTime
      BY <1>2, <1>3, <1>11, <3>1
    <3> QED BY <3>2 DEF Outage, BypassType, Kinds
  <2>2. bypasses' = Append(bypasses, u) /\ \A x : Shown(x) <=> x = u
    BY <1>4, <1>11
  <2>3. Logs(<<u>>) /\ <<u>> \in Seq(BypassType)
    <3> HIDE DEF u, Shown
    <3> QED BY <1>9, <2>1, <2>2
  <2> QED BY <2>3
<1>12. CASE row.stop # 0 /\ ~(now - row.stop > RestartGap)
  <2>1. bypasses' = bypasses /\ \A x : ~Shown(x)
    BY <1>4, <1>12
  <2>2. Logs(<<>>)
    <3> HIDE DEF Shown
    <3> QED BY <1>2, <1>8, <2>1, QuietLogs
  <2>3. <<>> \in Seq(BypassType)
    OBVIOUS
  <2> QED BY <2>2, <2>3
<1> QED BY <1>10, <1>11, <1>12

-----------------------------------------------------------------------------
\* While the program is down, the table shows why.
LEMMA DownIs ==
    ASSUME ReadingInv, TableInv, DownInv, pc = "off", boot # 0
    PROVE  /\ boot \in 1..MaxTime /\ since \in 1..MaxTime /\ now \in 1..MaxTime /\ now - since \in 0..MaxTime
           /\ boot \notin DOMAIN halted
           /\ \A b \in DOMAIN halted : b \in Nat /\ b < boot
           /\ IF how = "boot" THEN since = boot /\ \A row \in sessions : row.boot # boot
              ELSE \E row \in sessions :
                      /\ sessions = {row}
                      /\ row.boot = boot
                      /\ row.stop = IF how = "stopped" THEN since ELSE 0
           /\ how \in {"boot", "stopped", "killed"}
<1>1. /\ boot \in 1..MaxTime /\ since \in 0..MaxTime /\ now \in 0..MaxTime /\ since <= now
      /\ boot <= since /\ MaxTime \in Nat
      /\ \A b \in DOMAIN halted : b \in Nat
  BY SessionsAssumption DEF ReadingInv, TypeInv, TypeOK, ComputerInv
<1>2. since \in 1..MaxTime /\ now \in 1..MaxTime /\ now - since \in 0..MaxTime
  BY <1>1
<1>3. boot \notin DOMAIN halted /\ \A b \in DOMAIN halted : b < boot
  BY DEF ReadingInv, ComputerInv
<1>4. how \in {"boot", "stopped", "killed"}
  BY DEF ReadingInv, TypeInv, TypeOK
<1>5. IF how = "boot" THEN since = boot /\ \A row \in sessions : row.boot # boot
      ELSE \E row \in sessions :
              /\ sessions = {row}
              /\ row.boot = boot
              /\ row.stop = IF how = "stopped" THEN since ELSE 0
  BY DEF DownInv, TableInv
<1> QED BY <1>1, <1>2, <1>3, <1>4, <1>5

\* A start after a time that was too long makes it due.
LEMMA AsksStart ==
    ASSUME ReadingInv, TableInv, DownInv, Start
    PROVE  Asks(Outage(boot, AtStart[how], now - since))
<1> DEFINE o == Outage(boot, AtStart[how], now - since)
<1>1. /\ pc = "off" /\ pc' = "select" /\ boot # 0 /\ Record(o)
      /\ UNCHANGED <<bypasses, sessions, halted, boot, now>>
  BY DEF Start, NewDatabase, computer, tables
<1>2. /\ boot \in 1..MaxTime /\ since \in 1..MaxTime /\ now - since \in 0..MaxTime
      /\ boot \notin DOMAIN halted
      /\ how \in {"boot", "stopped", "killed"}
      /\ IF how = "boot" THEN since = boot /\ \A row \in sessions : row.boot # boot
         ELSE \E row \in sessions :
                 /\ sessions = {row}
                 /\ row.boot = boot
                 /\ row.stop = IF how = "stopped" THEN since ELSE 0
  BY <1>1, DownIs
<1> DEFINE New(x) ==
             \/ /\ x.kind = "late" /\ x.gap > StartGap /\ x.boot = boot /\ x.gap = now - boot
                /\ \A row \in sessions : row.boot # boot
             \/ /\ x.kind = "killed" /\ x.gap = 0 /\ x.boot = boot
                /\ \E row \in sessions : row.boot = boot /\ row.stop = 0
             \/ /\ x.kind = "restart" /\ x.gap > RestartGap /\ x.boot = boot
                /\ \E row \in sessions : row.boot = boot /\ row.stop # 0 /\ x.gap = now - row.stop
<1>3. ASSUME NEW x PROVE Due(x, pc)' <=> Due(x, pc) \/ New(x)
  <2>1. LateDue(x, pc)' <=> LateDue(x, pc)
           \/ /\ x.kind = "late" /\ x.gap > StartGap /\ x.boot = boot /\ x.gap = now - boot
              /\ \A row \in sessions : row.boot # boot
    BY <1>1 DEF LateDue, Phases
  <2>2. KilledDue(x, pc)' <=> KilledDue(x, pc)
           \/ /\ x.kind = "killed" /\ x.gap = 0 /\ x.boot = boot
              /\ \E row \in sessions : row.boot = boot /\ row.stop = 0
    BY <1>1 DEF KilledDue
  <2>3. EarlyDue(x, pc)' <=> EarlyDue(x, pc)
    BY <1>1 DEF EarlyDue
  <2>4. /\ ~RestartDue(x, pc)
        /\ RestartDue(x, pc)' <=>
              /\ x.kind = "restart" /\ x.gap > RestartGap /\ x.boot = boot
              /\ \E row \in sessions : row.boot = boot /\ row.stop # 0 /\ x.gap = now - row.stop
    BY <1>1 DEF RestartDue
  <2>5. OmittedDue(x, pc)' <=> OmittedDue(x, pc)
    BY <1>1 DEF OmittedDue, Logged
  <2> QED BY <2>1, <2>2, <2>3, <2>4, <2>5 DEF Due
<1>4. o.boot = boot /\ o.kind = AtStart[how] /\ o.gap = now - since
  BY DEF Outage
<1>5. AtStart["boot"] = "late" /\ AtStart["stopped"] = "restart" /\ AtStart["killed"] = "killed"
  BY DEF AtStart
<1>6. Guilty(o) => \E x \in BypassType : About(x, o) /\ New(x)
  <2>1. Outage(boot, "killed", 0) \in BypassType /\ Outage(boot, AtStart[how], now - since) \in BypassType
    <3>1. AtStart[how] \in Kinds /\ "killed" \in Kinds
      BY <1>2, <1>5 DEF Kinds
    <3>2. 0 \in 0..MaxTime
      BY SessionsAssumption
    <3> QED BY <1>2, <3>1, <3>2 DEF Outage, BypassType
  <2>2. CASE how = "boot"
    <3>1. Guilty(o) => New(o)
      BY <1>2, <1>4, <1>5, <2>2 DEF Guilty
    <3>2. About(o, o)
      BY DEF About
    <3> QED BY <2>1, <3>1, <3>2
  <2>3. CASE how = "stopped"
    <3>1. Guilty(o) => New(o)
      BY <1>2, <1>4, <1>5, <2>3 DEF Guilty
    <3>2. About(o, o)
      BY DEF About
    <3> QED BY <2>1, <3>1, <3>2
  <2>4. CASE how = "killed"
    <3> DEFINE k == Outage(boot, "killed", 0)
    <3>1. New(k)
      BY <1>2, <2>4 DEF Outage
    <3>2. About(k, o)
      BY <1>4, <1>5, <2>4 DEF About, Outage
    <3> QED BY <2>1, <3>1, <3>2
  <2> QED BY <1>2, <2>2, <2>3, <2>4
<1>7. ASSUME NEW x \in BypassType, New(x)
      PROVE  Guilty(o) /\ About(x, o)
  <2>1. CASE how = "boot"
    <3>1. x.kind = "late" /\ x.gap > StartGap /\ x.boot = boot /\ x.gap = now - since
      BY <1>2, <1>7, <2>1
    <3> QED BY <1>4, <1>5, <2>1, <3>1 DEF Guilty, About
  <2>2. CASE how = "stopped"
    <3>1. x.kind = "restart" /\ x.gap > RestartGap /\ x.boot = boot /\ x.gap = now - since
      BY <1>2, <1>7, <2>2
    <3> QED BY <1>4, <1>5, <2>2, <3>1 DEF Guilty, About
  <2>3. CASE how = "killed"
    <3>1. x.kind = "killed" /\ x.boot = boot
      BY <1>2, <1>7, <2>3
    <3> QED BY <1>4, <1>5, <2>3, <3>1 DEF Guilty, About
  <2> QED BY <1>2, <2>1, <2>2, <2>3
<1>8. ASSUME NEW x \in BypassType, About(x, o)
      PROVE  ~Due(x, pc)
  <2>1. x.boot = boot /\ x.kind = AtStart[how]
    BY <1>4, <1>8 DEF About
  <2>2. x.kind \in {"late", "restart", "killed"} /\ (x.kind = "late" => how = "boot")
    BY <1>2, <1>5, <2>1
  <2>3. ~LateDue(x, pc)
    BY <1>1, <1>2, <2>1, <2>2 DEF LateDue, Phases
  <2>4. ~KilledDue(x, pc)
    BY <1>1, <1>2, <2>1 DEF KilledDue
  <2>5. ~EarlyDue(x, pc) /\ ~RestartDue(x, pc) /\ ~OmittedDue(x, pc)
    BY <1>1, <2>2 DEF EarlyDue, RestartDue, OmittedDue
  <2> QED BY <2>3, <2>4, <2>5 DEF Due
<1> HIDE DEF New, o
<1>9. Asks(o)
  BY <1>1, <1>3, <1>6, <1>7, <1>8 DEF Asks
<1> QED BY <1>9 DEF o

\* A halt after a time that was too long makes it due, too.
LEMMA AsksHalt ==
    ASSUME ReadingInv, TableInv, DownInv, Halt, pc = "off"
    PROVE  Asks(Outage(boot, AtHalt[how], now - since))
<1> DEFINE o == Outage(boot, AtHalt[how], now - since)
<1>1. /\ pc' = "off" /\ boot # 0 /\ Record(o) /\ Ends(now)
      /\ UNCHANGED <<bypasses, sessions>>
  BY DEF Halt, program
<1>2. /\ boot \in 1..MaxTime /\ since \in 1..MaxTime /\ now \in 1..MaxTime /\ now - since \in 0..MaxTime
      /\ boot \notin DOMAIN halted
      /\ \A b \in DOMAIN halted : b \in Nat /\ b < boot
      /\ how \in {"boot", "stopped", "killed"}
      /\ IF how = "boot" THEN since = boot /\ \A row \in sessions : row.boot # boot
         ELSE \E row \in sessions :
                 /\ sessions = {row}
                 /\ row.boot = boot
                 /\ row.stop = IF how = "stopped" THEN since ELSE 0
  BY <1>1, DownIs
<1>3. /\ DOMAIN halted' = DOMAIN halted \cup {boot} /\ halted'[boot] = now
      /\ \A b \in DOMAIN halted : halted'[b] = halted[b]
  BY <1>1, <1>2 DEF Ends
<1> DEFINE New(x) ==
             \/ /\ x.kind = "killed" /\ x.gap = 0 /\ x.boot = boot
                /\ \E row \in sessions : row.boot = boot /\ row.stop = 0
             \/ /\ x.kind = "early" /\ x.gap > StartGap /\ x.boot = boot
                /\ \E row \in sessions : row.boot = boot /\ row.stop # 0 /\ x.gap = now - row.stop
             \/ /\ x.kind = "omitted" /\ x.gap > StartGap /\ x.boot = boot /\ x.gap = now - boot
                /\ \E row \in sessions : row.boot < boot
<1>4. ASSUME NEW x PROVE Due(x, pc)' <=> Due(x, pc) \/ New(x)
  <2>1. LateDue(x, pc)' <=> LateDue(x, pc)
    BY <1>1 DEF LateDue, Phases
  <2>2. KilledDue(x, pc)' <=> KilledDue(x, pc)
           \/ /\ x.kind = "killed" /\ x.gap = 0 /\ x.boot = boot
              /\ \E row \in sessions : row.boot = boot /\ row.stop = 0
    BY <1>1, <1>3 DEF KilledDue
  <2>3. EarlyDue(x, pc)' <=> EarlyDue(x, pc)
           \/ /\ x.kind = "early" /\ x.gap > StartGap /\ x.boot = boot
              /\ \E row \in sessions : row.boot = boot /\ row.stop # 0 /\ x.gap = now - row.stop
    BY <1>1, <1>2, <1>3 DEF EarlyDue
  <2>4. ~RestartDue(x, pc) /\ ~RestartDue(x, pc)'
    BY <1>1 DEF RestartDue
  <2>5. OmittedDue(x, pc)' <=> OmittedDue(x, pc)
           \/ /\ x.kind = "omitted" /\ x.gap > StartGap /\ x.boot = boot /\ x.gap = now - boot
              /\ \E row \in sessions : row.boot < boot
    <3>1. \A y : (\E f \in Logged(pc) : f < y) <=> \E row \in sessions : row.boot < y
      BY DEF Logged
    <3>2. Logged(pc)' = Logged(pc)
      BY <1>1 DEF Logged
    <3>3. CASE x.boot = boot
      BY <1>2, <1>3, <3>1, <3>2, <3>3 DEF OmittedDue
    <3>4. CASE x.boot # boot
      <4>1. x.boot \in DOMAIN halted' <=> x.boot \in DOMAIN halted
        BY <1>3, <3>4
      <4>2. x.boot \in DOMAIN halted => halted'[x.boot] = halted[x.boot]
        BY <1>3
      <4> QED BY <3>2, <3>4, <4>1, <4>2 DEF OmittedDue
    <3> QED BY <3>3, <3>4
  <2> QED BY <2>1, <2>2, <2>3, <2>4, <2>5 DEF Due
<1>5. o.boot = boot /\ o.kind = AtHalt[how] /\ o.gap = now - since
  BY DEF Outage
<1>6. AtHalt["boot"] = "omitted" /\ AtHalt["stopped"] = "early" /\ AtHalt["killed"] = "killed"
  BY DEF AtHalt
<1>7. Guilty(o) => \E x \in BypassType : About(x, o) /\ ((o.kind = "omitted" /\ Logged(pc) = {}) \/ New(x))
  <2>1. Outage(boot, "killed", 0) \in BypassType /\ Outage(boot, AtHalt[how], now - since) \in BypassType
    <3>1. AtHalt[how] \in Kinds /\ "killed" \in Kinds
      BY <1>2, <1>6 DEF Kinds
    <3>2. 0 \in 0..MaxTime
      BY SessionsAssumption
    <3> QED BY <1>2, <3>1, <3>2 DEF Outage, BypassType
  <2>2. CASE how = "boot"
    <3>1. Logged(pc) # {} => \E row \in sessions : row.boot < boot
      <4> SUFFICES ASSUME NEW row \in sessions
                   PROVE  row.boot < boot
        BY DEF Logged
      <4>1. row.boot \in DOMAIN halted
        BY <1>2, <2>2 DEF TableInv, Booted
      <4> QED BY <1>2, <4>1
    <3>2. Guilty(o) /\ Logged(pc) # {} => New(o)
      BY <1>2, <1>5, <1>6, <2>2, <3>1 DEF Guilty
    <3>3. About(o, o)
      BY DEF About
    <3> QED BY <1>5, <1>6, <2>1, <2>2, <3>2, <3>3
  <2>3. CASE how = "stopped"
    <3>1. Guilty(o) => New(o)
      BY <1>2, <1>5, <1>6, <2>3 DEF Guilty
    <3>2. About(o, o)
      BY DEF About
    <3> QED BY <2>1, <3>1, <3>2
  <2>4. CASE how = "killed"
    <3> DEFINE k == Outage(boot, "killed", 0)
    <3>1. New(k)
      BY <1>2, <2>4 DEF Outage
    <3>2. About(k, o)
      BY <1>5, <1>6, <2>4 DEF About, Outage
    <3> QED BY <2>1, <3>1, <3>2
  <2> QED BY <1>2, <2>2, <2>3, <2>4
<1>8. ASSUME NEW x \in BypassType, New(x)
      PROVE  Guilty(o) /\ About(x, o)
  <2>1. CASE how = "boot"
    <3>1. x.kind = "omitted" /\ x.gap > StartGap /\ x.boot = boot /\ x.gap = now - since
      BY <1>2, <1>8, <2>1
    <3> QED BY <1>5, <1>6, <2>1, <3>1 DEF Guilty, About
  <2>2. CASE how = "stopped"
    <3>1. x.kind = "early" /\ x.gap > StartGap /\ x.boot = boot /\ x.gap = now - since
      BY <1>2, <1>8, <2>2
    <3> QED BY <1>5, <1>6, <2>2, <3>1 DEF Guilty, About
  <2>3. CASE how = "killed"
    <3>1. x.kind = "killed" /\ x.boot = boot
      BY <1>2, <1>8, <2>3
    <3> QED BY <1>5, <1>6, <2>3, <3>1 DEF Guilty, About
  <2> QED BY <1>2, <2>1, <2>2, <2>3
<1>9. ASSUME NEW x \in BypassType, About(x, o)
      PROVE  ~Due(x, pc)
  <2>1. x.boot = boot /\ x.kind = AtHalt[how]
    BY <1>5, <1>9 DEF About
  <2>2. x.kind \in {"omitted", "early", "killed"}
    BY <1>2, <1>6, <2>1
  <2>3. ~LateDue(x, pc) /\ ~RestartDue(x, pc)
    BY <2>2 DEF LateDue, RestartDue
  <2>4. ~KilledDue(x, pc) /\ ~EarlyDue(x, pc) /\ ~OmittedDue(x, pc)
    BY <1>2, <2>1 DEF KilledDue, EarlyDue, OmittedDue
  <2> QED BY <2>3, <2>4 DEF Due
<1> HIDE DEF New, o
<1>10. Asks(o)
  BY <1>1, <1>4, <1>7, <1>8, <1>9 DEF Asks
<1> QED BY <1>10 DEF o

-----------------------------------------------------------------------------
\* What has to hold before an orderly step.
Ordered == ReadingInv /\ TableInv /\ DownInv /\ CrashInv /\ Orderly

\* An orderly step logs what is due, or it asks for something, or it is one of the
\* mishaps.
LEMMA StepIs ==
    ASSUME Ordered, Orderly', [Next]_vars
    PROVE  \/ outages' = outages /\ \E t \in Seq(BypassType) : Logs(t)
           \/ Start /\ Asks(Outage(boot, AtStart[how], now - since))
           \/ Halt /\ pc = "off" /\ Asks(Outage(boot, AtHalt[how], now - since))
           \/ Reset \/ Crash \/ SelectFails \/ DeleteFails \/ StartFails
<1> USE DEF Ordered
<1>1. <<>> \in Seq(BypassType)
  OBVIOUS
<1>2. CASE Tick \/ Boot \/ Kill \/ UNCHANGED vars
  <2>1. outages' = outages
    BY <1>2 DEF Tick, Boot, Kill, vars, history
  <2> QED BY <1>1, <1>2, <2>1, QuietSteps
<1>3. CASE Stop \/ (Halt /\ pc = "running")
  <2>1. outages' = outages
    BY <1>3 DEF Stop, Halt
  <2> QED BY <1>1, <1>3, <2>1, QuietStop
<1>4. CASE Start
  BY <1>4, AsksStart
<1>5. CASE Halt /\ pc = "off"
  BY <1>5, AsksHalt
<1>6. CASE Halt /\ pc \notin {"off", "running"}
  BY <1>6 DEF Halt
<1>7. CASE ProgramStep
  <2>1. outages' = outages /\ pc \in Phases
    BY <1>7, StartingStep
  <2>2. CASE SelectSessions \/ (ProcessRow /\ pc' = "row")
    BY <1>1, <2>1, <2>2, QuietSteps
  <2>3. CASE ProcessRow /\ pc' # "row"
    <3>1. pc' = "delete"
      BY <2>3 DEF ProcessRow
    <3> QED BY <2>1, <2>3, <3>1, LogsRow
  <2>4. CASE DeleteRow
    BY <1>1, <2>1, <2>4, QuietDelete
  <2>5. CASE LogOmitted
    BY <2>1, <2>5, LogsOmitted
  <2>6. CASE StartUnknown \/ StartUnset
    <3>1. BootTime(boots, now) = boot /\ boot # 0
      BY <2>1, OrderlyStart
    <3>2. ~StartUnknown
      BY <3>1 DEF StartUnknown
    <3>3. ~StartUnset
      <4> SUFFICES ASSUME StartUnset PROVE FALSE
        OBVIOUS
      <4>1. Mishap("unset")
        BY Zenon DEF StartUnset
      <4>2. "unset" \in mishaps'
        BY <4>1 DEF Mishap
      <4> QED BY <4>2 DEF Orderly
    <3> QED BY <2>6, <3>2, <3>3
  <2>7. CASE StartFirst \/ Reopen
    BY <1>1, <2>1, <2>7, QuietOpen
  <2>8. CASE StartAgain
    BY <2>1, <2>8, LogsAgain
  <2>9. CASE SelectFails \/ DeleteFails \/ StartFails
    BY <2>9
  <2> QED BY <1>7, <2>2, <2>3, <2>4, <2>5, <2>6, <2>7, <2>8, <2>9 DEF ProgramStep
<1> QED BY <1>2, <1>3, <1>4, <1>5, <1>6, <1>7 DEF Next

\* A halt that is known does not change.
LEMMA HaltedGrows ==
    ASSUME ReadingInv, [Next]_vars
    PROVE  /\ \A b \in DOMAIN halted : b \in DOMAIN halted' /\ halted'[b] = halted[b]
           /\ Booted \subseteq Booted'
<1>1. boot \notin DOMAIN halted /\ (pc # "off" => boot # 0)
  BY DEF ReadingInv, ComputerInv, TypeInv
<1>2. CASE Boot
  BY <1>2 DEF Boot, Booted
<1>3. CASE Halt \/ Crash
  <2>1. PICK time : Ends(time)
    BY <1>3 DEF Halt, Crash
  <2> QED BY <1>1, <1>3, <2>1 DEF Halt, Crash, Ends, Booted
<1>4. CASE ~Boot /\ ~Halt /\ ~Crash
  BY <1>4, Uneventful DEF Booted
<1> QED BY <1>2, <1>3, <1>4

\* A session without a halt is one that crashed.
LEMMA CrashStep == ReadingInv /\ CrashInv /\ [Next]_vars => CrashInv'
<1> SUFFICES ASSUME ReadingInv, CrashInv, [Next]_vars, "crash" \notin mishaps'
             PROVE  \A b \in DOMAIN halted' : halted'[b] # 0
  BY DEF CrashInv
<1>1. \A b \in DOMAIN halted : halted[b] # 0
  BY MishapsGrow DEF CrashInv
<1>2. CASE Boot
  BY <1>1, <1>2 DEF Boot, history
<1>3. CASE Halt
  <2>1. now # 0
    BY <1>3 DEF Halt, ReadingInv, TypeInv, TypeOK
  <2> QED BY <1>1, <1>3, <2>1 DEF Halt, Ends
<1>4. CASE Crash
  BY <1>4 DEF Crash, Mishap
<1>5. CASE ~Boot /\ ~Halt /\ ~Crash
  BY <1>1, <1>5, Uneventful
<1> QED BY <1>2, <1>3, <1>4, <1>5

\* The statement that fails leaves everything as it is, and leads back.
LEMMA FailsIs ==
    ASSUME Ordered, Orderly', SelectFails \/ DeleteFails \/ StartFails
    PROVE  /\ UNCHANGED <<sessions, bypasses, outages, known, halted, boot, now, seen, how, acts>>
           /\ \/ pc = "select" /\ pc' = "select"
              \/ pc = "delete" /\ pc' = "select" /\ sessions # {} /\ \A row \in sessions : seen = {row.boot}
              \/ pc \in {"start", "reopen"} /\ pc' = "start"
<1>1. \A label, onward : Fails(label, onward) =>
         /\ pc' = label
         /\ UNCHANGED <<sessions, bypasses, outages, known, halted, boot, now, seen, how, acts>>
  BY DEF Fails, Mishap, Orderly, computer, tables
<1>2. CASE SelectFails
  BY <1>1, <1>2 DEF SelectFails
<1>3. CASE DeleteFails
  <2>1. sessions # {} /\ \A row \in sessions : seen = {row.boot}
    BY <1>3 DEF DeleteFails, Ordered, TableInv
  <2> QED BY <1>1, <1>3, <2>1 DEF DeleteFails
<1>4. CASE StartFails
  BY <1>1, <1>4 DEF StartFails
<1> QED BY <1>2, <1>3, <1>4

\* Until a row is deleted or opened again, a lock leads back to what was due
\* before.
LEMMA BeforeStays ==
    ASSUME Ordered, Orderly', [Next]_vars, pc' \in {"delete", "reopen"}, NEW x
    PROVE  Due(x, Before)' <=> Due(x, Before)
<1> USE DEF computer, tables, program, history
<1>1. pc # "off" => boot # 0
  BY DEF Ordered, ReadingInv, TypeInv
<1>2. \/ ProcessRow /\ pc' = "delete"
      \/ StartAgain
      \/ UNCHANGED vars
  <2>1. ~Tick
    BY DEF Tick, Mishap, Orderly
  <2>2. ~Boot
    BY <1>1 DEF Boot
  <2>3. ~Halt /\ ~Crash /\ ~Stop /\ ~Kill
    BY DEF Halt, Crash, Stop, Kill, Terminate
  <2>4. ~Start /\ ~Reset
    BY DEF Start, Reset, NewDatabase
  <2>5. ~SelectSessions /\ ~DeleteRow /\ ~LogOmitted
    BY DEF SelectSessions, DeleteRow, LogOmitted
  <2>6. ~SelectFails /\ ~DeleteFails /\ ~StartFails
    BY FailsIs
  <2>7. ~StartUnknown /\ ~StartFirst /\ ~StartUnset /\ ~Reopen
    BY DEF StartUnknown, StartFirst, StartUnset, Reopen
  <2>8. ProcessRow => pc' = "delete"
    BY DEF ProcessRow
  <2> QED BY <2>1, <2>2, <2>3, <2>4, <2>5, <2>6, <2>7, <2>8 DEF Next, ProgramStep
<1>3. CASE ProcessRow /\ pc' = "delete"
  <2>1. Before = "row" /\ Before' = "row" /\ UNCHANGED <<sessions, halted, boot, now, seen>>
    BY <1>3 DEF ProcessRow, Before
  <2>2. Logged("row")' = Logged("row")
    BY <2>1 DEF Logged
  <2>3. Due(x, "row")' <=> Due(x, "row")
    BY <2>1, <2>2, SameStart
  <2> QED BY <2>1, <2>3
<1>4. CASE StartAgain
  <2>1. Before = "start" /\ Before' = "start" /\ UNCHANGED <<sessions, halted, boot, now>>
    BY <1>4 DEF StartAgain, Before
  <2>2. Logged("start")' = Logged("start")
    BY <2>1 DEF Logged
  <2>3. Due(x, "start")' <=> Due(x, "start")
    BY <2>1, <2>2, SameStart
  <2> QED BY <2>1, <2>3
<1>5. CASE UNCHANGED vars
  BY <1>5 DEF vars, Due, LateDue, KilledDue, EarlyDue, RestartDue, OmittedDue, Logged, Before
<1> QED BY <1>2, <1>3, <1>4, <1>5

\* What becomes due when a lock leads back was due before.
LEMMA FailsBefore ==
    ASSUME Ordered, Orderly', SelectFails \/ DeleteFails \/ StartFails, NEW x
    PROVE  Due(x, Before)' <=> Due(x, Before)
<1>1. UNCHANGED <<sessions, halted, boot, now, seen>>
  BY FailsIs
<1>2. CASE pc = "select" /\ pc' = "select"
  <2>1. Before = "select" /\ Before' = "select"
    BY <1>2 DEF Before
  <2>2. Logged("select")' = Logged("select")
    BY <1>1 DEF Logged
  <2>3. Due(x, "select")' <=> Due(x, "select")
    BY <1>1, <2>2, SameStart
  <2> QED BY <2>1, <2>3
<1>3. CASE pc = "delete" /\ pc' = "select" /\ sessions # {} /\ \A row \in sessions : seen = {row.boot}
  <2>1. Before = "row" /\ Before' = "select"
    BY <1>3 DEF Before
  <2>2. Logged("select")' = Logged("row")
    <3>1. {row.boot : row \in sessions} = seen
      BY <1>3
    <3> QED BY <1>1, <3>1 DEF Logged
  <2>3. Due(x, "select")' <=> Due(x, "row")
    BY <1>1, <2>2, SameStart
  <2> QED BY <2>1, <2>3
<1>4. CASE pc \in {"start", "reopen"} /\ pc' = "start"
  <2>1. Before = "start" /\ Before' = "start"
    BY <1>4 DEF Before
  <2>2. Logged("start")' = Logged("start")
    BY <1>1 DEF Logged
  <2>3. Due(x, "start")' <=> Due(x, "start")
    BY <1>1, <2>2, SameStart
  <2> QED BY <2>1, <2>3
<1> QED BY <1>2, <1>3, <1>4, FailsIs

-----------------------------------------------------------------------------
\* What is recorded is answered for.
LEMMA Recorded ==
    ASSUME NEW b, NEW kind, NEW gap, Record(Outage(b, kind, gap))
    PROVE  /\ outages \subseteq outages'
           /\ Guilty(Outage(b, kind, gap)) => Remembered(Outage(b, kind, gap)) \in outages'
           /\ \A x : About(x, Remembered(Outage(b, kind, gap))) <=> About(x, Outage(b, kind, gap))
<1>1. /\ outages \subseteq outages'
      /\ Guilty(Outage(b, kind, gap)) => Remembered(Outage(b, kind, gap)) \in outages'
  BY RecordIs
<1>2. \A x : About(x, Remembered(Outage(b, kind, gap))) <=> About(x, Outage(b, kind, gap))
  BY DEF About, Remembered, Outage
<1> QED BY <1>1, <1>2

\* What was logged stays, and what is new was logged in this step.
LEMMA LogsAppend ==
    ASSUME bypasses \in Seq(BypassType), NEW t \in Seq(BypassType), Logs(t)
    PROVE  /\ Len(bypasses') = Len(bypasses) + Len(t)
           /\ \A n \in 1..Len(bypasses) : n \in 1..Len(bypasses') /\ bypasses'[n] = bypasses[n]
           /\ \A n \in 1..Len(t) : Len(bypasses) + n \in 1..Len(bypasses') /\ bypasses'[Len(bypasses) + n] = t[n]
           /\ \A n \in 1..Len(bypasses') :
                 \/ n \in 1..Len(bypasses) /\ bypasses'[n] = bypasses[n]
                 \/ \E m \in 1..Len(t) : n = Len(bypasses) + m /\ bypasses'[n] = t[m]
<1>1. bypasses' = bypasses \o t
  BY DEF Logs
<1>2. /\ Len(bypasses) \in Nat /\ Len(t) \in Nat /\ Len(bypasses') = Len(bypasses) + Len(t)
      /\ \A n \in 1..Len(bypasses) + Len(t) :
            bypasses'[n] = IF n <= Len(bypasses) THEN bypasses[n] ELSE t[n - Len(bypasses)]
  BY <1>1, ConcatProperties
<1>3. ASSUME NEW n \in 1..Len(bypasses)
      PROVE  n \in 1..Len(bypasses') /\ bypasses'[n] = bypasses[n]
  <2>1. n \in 1..Len(bypasses) + Len(t) /\ n <= Len(bypasses)
    BY <1>2
  <2> QED BY <1>2, <2>1
<1>4. ASSUME NEW n \in 1..Len(t)
      PROVE  Len(bypasses) + n \in 1..Len(bypasses') /\ bypasses'[Len(bypasses) + n] = t[n]
  <2>1. /\ Len(bypasses) + n \in 1..Len(bypasses) + Len(t)
        /\ ~(Len(bypasses) + n <= Len(bypasses))
        /\ Len(bypasses) + n - Len(bypasses) = n
    BY <1>2
  <2> QED BY <1>2, <2>1
<1>5. ASSUME NEW n \in 1..Len(bypasses')
      PROVE  \/ n \in 1..Len(bypasses) /\ bypasses'[n] = bypasses[n]
             \/ \E m \in 1..Len(t) : n = Len(bypasses) + m /\ bypasses'[n] = t[m]
  <2>1. CASE n <= Len(bypasses)
    BY <1>2, <2>1
  <2>2. CASE ~(n <= Len(bypasses))
    <3>1. n - Len(bypasses) \in 1..Len(t) /\ n = Len(bypasses) + (n - Len(bypasses))
      BY <1>2, <2>2
    <3>2. bypasses'[n] = t[n - Len(bypasses)]
      BY <1>2, <2>2
    <3> QED BY <3>1, <3>2
  <2> QED BY <2>1, <2>2
<1> QED BY <1>2, <1>3, <1>4, <1>5

\* What was logged, or will be, is what the user is answerable for.
LEMMA AnswerableStep ==
    ReadingInv /\ OrderlyInv /\ CrashInv /\ AnswerableInv /\ [Next]_vars => AnswerableInv'
<1> SUFFICES ASSUME ReadingInv, OrderlyInv, CrashInv, AnswerableInv, [Next]_vars,
                    mishaps' \subseteq {"locked"}
             PROVE  /\ \A n \in 1..Len(bypasses') : \E o \in outages' : About(bypasses'[n], o)
                    /\ \A x \in BypassType : Due(x, Before)' => \E o \in outages' : About(x, o)
  BY DEF AnswerableInv, Answerable
<1>1. mishaps \subseteq {"locked"} /\ Orderly /\ Orderly' /\ "crash" \notin mishaps
  BY MishapsGrow DEF Orderly
<1>2. Ordered
  BY <1>1 DEF Ordered, OrderlyInv
<1>3. /\ \A n \in 1..Len(bypasses) : Answerable(bypasses[n])
      /\ \A x \in BypassType : Due(x, Before) => Answerable(x)
  BY <1>1 DEF AnswerableInv
<1>4. bypasses \in Seq(BypassType)
  BY DEF ReadingInv, TypeInv, TypeOK
<1>5. ASSUME outages \subseteq outages'
      PROVE  \A x : Answerable(x) => \E o \in outages' : About(x, o)
  BY <1>5 DEF Answerable
<1>6. ASSUME NEW x \in BypassType, pc' \notin {"delete", "reopen"}, Due(x, Before)'
      PROVE  Due(x, pc)'
  BY <1>6 DEF Before
<1>7. CASE outages' = outages /\ \E t \in Seq(BypassType) : Logs(t)
  <2>1. PICK t \in Seq(BypassType) : Logs(t)
    BY <1>7
  <2>2. ASSUME NEW n \in 1..Len(t) PROVE Answerable(t[n])
    <3>1. t[n] \in BypassType /\ In(t[n], t)
      BY DEF In
    <3>2. Due(t[n], pc)
      BY <1>1, <2>1, <3>1 DEF Logs
    <3> QED BY <1>3, <3>1, <3>2, DueBefore
  <2>3. \A n \in 1..Len(bypasses') : Answerable(bypasses'[n])
    BY <1>3, <1>4, <2>1, <2>2, LogsAppend
  <2>4. ASSUME NEW x \in BypassType, Due(x, Before)'
        PROVE  Answerable(x)
    <3>1. CASE pc' \in {"delete", "reopen"}
      BY <1>1, <1>2, <1>3, <2>4, <3>1, BeforeStays
    <3>2. CASE pc' \notin {"delete", "reopen"}
      <4>1. Due(x, pc)
        BY <1>6, <2>1, <2>4, <3>2 DEF Logs
      <4> QED BY <1>3, <4>1, DueBefore
    <3> QED BY <3>1, <3>2
  <2> QED BY <1>5, <1>7, <2>3, <2>4
<1>8. ASSUME NEW b, NEW kind, NEW gap, Asks(Outage(b, kind, gap)), pc' \notin {"delete", "reopen"}
      PROVE  /\ \A n \in 1..Len(bypasses') : \E r \in outages' : About(bypasses'[n], r)
             /\ \A x \in BypassType : Due(x, Before)' => \E r \in outages' : About(x, r)
  <2> DEFINE o == Outage(b, kind, gap)
  <2>1. /\ outages \subseteq outages'
        /\ Guilty(o) => Remembered(o) \in outages'
        /\ \A x : About(x, Remembered(o)) <=> About(x, o)
    BY <1>8, Recorded DEF Asks
  <2>2. bypasses' = bypasses /\ \A x \in BypassType : Due(x, pc)' => Due(x, pc) \/ (Guilty(o) /\ About(x, o))
    BY <1>8 DEF Asks
  <2> HIDE DEF o
  <2>3. ASSUME NEW x \in BypassType, Due(x, Before)'
        PROVE  \E r \in outages' : About(x, r)
    <3>1. CASE Due(x, pc)
      BY <1>3, <1>5, <2>1, <3>1, DueBefore
    <3>2. CASE Guilty(o) /\ About(x, o)
      BY <2>1, <3>2
    <3> QED BY <1>6, <1>8, <2>2, <2>3, <3>1, <3>2
  <2> QED BY <1>3, <1>5, <2>1, <2>2, <2>3
<1>9. CASE Start /\ Asks(Outage(boot, AtStart[how], now - since))
  <2>1. pc' \notin {"delete", "reopen"}
    BY <1>9 DEF Start, NewDatabase
  <2> QED BY <1>8, <1>9, <2>1
<1>10. CASE Halt /\ pc = "off" /\ Asks(Outage(boot, AtHalt[how], now - since))
  <2>1. pc' \notin {"delete", "reopen"}
    BY <1>10 DEF Halt, Terminate, program
  <2> QED BY <1>8, <1>10, <2>1
<1>11. CASE Reset \/ Crash
  BY <1>11 DEF Reset, Crash, Mishap
<1>12. CASE SelectFails \/ DeleteFails \/ StartFails
  <2>1. outages' = outages /\ bypasses' = bypasses
    BY <1>1, <1>2, <1>12, FailsIs
  <2>2. \A x : Due(x, Before)' => Due(x, Before)
    BY <1>1, <1>2, <1>12, FailsBefore
  <2> QED BY <1>3, <1>5, <2>1, <2>2
<1> QED BY <1>1, <1>2, <1>7, <1>9, <1>10, <1>11, <1>12, StepIs

\* What was found out so far, and what is still due.
LEMMA FoundCorrect == Spec => [](ReadingInv /\ OrderlyInv /\ CrashInv)
<1>1. Init => CrashInv
  BY DEF Init, CrashInv
<1>2. Init /\ [][Next]_vars => [](ReadingInv /\ OrderlyInv)
  BY OrderlyCorrect DEF Spec
<1>3. Init /\ [][Next]_vars => []CrashInv
  BY <1>1, <1>2, CrashStep, PTL
<1> QED BY <1>2, <1>3, PTL DEF Spec

\* Nobody is accused of a bypass unless the program was killed or was down too
\* long while the computer was up, and then of just that, even if the database is
\* locked meanwhile.
THEOREM AccusationsCorrect == Spec => []NoFalseAccusation
<1>1. Init => AnswerableInv
  <2> SUFFICES ASSUME Init PROVE AnswerableInv
    OBVIOUS
  <2>1. pc = "off" /\ sessions = {} /\ bypasses = <<>>
    BY DEF Init
  <2>2. \A x : ~Due(x, Before)
    <3>1. Before = "off"
      BY <2>1 DEF Before
    <3>2. \A x : ~Due(x, "off")
      BY <2>1 DEF Due, LateDue, KilledDue, EarlyDue, RestartDue, OmittedDue, Logged, Phases
    <3> QED BY <3>1, <3>2
  <2> QED BY <2>1, <2>2 DEF AnswerableInv
<1>2. AnswerableInv => NoFalseAccusation
  BY DEF AnswerableInv, Answerable, NoFalseAccusation
<1>3. Init /\ [][Next]_vars => [](ReadingInv /\ OrderlyInv /\ CrashInv)
  BY FoundCorrect DEF Spec
<1>4. Init /\ [][Next]_vars => []AnswerableInv
  BY <1>1, <1>3, AnswerableStep, PTL
<1> QED BY <1>2, <1>4, PTL DEF Spec

-----------------------------------------------------------------------------
\* A session becomes known with its row.
LEMMA KnownIs ==
    ASSUME Ordered, Orderly', [Next]_vars
    PROVE  known' = known \/ (boot # 0 /\ known' = known \cup {boot})
<1> USE DEF vars, computer, tables, program, history, NewDatabase, Fails
<1>1. CASE Tick \/ Boot \/ Halt \/ Crash \/ Stop \/ Kill \/ Start \/ Reset
  BY <1>1 DEF Tick, Boot, Halt, Crash, Stop, Kill, Start, Reset
<1>2. CASE SelectSessions \/ ProcessRow \/ DeleteRow \/ LogOmitted
  BY <1>2 DEF SelectSessions, ProcessRow, DeleteRow, LogOmitted
<1>3. CASE SelectFails \/ DeleteFails \/ StartFails
  BY <1>3 DEF SelectFails, DeleteFails, StartFails
<1>4. CASE StartUnknown \/ StartUnset \/ StartAgain \/ Reopen
  BY <1>4 DEF StartUnknown, StartUnset, StartAgain, Reopen
<1>5. CASE StartFirst
  <2>1. pc \in Phases
    BY <1>5 DEF StartFirst, Phases
  <2>2. BootTime(boots, now) = boot /\ boot # 0
    BY <2>1, OrderlyStart DEF Ordered
  <2> QED BY <1>5, <2>2 DEF StartFirst
<1>6. CASE UNCHANGED vars
  BY <1>6
<1> QED BY <1>1, <1>2, <1>3, <1>4, <1>5, <1>6 DEF Next, ProgramStep

\* What a report is to tell of after a step it was to tell of before.
LEMMA RelevantBefore ==
    ASSUME Ordered, Orderly', [Next]_vars, NEW o, o.boot \in Booted, Relevant(o)'
    PROVE  Relevant(o)
<1>1. o.boot \in DOMAIN halted => halted[o.boot] # 0
  BY HaltedGrows DEF Relevant, Ordered
<1>2. o.kind = "omitted" => "crash" \notin mishaps /\ \E b \in known' : b < o.boot
  BY MishapsGrow DEF Relevant
<1>3. ~(boot < o.boot /\ boot # 0)
  <2>1. /\ boot \in Nat /\ \A b \in DOMAIN halted : b \in Nat
        /\ \A b \in DOMAIN halted : boot # 0 => b < boot
    BY DEF Ordered, ReadingInv, ComputerInv, TypeInv, TypeOK
  <2>2. o.boot = boot \/ o.boot \in DOMAIN halted
    BY DEF Booted
  <2> QED BY <2>1, <2>2
<1>4. o.kind = "omitted" => \E b \in known : b < o.boot
  BY <1>2, <1>3, KnownIs
<1> QED BY <1>1, <1>2, <1>4 DEF Relevant

\* A row that tells of an earlier session is not forgotten before the next row.
LEMMA LoggedStays ==
    ASSUME Ordered, TableInv', Orderly', [Next]_vars, ~Crash,
           pc = "start" \/ Logged(pc) # {} \/ known' # known
    PROVE  pc' = "start" \/ Logged(pc)' # {}
<1> USE DEF computer, tables, program, history, Ordered
<1>1. CASE pc' \in {"delete", "reopen", "running"}
  <2>1. sessions' # {}
    BY <1>1 DEF TableInv
  <2> QED BY <2>1 DEF Logged
<1>2. CASE pc' \in {"off", "select", "row"} /\ pc' # "start"
  <2>1. CASE UNCHANGED vars
    BY <1>2, <2>1 DEF vars, Logged
  <2>2. CASE Tick \/ Boot \/ Kill \/ Start \/ Reset
    <3>1. /\ sessions' = sessions /\ known' = known
          /\ pc \in {"off", "running"} /\ pc' \in {"off", "running", "select"}
      <4>1. pc # "off" => boot # 0
        BY DEF ReadingInv, TypeInv
      <4> QED BY <2>2, <4>1 DEF Tick, Boot, Kill, Start, Reset, NewDatabase, Terminate, Mishap, Orderly
    <3> QED BY <3>1 DEF Logged
  <2>3. CASE Stop \/ Halt
    <3>1. /\ sessions' = sessions \/ sessions' = WithStop(sessions, session, now)
          /\ known' = known /\ pc \in {"off", "running"} /\ pc' = "off"
      BY <2>3 DEF Stop, Halt, Terminate, LogSessionStop, WithStop
    <3>2. sessions # {}
      BY <3>1 DEF Logged
    <3>3. sessions' # {}
      BY <3>1, <3>2 DEF WithStop
    <3> QED BY <3>3 DEF Logged
  <2>4. CASE SelectSessions \/ ProcessRow
    <3>1. /\ sessions' = sessions /\ known' = known /\ pc \in {"select", "row"} /\ pc' \in {"row", "delete"}
          /\ pc = "row" => seen' = seen
      BY <2>4 DEF SelectSessions, ProcessRow
    <3> QED BY <3>1 DEF Logged
  <2>5. CASE DeleteRow
    <3>1. pc = "delete" /\ pc' = "row" /\ seen' = seen /\ known' = known /\ rows # <<>>
      BY <2>5 DEF DeleteRow, ReadingInv, TypeInv
    <3>2. seen # {}
      BY <3>1 DEF TableInv
    <3> QED BY <3>1, <3>2 DEF Logged
  <2>6. CASE SelectFails \/ DeleteFails \/ StartFails
    <3>1. /\ sessions' = sessions /\ known' = known
          /\ pc = "select" \/ (pc = "delete" /\ sessions # {}) \/ pc' = "start"
      BY <2>6, FailsIs
    <3> QED BY <1>2, <3>1 DEF Logged
  <2>7. CASE LogOmitted \/ StartUnknown \/ StartFirst \/ StartUnset \/ StartAgain \/ Reopen
    BY <1>2, <2>7 DEF LogOmitted, StartUnknown, StartFirst, StartUnset, StartAgain, Reopen
  <2> QED BY <2>1, <2>2, <2>3, <2>4, <2>5, <2>6, <2>7 DEF Next, ProgramStep
<1>3. pc' \in Labels
  <2>1. TypeInv'
    BY TypeStep DEF ReadingInv
  <2> QED BY <2>1 DEF TypeInv, TypeOK
<1> QED BY <1>1, <1>2, <1>3 DEF Labels

\* What is due stays due in a reset and when a statement fails, and in a crash
\* what is not of the session that crashed.
LEMMA MishapsDue ==
    ASSUME Ordered, Orderly', Reset \/ Crash \/ SelectFails \/ DeleteFails \/ StartFails,
           NEW x, Due(x, pc)
    PROVE  \/ Due(x, pc)'
           \/ x.boot \in DOMAIN halted' /\ halted'[x.boot] = 0
           \/ "crash" \in mishaps' /\ x.kind = "omitted"
<1> USE DEF computer, tables, program, history
<1>1. CASE Reset
  <2>1. pc = "running" /\ pc' = "select" /\ UNCHANGED <<sessions, halted, boot, now>>
    BY <1>1 DEF Reset, NewDatabase
  <2>2. LateDue(x, pc) => LateDue(x, pc)'
    BY <2>1 DEF LateDue, Phases
  <2>3. KilledDue(x, pc) => KilledDue(x, pc)'
    BY <2>1 DEF KilledDue
  <2>4. EarlyDue(x, pc) => EarlyDue(x, pc)'
    BY <2>1 DEF EarlyDue
  <2>5. ~RestartDue(x, pc)
    BY <2>1 DEF RestartDue
  <2>6. OmittedDue(x, pc) => OmittedDue(x, pc)'
    BY <2>1 DEF OmittedDue, Logged
  <2> QED BY <2>2, <2>3, <2>4, <2>5, <2>6 DEF Due
<1>2. CASE Crash
  <2>1. /\ pc' = "off" /\ sessions' = sessions /\ boot # 0 /\ boot' = 0 /\ "crash" \in mishaps'
        /\ Ends(0)
    BY <1>2 DEF Crash, Terminate, Mishap
  <2>2. boot \notin DOMAIN halted
    BY DEF Ordered, ReadingInv, ComputerInv
  <2>3. /\ boot \in DOMAIN halted' /\ halted'[boot] = 0
        /\ \A b \in DOMAIN halted : b \in DOMAIN halted' /\ halted'[b] = halted[b]
    BY <2>1, <2>2 DEF Ends
  <2>4. ASSUME x.boot # boot, x.kind # "omitted"
        PROVE  Due(x, pc)'
    <3>1. LateDue(x, pc) => LateDue(x, pc)'
      BY <2>1, <2>4 DEF LateDue, Phases
    <3>2. KilledDue(x, pc) => KilledDue(x, pc)'
      BY <2>1, <2>3, <2>4 DEF KilledDue
    <3>3. EarlyDue(x, pc) => EarlyDue(x, pc)'
      BY <2>1, <2>3 DEF EarlyDue
    <3>4. ~RestartDue(x, pc) /\ ~OmittedDue(x, pc)
      BY <2>4 DEF RestartDue, OmittedDue
    <3> QED BY <3>1, <3>2, <3>3, <3>4 DEF Due
  <2> QED BY <2>1, <2>3, <2>4
<1>3. CASE SelectFails \/ DeleteFails \/ StartFails
  <2>1. pc' \notin {"delete", "reopen"}
    BY <1>3, FailsIs
  <2>2. Due(x, Before)'
    BY <1>3, DueBefore, FailsBefore
  <2> QED BY <2>1, <2>2 DEF Before
<1> QED BY <1>1, <1>2, <1>3

\* What the user is answerable for is logged, or will be.
LEMMA ToldStep ==
    ReadingInv /\ OrderlyInv /\ CrashInv /\ ToldInv /\ [Next]_vars => ToldInv'
<1> SUFFICES ASSUME ReadingInv, OrderlyInv, CrashInv, ToldInv, [Next]_vars, Orderly'
             PROVE  /\ known' \subseteq Booted'
                    /\ \A o \in outages' : o.boot \in Booted'
                    /\ \A o \in outages' : Relevant(o)' =>
                          \/ \E n \in 1..Len(bypasses') : About(bypasses'[n], o)
                          \/ \E x \in BypassType : About(x, o) /\ Due(x, pc)'
                    /\ "crash" \notin mishaps' /\ known' # {} => pc' = "start" \/ Logged(pc)' # {}
  BY DEF ToldInv, Told
<1>1. Orderly
  BY MishapsGrow DEF Orderly
<1>2. Ordered /\ TableInv'
  <2>1. OrderlyInv'
    BY OrderlyStep
  <2> QED BY <1>1, <2>1 DEF Ordered, OrderlyInv
<1>3. /\ known \subseteq Booted
      /\ \A o \in outages : o.boot \in Booted
      /\ \A o \in outages :
            Relevant(o) => Told(o) \/ \E x \in BypassType : About(x, o) /\ Due(x, pc)
      /\ "crash" \notin mishaps /\ known # {} => pc = "start" \/ Logged(pc) # {}
  BY <1>1 DEF ToldInv
<1>4. bypasses \in Seq(BypassType)
  BY DEF ReadingInv, TypeInv, TypeOK
<1>5. Booted \subseteq Booted' /\ \A b \in DOMAIN halted : b \in DOMAIN halted' /\ halted'[b] = halted[b]
  BY HaltedGrows
<1>6. known' \subseteq Booted'
  <2>1. boot # 0 => boot \in Booted
    BY DEF Booted
  <2>2. known' \subseteq Booted
    BY <1>2, <1>3, <2>1, KnownIs
  <2> QED BY <1>5, <2>2
<1>7. "crash" \notin mishaps' /\ known' # {} => pc' = "start" \/ Logged(pc)' # {}
  <2> SUFFICES ASSUME "crash" \notin mishaps', known' # {}
               PROVE  pc' = "start" \/ Logged(pc)' # {}
    OBVIOUS
  <2>1. "crash" \notin mishaps /\ ~Crash
    BY MishapsGrow DEF Crash, Mishap
  <2>2. pc = "start" \/ Logged(pc) # {} \/ known' # known
    BY <1>3, <2>1
  <2> QED BY <1>2, <2>1, <2>2, LoggedStays
<1>8. ASSUME NEW o \in outages, Relevant(o)',
             \A n \in 1..Len(bypasses) : n \in 1..Len(bypasses') /\ bypasses'[n] = bypasses[n]
      PROVE  \/ \E n \in 1..Len(bypasses') : About(bypasses'[n], o)
             \/ \E x \in BypassType : About(x, o) /\ Due(x, pc)
  <2>1. Relevant(o)
    BY <1>2, <1>3, <1>8, RelevantBefore
  <2>2. CASE Told(o)
    BY <1>8, <2>2 DEF Told
  <2> QED BY <1>3, <2>1, <2>2
<1>9. CASE outages' = outages /\ \E t \in Seq(BypassType) : Logs(t)
  <2>1. PICK t \in Seq(BypassType) : Logs(t)
    BY <1>9
  <2>2. ASSUME NEW o \in outages, Relevant(o)', NEW x \in BypassType, About(x, o), Due(x, pc), ~Due(x, pc)'
        PROVE  \E n \in 1..Len(bypasses') : About(bypasses'[n], o)
    <3>1. ~(x.boot \in DOMAIN halted /\ halted[x.boot] = 0)
      <4>1. x.boot = o.boot
        BY <2>2 DEF About
      <4> QED BY <1>5, <2>2, <4>1 DEF Relevant
    <3>2. In(x, t)
      BY <2>1, <2>2, <3>1 DEF Logs
    <3>3. PICK n \in 1..Len(t) : t[n] = x
      BY <3>2 DEF In
    <3>4. Len(bypasses) + n \in 1..Len(bypasses') /\ bypasses'[Len(bypasses) + n] = x
      BY <1>4, <2>1, <3>3, LogsAppend
    <3> QED BY <2>2, <3>4
  <2>3. \A n \in 1..Len(bypasses) : n \in 1..Len(bypasses') /\ bypasses'[n] = bypasses[n]
    BY <1>4, <2>1, LogsAppend
  <2>4. ASSUME NEW o \in outages', Relevant(o)'
        PROVE  \/ \E n \in 1..Len(bypasses') : About(bypasses'[n], o)
               \/ \E x \in BypassType : About(x, o) /\ Due(x, pc)'
    BY <1>8, <1>9, <2>2, <2>3, <2>4
  <2>5. \A o \in outages' : o.boot \in Booted'
    BY <1>3, <1>5, <1>9
  <2> QED BY <1>6, <1>7, <2>4, <2>5
<1>10. ASSUME NEW kind, Asks(Outage(boot, kind, now - since)), boot # 0, pc # "start",
              known' = known
       PROVE  /\ \A o \in outages' : o.boot \in Booted'
              /\ \A o \in outages' : Relevant(o)' =>
                    \/ \E n \in 1..Len(bypasses') : About(bypasses'[n], o)
                    \/ \E x \in BypassType : About(x, o) /\ Due(x, pc)'
  <2>1. PICK o, m : o = Outage(boot, kind, now - since) /\ m = Remembered(o)
    OBVIOUS
  <2>2. /\ outages' = IF Guilty(o) THEN outages \cup {m} ELSE outages
        /\ \A x : About(x, m) <=> About(x, o)
    BY <1>10, <2>1, RecordIs, Recorded DEF Asks
  <2>3. /\ bypasses' = bypasses
        /\ \A x \in BypassType : Due(x, pc) => Due(x, pc)'
        /\ Guilty(o) => \E x \in BypassType :
              About(x, o) /\ ((o.kind = "omitted" /\ Logged(pc) = {}) \/ Due(x, pc)')
    BY <1>10, <2>1 DEF Asks
  <2>4. o.boot = boot /\ m.boot = boot /\ m.kind = o.kind
    BY <2>1 DEF Outage, Remembered
  <2>5. \A r \in outages' : r.boot \in Booted'
    BY <1>3, <1>5, <1>10, <2>2, <2>4 DEF Booted
  <2>6. ASSUME Guilty(o), Relevant(m)'
        PROVE  \E x \in BypassType : About(x, m) /\ Due(x, pc)'
    <3>1. ~(o.kind = "omitted" /\ Logged(pc) = {})
      <4> SUFFICES ASSUME o.kind = "omitted", Logged(pc) = {} PROVE FALSE
        OBVIOUS
      <4>1. "crash" \notin mishaps' /\ known # {}
        BY <1>10, <2>4, <2>6 DEF Relevant
      <4> QED BY <1>3, <1>10, <4>1, MishapsGrow
    <3> QED BY <2>2, <2>3, <2>6, <3>1
  <2>7. ASSUME NEW r \in outages', Relevant(r)'
        PROVE  \/ \E n \in 1..Len(bypasses') : About(bypasses'[n], r)
               \/ \E x \in BypassType : About(x, r) /\ Due(x, pc)'
    <3>1. CASE r \in outages
      BY <1>8, <2>3, <2>7, <3>1
    <3>2. CASE Guilty(o) /\ r = m
      BY <2>6, <2>7, <3>2
    <3> QED BY <2>2, <3>1, <3>2
  <2> QED BY <2>5, <2>7
<1>11. CASE Start /\ Asks(Outage(boot, AtStart[how], now - since))
  <2>1. boot # 0 /\ pc # "start" /\ known' = known
    BY <1>11 DEF Start
  <2> QED BY <1>6, <1>7, <1>10, <1>11, <2>1
<1>12. CASE Halt /\ pc = "off" /\ Asks(Outage(boot, AtHalt[how], now - since))
  <2>1. boot # 0 /\ pc # "start" /\ known' = known
    BY <1>12 DEF Halt
  <2> QED BY <1>6, <1>7, <1>10, <1>12, <2>1
<1>13. CASE Reset \/ Crash \/ SelectFails \/ DeleteFails \/ StartFails
  <2>1. outages' = outages /\ bypasses' = bypasses
    <3>1. CASE Reset \/ Crash
      BY <3>1 DEF Reset, Crash, tables
    <3>2. CASE SelectFails \/ DeleteFails \/ StartFails
      BY <1>2, <3>2, FailsIs
    <3> QED BY <1>13, <3>1, <3>2
  <2>2. ASSUME NEW o \in outages, Relevant(o)', NEW x \in BypassType, About(x, o), Due(x, pc)
        PROVE  Due(x, pc)'
    <3>1. x.boot = o.boot /\ x.kind = o.kind
      BY <2>2 DEF About
    <3> QED BY <1>2, <1>13, <2>2, <3>1, MishapsDue DEF Relevant
  <2>3. \A o \in outages' : o.boot \in Booted'
    BY <1>3, <1>5, <2>1
  <2>4. ASSUME NEW o \in outages', Relevant(o)'
        PROVE  \/ \E n \in 1..Len(bypasses') : About(bypasses'[n], o)
               \/ \E x \in BypassType : About(x, o) /\ Due(x, pc)'
    BY <1>8, <2>1, <2>2, <2>4
  <2> QED BY <1>6, <1>7, <2>3, <2>4
<1> QED BY <1>2, <1>9, <1>11, <1>12, <1>13, StepIs

\* Once the program runs, every outage of the earlier sessions of the computer and
\* every restart in this one was reported, but for sessions that crashed, those
\* before the first one that was logged, and the omitted ones after a crash.
THEOREM OutagesCorrect == Spec => []EveryOutageReported
<1>1. Init => ToldInv
  BY DEF Init, ToldInv
<1>2. ReadingInv /\ OrderlyInv /\ ToldInv => EveryOutageReported
  <2> SUFFICES ASSUME ReadingInv, OrderlyInv, ToldInv, pc = "running", Orderly,
                      NEW o \in outages,
                      IF o.boot = boot THEN o.kind \in {"killed", "restart"} ELSE halted[o.boot] # 0,
                      o.kind = "omitted" => "crash" \notin mishaps /\ \E b \in known : b < o.boot
               PROVE  \E n \in 1..Len(bypasses) : About(bypasses[n], o)
    BY DEF EveryOutageReported, Sniffing, Orderly
  <2>1. TableInv
    BY DEF OrderlyInv
  <2>2. boot # 0 /\ boot \notin DOMAIN halted /\ \E row \in sessions : Running(row)
    BY <2>1, RunningIs DEF ReadingInv, ComputerInv
  <2>3. Relevant(o)
    BY <2>2 DEF Relevant, ToldInv
  <2>4. Told(o) \/ \E x \in BypassType : About(x, o) /\ Due(x, pc)
    BY <2>3 DEF ToldInv
  <2>5. ASSUME NEW x \in BypassType, About(x, o), Due(x, pc)
        PROVE  FALSE
    <3>1. x.kind = "late" /\ x.boot = boot
      BY <2>2, <2>5, RunningDue
    <3>2. o.kind = "late" /\ o.boot = boot
      BY <2>5, <3>1 DEF About
    <3> QED BY <3>2
  <2> QED BY <2>4, <2>5 DEF Told
<1>3. Init /\ [][Next]_vars => [](ReadingInv /\ OrderlyInv /\ CrashInv)
  BY FoundCorrect DEF Spec
<1>4. Init /\ [][Next]_vars => []ToldInv
  BY <1>1, <1>3, ToldStep, PTL
<1> QED BY <1>2, <1>3, <1>4, PTL DEF Spec

-----------------------------------------------------------------------------
\* What is logged in a step is counted once more.
LEMMA TimesLogged ==
    ASSUME bypasses \in Seq(BypassType), NEW t \in Seq(BypassType), Logs(t), NEW x
    PROVE  /\ Times(x) \in Nat
           /\ Times(x)' = Times(x) + IF In(x, t) THEN 1 ELSE 0
<1> DEFINE S == {n \in 1..Len(bypasses) : bypasses[n] = x}
           T == {n \in 1..Len(bypasses') : bypasses'[n] = x}
<1>1. IsFiniteSet(S) /\ Cardinality(S) \in Nat
  <2>1. IsFiniteSet(1..Len(bypasses)) /\ S \subseteq 1..Len(bypasses)
    BY FS_Interval
  <2> QED BY <2>1, FS_Subset, FS_CardinalityType
<1>2. Times(x) = Cardinality(S) /\ Times(x)' = Cardinality(T)
  BY DEF Times
<1>3. /\ \A n \in 1..Len(bypasses) : n \in 1..Len(bypasses') /\ bypasses'[n] = bypasses[n]
      /\ \A n \in 1..Len(t) : Len(bypasses) + n \in 1..Len(bypasses') /\ bypasses'[Len(bypasses) + n] = t[n]
      /\ \A n \in 1..Len(bypasses') :
            \/ n \in 1..Len(bypasses) /\ bypasses'[n] = bypasses[n]
            \/ \E m \in 1..Len(t) : n = Len(bypasses) + m /\ bypasses'[n] = t[m]
  BY LogsAppend
<1>4. CASE In(x, t)
  <2>1. PICK k \in 1..Len(t) : t[k] = x
    BY <1>4 DEF In
  <2>2. \A m \in 1..Len(t) : t[m] = x => m = k
    BY <2>1 DEF Logs
  <2>3. T = S \cup {Len(bypasses) + k}
    <3>1. ASSUME NEW n \in T PROVE n \in S \cup {Len(bypasses) + k}
      <4>1. n \in 1..Len(bypasses') /\ bypasses'[n] = x
        OBVIOUS
      <4>2. CASE n \in 1..Len(bypasses) /\ bypasses'[n] = bypasses[n]
        BY <4>1, <4>2
      <4>3. CASE \E m \in 1..Len(t) : n = Len(bypasses) + m /\ bypasses'[n] = t[m]
        BY <2>2, <4>1, <4>3
      <4> QED BY <1>3, <4>1, <4>2, <4>3
    <3>2. \A n : n \in S \cup {Len(bypasses) + k} => n \in T
      BY <1>3, <2>1
    <3> QED BY <3>1, <3>2
  <2>4. Len(bypasses) + k \notin S
    <3>1. Len(bypasses) \in Nat /\ k \in Nat /\ k > 0
      OBVIOUS
    <3> QED BY <3>1
  <2> HIDE DEF S, T
  <2>5. Cardinality(T) = Cardinality(S) + 1
    BY <1>1, <2>3, <2>4, FS_AddElement
  <2> QED BY <1>1, <1>2, <1>4, <2>5
<1>5. CASE ~In(x, t)
  <2>1. T = S
    <3>1. \A n : n \in T => n \in S
      BY <1>3, <1>5 DEF In
    <3>2. \A n : n \in S => n \in T
      BY <1>3
    <3> QED BY <3>1, <3>2
  <2> HIDE DEF S, T
  <2> QED BY <1>1, <1>2, <1>5, <2>1
<1> QED BY <1>4, <1>5

\* An outage that is new is counted once more.
LEMMA CausesRecorded ==
    ASSUME IsFiniteSet(outages), NEW m, m \notin outages, outages' = outages \cup {m}, NEW x
    PROVE  /\ IsFiniteSet(outages')
           /\ Causes(x) \in Nat
           /\ Causes(x)' = Causes(x) + IF About(x, m) THEN 1 ELSE 0
<1> DEFINE S == {o \in outages : About(x, o)}
           T == {o \in outages' : About(x, o)}
<1>1. IsFiniteSet(outages')
  BY FS_AddElement
<1>2. IsFiniteSet(S) /\ Cardinality(S) \in Nat
  <2>1. S \subseteq outages
    OBVIOUS
  <2> QED BY <2>1, FS_Subset, FS_CardinalityType
<1>3. Causes(x) = Cardinality(S) /\ Causes(x)' = Cardinality(T)
  BY DEF Causes
<1>4. CASE About(x, m)
  <2>1. T = S \cup {m} /\ m \notin S
    BY <1>4
  <2> HIDE DEF S, T
  <2>2. Cardinality(T) = Cardinality(S) + 1
    BY <1>2, <2>1, FS_AddElement
  <2> QED BY <1>1, <1>2, <1>3, <1>4, <2>2
<1>5. CASE ~About(x, m)
  <2>1. T = S
    BY <1>5
  <2> HIDE DEF S, T
  <2> QED BY <1>1, <1>2, <1>3, <1>5, <2>1
<1> QED BY <1>4, <1>5

\* Each bypass has an outage of its own.
LEMMA OnceStep ==
    ReadingInv /\ OrderlyInv /\ CrashInv /\ OnceInv /\ [Next]_vars => OnceInv'
<1> SUFFICES ASSUME ReadingInv, OrderlyInv, CrashInv, OnceInv, [Next]_vars, mishaps' = {}
             PROVE  /\ IsFiniteSet(outages')
                    /\ \A o \in outages' : o.boot \in Booted' /\ o.act <= acts'
                    /\ pc' = "off" /\ boot' # 0 =>
                          \A o \in outages' : o.boot = boot' => how' # "boot" /\ o.act < acts'
                    /\ \A x \in BypassType : Times(x)' + (IF Due(x, pc)' THEN 1 ELSE 0) <= Causes(x)'
  BY DEF OnceInv
<1> USE DEF computer, tables, program, history
<1>1. mishaps = {} /\ Orderly /\ Orderly'
  BY MishapsGrow DEF Orderly
<1>2. Ordered
  BY <1>1 DEF Ordered, OrderlyInv
<1>3. /\ IsFiniteSet(outages)
      /\ \A o \in outages : o.boot \in Booted /\ o.act <= acts
      /\ pc = "off" /\ boot # 0 => \A o \in outages : o.boot = boot => how # "boot" /\ o.act < acts
      /\ \A x \in BypassType : Times(x) + (IF Due(x, pc) THEN 1 ELSE 0) <= Causes(x)
  BY <1>1 DEF OnceInv
<1>4. /\ bypasses \in Seq(BypassType) /\ acts \in Nat /\ (pc # "off" => boot # 0)
      /\ \A o \in outages : o.act \in Nat
  BY DEF ReadingInv, TypeInv, TypeOK
<1>5. Booted \subseteq Booted'
  BY HaltedGrows
<1>6. \A x : Causes(x) \in Nat
  <2> TAKE x
  <2>1. {o \in outages : About(x, o)} \subseteq outages
    OBVIOUS
  <2> QED BY <1>3, <2>1, FS_Subset, FS_CardinalityType DEF Causes
<1>7. CASE outages' = outages /\ \E t \in Seq(BypassType) : Logs(t)
  <2>1. PICK t \in Seq(BypassType) : Logs(t)
    BY <1>7
  <2>2. ASSUME NEW x \in BypassType
        PROVE  Times(x)' + (IF Due(x, pc)' THEN 1 ELSE 0) <= Causes(x)'
    <3>1. Times(x) \in Nat /\ Times(x)' = Times(x) + IF In(x, t) THEN 1 ELSE 0
      BY <1>4, <2>1, TimesLogged
    <3>2. Causes(x)' = Causes(x) /\ Causes(x) \in Nat
      BY <1>6, <1>7 DEF Causes
    <3>3. /\ Due(x, pc)' => Due(x, pc)
          /\ In(x, t) => Due(x, pc) /\ ~Due(x, pc)'
      BY <1>1, <2>1 DEF Logs
    <3>4. Times(x) + (IF Due(x, pc) THEN 1 ELSE 0) <= Causes(x)
      BY <1>3
    <3>5. CASE In(x, t)
      <4>1. Times(x)' = Times(x) + 1 /\ Due(x, pc) /\ ~Due(x, pc)'
        BY <3>1, <3>3, <3>5
      <4> QED BY <3>1, <3>2, <3>4, <4>1
    <3>6. CASE ~In(x, t)
      <4>1. Times(x)' = Times(x)
        BY <3>1, <3>6
      <4> QED BY <3>1, <3>2, <3>3, <3>4, <4>1
    <3> QED BY <3>5, <3>6
  <2>3. acts' \in Nat /\ acts <= acts'
    <3>1. acts' = acts \/ acts' = acts + 1
      <4>1. CASE Tick \/ Boot \/ Halt \/ Crash \/ Stop \/ Kill \/ Start \/ Reset \/ UNCHANGED vars
        BY <4>1 DEF Tick, Boot, Halt, Crash, Stop, Kill, Start, Reset, Act, vars
      <4>2. CASE ProgramStep
        BY <4>2, StartingStep
      <4> QED BY <4>1, <4>2 DEF Next
    <3> QED BY <1>4, <3>1
  <2>4. \A o \in outages' : o.boot \in Booted' /\ o.act <= acts'
    BY <1>3, <1>4, <1>5, <1>7, <2>3
  <2>5. ASSUME pc' = "off", boot' # 0, NEW o \in outages, o.boot = boot'
        PROVE  how' # "boot" /\ o.act < acts'
    <3>1. CASE Boot
      <4>1. boot = 0 /\ boot' = now /\ now \in Nat
        BY <3>1 DEF Boot, ReadingInv, TypeInv, TypeOK
      <4>2. now \in DOMAIN halted
        BY <1>3, <2>5, <4>1 DEF Booted
      <4>3. now < now
        BY <3>1, <4>2, Earlier DEF ReadingInv
      <4> QED BY <4>1, <4>3
    <3>2. CASE Stop \/ Kill
      <4>1. acts' = acts + 1 /\ how' \in {"stopped", "killed"}
        BY <3>2 DEF Stop, Kill, Act
      <4> QED BY <1>3, <1>4, <4>1
    <3>3. CASE Tick \/ UNCHANGED vars
      <4>1. UNCHANGED <<pc, boot, how, acts>>
        BY <3>3 DEF Tick, vars
      <4> QED BY <1>3, <2>5, <4>1
    <3>4. CASE Halt \/ Crash \/ Start \/ Reset
      BY <2>5, <3>4 DEF Halt, Crash, Start, Reset, NewDatabase
    <3>5. CASE ProgramStep
      <4>1. pc' # "off"
        <5>1. CASE SelectSessions \/ ProcessRow \/ DeleteRow \/ LogOmitted
          BY <5>1 DEF SelectSessions, ProcessRow, DeleteRow, LogOmitted
        <5>2. CASE SelectFails \/ DeleteFails \/ StartFails
          BY <1>1, <1>2, <5>2, FailsIs
        <5>3. CASE StartUnknown \/ StartFirst \/ StartUnset \/ StartAgain \/ Reopen
          BY <5>3 DEF StartUnknown, StartFirst, StartUnset, StartAgain, Reopen
        <5> QED BY <3>5, <5>1, <5>2, <5>3 DEF ProgramStep
      <4> QED BY <2>5, <4>1
    <3> QED BY <3>1, <3>2, <3>3, <3>4, <3>5 DEF Next
  <2> QED BY <1>3, <1>7, <2>2, <2>4, <2>5
<1>8. ASSUME NEW kind, Asks(Outage(boot, kind, now - since)), boot # 0, pc = "off", acts' = acts,
             pc' # "off" \/ boot' = 0
      PROVE  /\ IsFiniteSet(outages')
             /\ \A o \in outages' : o.boot \in Booted' /\ o.act <= acts'
             /\ \A x \in BypassType : Times(x)' + (IF Due(x, pc)' THEN 1 ELSE 0) <= Causes(x)'
  <2>1. PICK o, m : o = Outage(boot, kind, now - since) /\ m = Remembered(o)
    OBVIOUS
  <2>2. /\ outages' = IF Guilty(o) THEN outages \cup {m} ELSE outages
        /\ \A x : About(x, m) <=> About(x, o)
    BY <1>8, <2>1, RecordIs, Recorded DEF Asks
  <2>3. /\ bypasses' = bypasses
        /\ \A x \in BypassType :
              /\ Due(x, pc)' => Due(x, pc) \/ (Guilty(o) /\ About(x, o))
              /\ Guilty(o) /\ About(x, o) => ~Due(x, pc)
    BY <1>8, <2>1 DEF Asks
  <2>4. m.boot = boot /\ m.act = acts
    BY <2>1 DEF Remembered, Outage
  <2>5. m \notin outages
    BY <1>3, <1>4, <1>8, <2>4
  <2>6. IsFiniteSet(outages')
    BY <1>3, <2>2, FS_AddElement
  <2>7. \A r \in outages' : r.boot \in Booted' /\ r.act <= acts'
    <3>1. boot \in Booted
      BY <1>8 DEF Booted
    <3> QED BY <1>3, <1>4, <1>5, <1>8, <2>2, <2>4, <3>1
  <2>8. ASSUME NEW x \in BypassType
        PROVE  Times(x)' + (IF Due(x, pc)' THEN 1 ELSE 0) <= Causes(x)'
    <3>1. Times(x)' = Times(x) /\ Times(x) \in Nat
      <4>1. Times(x)' = Times(x)
        BY <2>3 DEF Times
      <4>2. IsFiniteSet(1..Len(bypasses)) /\ {n \in 1..Len(bypasses) : bypasses[n] = x} \subseteq 1..Len(bypasses)
        BY <1>4, FS_Interval
      <4> QED BY <4>1, <4>2, FS_Subset, FS_CardinalityType DEF Times
    <3>2. Times(x) + (IF Due(x, pc) THEN 1 ELSE 0) <= Causes(x) /\ Causes(x) \in Nat
      BY <1>3, <1>6
    <3>3. CASE Guilty(o)
      <4>1. Causes(x)' = Causes(x) + IF About(x, m) THEN 1 ELSE 0
        BY <1>3, <2>2, <2>5, <3>3, CausesRecorded
      <4>2. CASE About(x, m)
        <5>1. ~Due(x, pc) /\ Causes(x)' = Causes(x) + 1
          BY <2>2, <2>3, <3>3, <4>1, <4>2
        <5> QED BY <3>1, <3>2, <5>1
      <4>3. CASE ~About(x, m)
        <5>1. (Due(x, pc)' => Due(x, pc)) /\ Causes(x)' = Causes(x)
          BY <2>2, <2>3, <3>2, <4>1, <4>3
        <5> QED BY <3>1, <3>2, <5>1
      <4> QED BY <4>2, <4>3
    <3>4. CASE ~Guilty(o)
      <4>1. (Due(x, pc)' => Due(x, pc)) /\ Causes(x)' = Causes(x)
        BY <2>2, <2>3, <3>4 DEF Causes
      <4> QED BY <3>1, <3>2, <4>1
    <3> QED BY <3>3, <3>4
  <2> QED BY <2>6, <2>7, <2>8
<1>9. CASE Start /\ Asks(Outage(boot, AtStart[how], now - since))
  <2>1. boot # 0 /\ pc = "off" /\ acts' = acts /\ pc' # "off"
    BY <1>9 DEF Start, NewDatabase
  <2> QED BY <1>8, <1>9, <2>1
<1>10. CASE Halt /\ pc = "off" /\ Asks(Outage(boot, AtHalt[how], now - since))
  <2>1. boot # 0 /\ pc = "off" /\ acts' = acts /\ boot' = 0
    BY <1>10 DEF Halt
  <2> QED BY <1>8, <1>10, <2>1
<1>11. ~Reset /\ ~Crash /\ ~SelectFails /\ ~DeleteFails /\ ~StartFails
  BY DEF Reset, Crash, SelectFails, DeleteFails, StartFails, Fails, Mishap
<1> QED BY <1>1, <1>2, <1>7, <1>9, <1>10, <1>11, StepIs

\* If nothing fails, each outage is reported once: no two bypasses are alike, unless
\* as many outages were.
THEOREM OnceCorrect == Spec => []AccusedOnce
<1>1. Init => OnceInv
  <2> SUFFICES ASSUME Init PROVE OnceInv
    OBVIOUS
  <2>1. bypasses = <<>> /\ outages = {} /\ sessions = {} /\ pc = "off"
    BY DEF Init
  <2>2. IsFiniteSet(outages) /\ Cardinality({}) = 0
    BY <2>1, FS_EmptySet
  <2>3. ASSUME NEW x \in BypassType
        PROVE  Times(x) = 0 /\ Causes(x) = 0 /\ ~Due(x, pc)
    <3>1. {n \in 1..Len(bypasses) : bypasses[n] = x} = {} /\ {o \in outages : About(x, o)} = {}
      BY <2>1
    <3>2. ~Due(x, pc)
      BY <2>1 DEF Due, LateDue, KilledDue, EarlyDue, RestartDue, OmittedDue, Logged, Phases
    <3> QED BY <2>2, <3>1, <3>2 DEF Times, Causes
  <2> QED BY <2>1, <2>2, <2>3 DEF OnceInv
<1>2. ReadingInv /\ OnceInv => AccusedOnce
  <2> SUFFICES ASSUME ReadingInv, OnceInv, mishaps = {}, NEW n \in 1..Len(bypasses)
               PROVE  Cardinality({m \in 1..Len(bypasses) : bypasses[m] = bypasses[n]})
                      <= Cardinality({o \in outages : About(bypasses[n], o)})
    BY DEF AccusedOnce
  <2>1. bypasses[n] \in BypassType
    BY DEF ReadingInv, TypeInv, TypeOK
  <2>2. PICK x \in BypassType : x = bypasses[n]
    BY <2>1
  <2>3. Times(x) + (IF Due(x, pc) THEN 1 ELSE 0) <= Causes(x) /\ IsFiniteSet(outages)
    BY DEF OnceInv
  <2>4. Times(x) \in Nat
    <3>1. IsFiniteSet(1..Len(bypasses)) /\ {m \in 1..Len(bypasses) : bypasses[m] = x} \subseteq 1..Len(bypasses)
      BY FS_Interval DEF ReadingInv, TypeInv, TypeOK
    <3> QED BY <3>1, FS_Subset, FS_CardinalityType DEF Times
  <2>5. Causes(x) \in Nat
    <3>1. {o \in outages : About(x, o)} \subseteq outages
      OBVIOUS
    <3> QED BY <2>3, <3>1, FS_Subset, FS_CardinalityType DEF Causes
  <2>6. Times(x) <= Causes(x)
    BY <2>3, <2>4, <2>5
  <2> QED BY <2>2, <2>6 DEF Times, Causes
<1>3. Init /\ [][Next]_vars => [](ReadingInv /\ OrderlyInv /\ CrashInv)
  BY FoundCorrect DEF Spec
<1>4. Init /\ [][Next]_vars => []OnceInv
  BY <1>1, <1>3, OnceStep, PTL
<1> QED BY <1>2, <1>3, <1>4, PTL DEF Spec

=============================================================================
