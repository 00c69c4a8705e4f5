------------------------------ MODULE Sessions ------------------------------
(***************************************************************************)
(* How the program finds out that it was bypassed: the table sessions has  *)
(* a row for each boot of the computer in which the program ran, with the  *)
(* times of its first start and of its last stop; the constructor of       *)
(* Database compares the rows of earlier boots with wtmp (module           *)
(* BootHistory), and logSessionStart the row of this boot with the present *)
(* time.  Every difference that is too large becomes a bypass, which the   *)
(* next report accuses the user of.                                        *)
(*                                                                         *)
(* The unit of the clock is larger than the five seconds of getBootTime,   *)
(* and the program gets through its start within one unit, unless          *)
(* Situations says otherwise:                                              *)
(*    "crash"  - the computer crashes, that is ends without a halt record; *)
(*    "slow"   - time passes while the program starts (a locked database,  *)
(*               a report that cannot be sent);                            *)
(*    "reset"  - the program is reset by SIGUSR1;                          *)
(*    "locked" - a statement fails, but not on all the attempts;           *)
(*    "lockout" - it fails on the last one, too;                           *)
(*    "unset"  - a variable that was never set holds the time of the boot; *)
(*    "user"   - the user stops or kills the program while it runs.        *)
(***************************************************************************)
EXTENDS BootHistory, FiniteSets

CONSTANTS StartGap,   \* ALLOWED_GAP of processPreviousSessions
          RestartGap, \* ALLOWED_GAP of logSessionStart
          Finished,   \* FINISHED, the index of the last attempt
          Situations, \* see above
          MaxTime,    \* bound: the last value of the clock
          MaxActs,    \* bound: how often the user stops, kills or resets
          MaxMishaps  \* bound: how many kinds of mishaps occur in a behaviour

ASSUME SessionsAssumption ==
    /\ StartGap \in Nat
    /\ RestartGap \in Nat
    /\ Finished \in Nat
    /\ Situations \subseteq {"crash", "slow", "reset", "locked", "lockout", "unset", "user"}
    /\ MaxTime \in Nat
    /\ MaxActs \in Nat
    /\ MaxMishaps \in Nat

VARIABLES
    now,      \* the clock; 0 is before the first boot
    boot,     \* the time the computer booted, 0 while it is down
    wtmp,     \* the file
    sessions, \* the table, of rows [boot, start, stop]; stop 0 is null
    bypasses, \* the table, of [boot, kind, gap] in the order of their logging
    \* the program
    pc,
    boots,    \* BootHistory::_boots
    rows,     \* sess, the rows still to be processed
    seen,     \* logged, the boot times of all the rows selected
    attempt,  \* i, the index of the attempt
    session,  \* the boot time in the row _sessionRowId, 0 for none
    \* what really happened (history variables)
    since,    \* since when the program is down
    how,      \* and why: "boot", "stopped" or "killed"
    outages,  \* what the user is answerable for, as [boot, kind, gap, act]
    known,    \* the sessions of the computer that ever had a row in sessions
    halted,   \* the real end of each session of the computer, 0 for a crash
    acts,     \* how often the user stopped, killed or reset the program
    mishaps   \* the Situations that occurred so far, but for "user"

computer == <<now, boot, wtmp>>
tables   == <<sessions, bypasses>>
program  == <<pc, boots, rows, seen, attempt, session>>
history  == <<since, how, outages, known, halted, acts, mishaps>>
vars     == <<computer, tables, program, history>>

\* What the program takes for a bypass: it started too late after the boot, was
\* killed, stopped too early before the halt, was down too long between two
\* starts, or was not started at all.
Kinds == {"late", "killed", "early", "restart", "omitted"}

Outage(b, kind, gap) == [boot |-> b, kind |-> kind, gap |-> gap]

\* The user is answerable for an outage: the program was killed, or down for
\* longer than is allowed.
Guilty(o) == o.kind = "killed" \/ o.gap > IF o.kind = "restart" THEN RestartGap ELSE StartGap

\* An outage is known by the act it followed, as two may be alike.
Record(o) ==
    outages' = outages \cup {[boot |-> x.boot, kind |-> x.kind, gap |-> x.gap, act |-> acts] :
                             x \in {x \in {o} : Guilty(x)}}

Init ==
    /\ now = 0
    /\ boot = 0
    /\ wtmp = <<>>
    /\ sessions = {}
    /\ bypasses = <<>>
    /\ pc = "off"
    /\ boots = <<>>
    /\ rows = <<>>
    /\ seen = {}
    /\ attempt = 0
    /\ session = 0
    /\ since = 0
    /\ how = "boot"
    /\ outages = {}
    /\ known = {}
    /\ halted = <<>>
    /\ acts = 0
    /\ mishaps = {}

-----------------------------------------------------------------------------
(***************************************************************************)
(* The computer and the user.                                              *)
(***************************************************************************)
Mishap(s) ==
    /\ s \in Situations
    /\ mishaps' = mishaps \cup {s}
    /\ Cardinality(mishaps') <= MaxMishaps

Tick ==
    /\ now < MaxTime
    /\ IF pc \in {"off", "running"} THEN UNCHANGED mishaps ELSE Mishap("slow")
    /\ now' = now + 1
    /\ UNCHANGED <<boot, wtmp, tables, program, since, how, outages, known, halted, acts>>

\* A boot takes longer than the five seconds of getBootTime.
Boot ==
    /\ boot = 0
    /\ \A n \in 1..Len(wtmp) : wtmp[n].time + Fresh <= now
    /\ now > 0
    /\ boot' = now
    /\ wtmp' = Append(wtmp, [kind |-> "boot", time |-> now])
    /\ since' = now
    /\ how' = "boot"
    /\ UNCHANGED <<now, tables, program, outages, known, halted, acts, mishaps>>

\* What the time since the program went down amounts to when it starts again,
\* and when the computer halts.
AtStart == [boot |-> "late", stopped |-> "restart", killed |-> "killed"]
AtHalt  == [boot |-> "omitted", stopped |-> "early", killed |-> "killed"]

\* MainApplication::signalHandler on SIGTERM: logSessionStop, then the end.
LogSessionStop ==
    sessions' = {IF row.boot = session THEN [row EXCEPT !.stop = now] ELSE row : row \in sessions}

Terminate ==
    /\ pc' = "off"
    /\ session' = 0
    /\ UNCHANGED <<boots, rows, seen, attempt>>

\* The session of the computer is over, at that time.
Ends(time) == halted' = [b \in DOMAIN halted \cup {boot} |-> IF b = boot THEN time ELSE halted[b]]

\* The computer halts: the program, if it runs, is sent a SIGTERM.
Halt ==
    /\ boot # 0
    /\ boot' = 0
    /\ wtmp' = Append(wtmp, [kind |-> "down", time |-> now])
    /\ Ends(now)
    /\ \/ /\ pc = "off"
          /\ Record(Outage(boot, AtHalt[how], now - since))
          /\ UNCHANGED <<sessions, program>>
       \/ /\ pc = "running"
          /\ LogSessionStop
          /\ Terminate
          /\ UNCHANGED outages
    /\ UNCHANGED <<now, bypasses, since, how, known, acts, mishaps>>

Crash ==
    /\ Mishap("crash")
    /\ boot # 0
    /\ boot' = 0
    /\ Ends(0)
    /\ Terminate
    /\ UNCHANGED <<now, wtmp, tables, since, how, outages, known, acts>>

\* The user stops the program, or kills it.
Act ==
    /\ acts < MaxActs
    /\ acts' = acts + 1

Stop ==
    /\ "user" \in Situations
    /\ pc = "running"
    /\ Act
    /\ LogSessionStop
    /\ Terminate
    /\ since' = now
    /\ how' = "stopped"
    /\ UNCHANGED <<computer, bypasses, outages, known, halted, mishaps>>

Kill ==
    /\ "user" \in Situations
    /\ pc = "running"
    /\ Act
    /\ Terminate
    /\ since' = now
    /\ how' = "killed"
    /\ UNCHANGED <<computer, tables, outages, known, halted, mishaps>>

-----------------------------------------------------------------------------
(***************************************************************************)
(* The start of the program: the constructor of Database, and later        *)
(* SnifferSubsystem::isOnlyInstance, which calls logSessionStart.          *)
(***************************************************************************)
NewDatabase ==
    /\ boots' = ReadFile(wtmp, now)
    /\ attempt' = 0
    /\ pc' = "select"
    /\ UNCHANGED <<rows, seen, session>>

Start ==
    /\ boot # 0
    /\ pc = "off"
    /\ NewDatabase
    /\ Record(Outage(boot, AtStart[how], now - since))
    /\ UNCHANGED <<computer, tables, since, how, known, halted, acts, mishaps>>

\* SIGUSR1: uninitialize and initialize, without logSessionStop.
Reset ==
    /\ Mishap("reset")
    /\ pc = "running"
    /\ Act
    /\ NewDatabase
    /\ UNCHANGED <<computer, tables, since, how, outages, known, halted>>

\* A slip: the index is not counted.
FailsUncounted(label, onward) ==
    /\ Mishap("locked")
    /\ pc' = label
    /\ UNCHANGED <<computer, tables, boots, rows, seen, attempt, session, since, how, outages,
                   known, halted, acts>>

\* A statement of the loop at label throws: the next attempt, or after the last
\* one on to what follows the loop.
Fails(label, onward) ==
    /\ \/ /\ Mishap("locked")
          /\ attempt < Finished
          /\ attempt' = attempt + 1
          /\ pc' = label
       \/ /\ Mishap("lockout")
          /\ attempt = Finished
          /\ attempt' = 0
          /\ pc' = onward
    /\ UNCHANGED <<computer, tables, boots, rows, seen, session, since, how, outages, known,
                   halted, acts>>

\* Database::processPreviousSessions
\* The order of the rowids and that of a map is the one of the boots.
ByBoot(set) ==
    {s \in SetToSeqs(set) : \A m, n \in DOMAIN s : m < n => s[m].boot < s[n].boot}

SelectSessions ==
    /\ pc = "select"
    /\ rows' \in ByBoot(sessions)
    /\ seen' = {row.boot : row \in sessions}
    /\ pc' = "row"
    /\ UNCHANGED <<computer, tables, boots, attempt, session, history>>

\* Slips: a subtraction the wrong way round, < for <= in the test for null.
BypassesOfReversed(row, halt) ==
    LET late  == row.start - row.boot > StartGap
        early == halt - row.stop > StartGap
    IN  (IF late THEN <<Outage(row.boot, "late", row.boot - row.start)>> ELSE <<>>)
        \o (IF early THEN <<Outage(row.boot, "early", halt - row.stop)>> ELSE <<>>)

BypassesOfNegative(row, halt) ==
    LET late  == row.start - row.boot > StartGap
        early == halt - row.stop > StartGap
    IN  (IF late THEN <<Outage(row.boot, "late", row.start - row.boot)>> ELSE <<>>)
        \o (IF early THEN <<Outage(row.boot, "early", halt - row.stop)>> ELSE <<>>)

\* The bypasses that the row of a session shows, which halted at that time.
BypassesOf(row, halt) ==
    LET late  == row.start - row.boot > StartGap
        early == halt - row.stop > StartGap
    IN  (IF late THEN <<Outage(row.boot, "late", row.start - row.boot)>> ELSE <<>>)
        \o (CASE row.stop = 0 -> <<Outage(row.boot, "killed", 0)>>
              [] row.stop # 0 /\ early -> <<Outage(row.boot, "early", halt - row.stop)>>
              [] OTHER -> <<>>)

\* The bypasses of a row are logged, each in a loop of its own, before the row
\* is deleted.  A session that crashed is deleted without a word.
ProcessRow == LET halt == HaltTime(boots, rows[1].boot, now) IN
    /\ pc = "row"
    /\ rows # <<>>
    /\ \/ /\ halt > 0
          /\ bypasses' = bypasses \o BypassesOf(rows[1], halt)
          /\ pc' = "delete"
          /\ UNCHANGED rows
       \/ /\ halt = 0
          /\ rows[1].boot # BootTime(boots, now)
          /\ pc' = "delete"
          /\ UNCHANGED <<bypasses, rows>>
       \/ /\ halt = 0
          /\ rows[1].boot = BootTime(boots, now)
          /\ rows' = Tail(rows)
          /\ UNCHANGED <<bypasses, pc>>
    /\ UNCHANGED <<computer, sessions, boots, seen, attempt, session, history>>

\* A slip: the row stays.
DeleteNoRow ==
    /\ pc = "delete"
    /\ rows' = Tail(rows)
    /\ pc' = "row"
    /\ UNCHANGED <<computer, tables, boots, seen, attempt, session, history>>

DeleteRow ==
    /\ pc = "delete"
    /\ sessions' = sessions \ {rows[1]}
    /\ rows' = Tail(rows)
    /\ pc' = "row"
    /\ UNCHANGED <<computer, bypasses, boots, seen, attempt, session, history>>

SelectFails == pc = "select" /\ Fails("select", "start")

DeleteFails == pc = "delete" /\ Fails("select", "start")

\* A slip: the length of the gap is not looked at.
LogAllOmitted ==
    /\ pc = "row"
    /\ rows = <<>>
    /\ \E logged \in ByBoot({Outage(b, "omitted", boots[b] - b) :
                             b \in OmittedSessions(boots, seen, now)}) :
          bypasses' = bypasses \o logged
    /\ attempt' = 0
    /\ pc' = "start"
    /\ UNCHANGED <<computer, sessions, boots, rows, seen, session, history>>

LogOmitted ==
    LET omitted == {b \in OmittedSessions(boots, seen, now) : boots[b] - b > StartGap} IN
    /\ pc = "row"
    /\ rows = <<>>
    /\ \E logged \in ByBoot({Outage(b, "omitted", boots[b] - b) : b \in omitted}) :
          bypasses' = bypasses \o logged
    /\ attempt' = 0
    /\ pc' = "start"
    /\ UNCHANGED <<computer, sessions, boots, rows, seen, session, history>>

-----------------------------------------------------------------------------
\* Database::logSessionStart.  Without a boot time nothing is logged.
StartUnknown ==
    /\ pc = "start"
    /\ BootTime(boots, now) = 0
    /\ session' = 0
    /\ pc' = "running"
    /\ UNCHANGED <<computer, tables, boots, rows, seen, attempt, history>>

\* The first instance since the boot.
StartFirst == LET b == BootTime(boots, now) IN
    /\ pc = "start"
    /\ b # 0
    /\ \A row \in sessions : row.boot # b
    /\ sessions' = sessions \cup {[boot |-> b, start |-> now, stop |-> 0]}
    /\ session' = b
    /\ known' = known \cup {b}
    /\ pc' = "running"
    /\ UNCHANGED <<computer, bypasses, boots, rows, seen, attempt, since, how, outages, halted,
                   acts, mishaps>>

\* A later one: a bypass if the previous one was killed or ended too long ago,
\* and then the stop is set to null again.
StartAgain == LET b == BootTime(boots, now) IN
    /\ pc = "start"
    /\ b # 0
    /\ \E row \in sessions :
          /\ row.boot = b
          /\ bypasses' = CASE row.stop = 0 -> Append(bypasses, Outage(b, "killed", 0))
                           [] row.stop # 0 /\ now - row.stop > RestartGap ->
                                Append(bypasses, Outage(b, "restart", now - row.stop))
                           [] OTHER -> bypasses
    /\ pc' = "reopen"
    /\ UNCHANGED <<computer, sessions, boots, rows, seen, attempt, session, history>>

\* No row of this boot is found, and prevBoot, which is then read without having
\* been set, holds the time of the boot all the same.  prevStop and prevRowid are
\* not set either: any bypass may be logged or none (bound: a gap of any length is
\* that of MaxTime), and the row of any session may be reopened or none.
StartUnset == LET b == BootTime(boots, now) IN
    /\ Mishap("unset")
    /\ pc = "start"
    /\ b # 0
    /\ \A row \in sessions : row.boot # b
    /\ \/ UNCHANGED bypasses
       \/ bypasses' = Append(bypasses, Outage(b, "killed", 0))
       \/ bypasses' = Append(bypasses, Outage(b, "restart", MaxTime))
    /\ \E any \in {0} \cup {row.boot : row \in sessions} :
          /\ sessions' = {IF row.boot = any THEN [row EXCEPT !.stop = 0] ELSE row : row \in sessions}
          /\ session' = any
    /\ pc' = "running"
    /\ UNCHANGED <<computer, boots, rows, seen, attempt, since, how, outages, known, halted, acts>>

\* A slip: the stop of the previous instance stays in the row.
ReopenNot ==
    /\ pc = "reopen"
    /\ session' = BootTime(boots, now)
    /\ pc' = "running"
    /\ UNCHANGED <<computer, tables, boots, rows, seen, attempt, history>>

Reopen == LET b == BootTime(boots, now) IN
    /\ pc = "reopen"
    /\ sessions' = {IF row.boot = b THEN [row EXCEPT !.stop = 0] ELSE row : row \in sessions}
    /\ session' = b
    /\ pc' = "running"
    /\ UNCHANGED <<computer, bypasses, boots, rows, seen, attempt, history>>

StartFails ==
    /\ pc \in {"start", "reopen"}
    /\ Fails("start", "running")

-----------------------------------------------------------------------------
ProgramStep ==
    \/ SelectSessions
    \/ ProcessRow
    \/ DeleteRow
    \/ SelectFails
    \/ DeleteFails
    \/ LogOmitted
    \/ StartUnknown
    \/ StartFirst
    \/ StartUnset
    \/ StartAgain
    \/ Reopen
    \/ StartFails

Next ==
    \/ Tick
    \/ Boot
    \/ Halt
    \/ Crash
    \/ Stop
    \/ Kill
    \/ Start
    \/ Reset
    \/ ProgramStep

Spec == Init /\ [][Next]_vars

\* The operating system runs the program once it was started.
FairSpec == Spec /\ WF_vars(ProgramStep)

-----------------------------------------------------------------------------
(***************************************************************************)
(* Properties.                                                             *)
(***************************************************************************)
Labels == {"off", "select", "row", "delete", "start", "reopen", "running"}

Row == [boot : 1..MaxTime, start : 1..MaxTime, stop : 0..MaxTime]

BypassType == [boot : 1..MaxTime, kind : Kinds, gap : 0..MaxTime]

\* Every variable stays in its type.
TypeOK ==
    /\ now \in 0..MaxTime
    /\ boot \in 0..MaxTime
    /\ wtmp \in Seq(WtmpRecord)
    /\ sessions \subseteq Row
    /\ bypasses \in Seq(BypassType)
    /\ pc \in Labels
    /\ \A b \in DOMAIN boots : b \in 1..MaxTime /\ boots[b] \in 1..MaxTime
    /\ rows \in Seq(Row)
    /\ seen \subseteq 1..MaxTime
    /\ attempt \in 0..Finished
    /\ session \in 0..MaxTime
    /\ since \in 0..MaxTime
    /\ how \in {"boot", "stopped", "killed"}
    /\ outages \subseteq [boot : 1..MaxTime, kind : Kinds, gap : 0..MaxTime, act : 0..MaxActs]
    /\ known \subseteq 1..MaxTime
    /\ \A b \in DOMAIN halted : b \in 1..MaxTime /\ halted[b] \in 0..MaxTime
    /\ acts \in 0..MaxActs
    /\ mishaps \subseteq Situations

\* A bypass in the table is about this outage.  The message on a program that
\* was killed says nothing of the time.
About(bypass, o) ==
    /\ bypass.boot = o.boot
    /\ bypass.kind = o.kind
    /\ o.kind = "killed" \/ bypass.gap = o.gap

\* wtmp is read backwards and has no record of a crash; still, right after the
\* constructor the halt times are those of the sessions that halted, and the
\* session that runs is found, at once after the boot and later.
HistoryIsTrue ==
    pc = "select" /\ "slow" \notin mishaps =>
        /\ BootTime(boots, now) = boot
        /\ \A b \in DOMAIN halted : HaltTime(boots, b, now) = halted[b]

\* A user who gave no cause is not accused of anything.  "This info is used to
\* process if Net Responsibility has been bypassed by shutting it down or
\* omitting it at boot time" (Database.h:139-141), and of a session that crashed
\* "The computer halted improperly, no need to report that" (Database.cpp:470).
InnocentNotAccused == outages = {} => bypasses = <<>>

\* Nobody is accused of a bypass unless the program was killed or was down too
\* long while the computer was up, and then of just that, even if the database
\* is locked meanwhile.
NoFalseAccusation ==
    mishaps \subseteq {"locked"} => \A n \in 1..Len(bypasses) : \E o \in outages : About(bypasses[n], o)

Sniffing == pc = "running"

\* "Process the previous sessions, and log any attempts to bypass NR"
\* (Database.h:172): once the program runs, every outage of the earlier sessions
\* of the computer and every restart in this one was reported, but for sessions
\* that crashed and those before the first one that was logged.  After a crash a
\* session in which the program was omitted may stay unknown: the last row that is
\* older is deleted before the omitted sessions are looked for.
EveryOutageReported ==
    Sniffing /\ mishaps \subseteq {"crash", "reset", "locked"} => \A o \in outages :
        /\ IF o.boot = boot THEN o.kind \in {"killed", "restart"} ELSE halted[o.boot] # 0
        /\ o.kind = "omitted" => "crash" \notin mishaps /\ \E b \in known : b < o.boot
        => \E n \in 1..Len(bypasses) : About(bypasses[n], o)

\* And of each outage once: no two bypasses are alike, unless as many outages
\* were.  The partners would take a repetition for another attempt.
AccusedOnce ==
    mishaps = {} => \A n \in 1..Len(bypasses) :
        Cardinality({m \in 1..Len(bypasses) : bypasses[m] = bypasses[n]})
        <= Cardinality({o \in outages : About(bypasses[n], o)})

\* "Log that this current instance started" (Database.h:139): while the program
\* runs, the table has one row, open and of this boot.  Every other row would
\* make the next start report what never happened.
SessionIsOpen ==
    Sniffing /\ mishaps \subseteq {"crash", "reset", "locked"} => \E row \in sessions :
        /\ sessions = {row}
        /\ row.boot = boot
        /\ row.stop = 0
        /\ session = boot

\* The start of the program ends, whatever is locked.
StartEnds == pc = "select" ~> pc \in {"running", "off"}

=============================================================================
