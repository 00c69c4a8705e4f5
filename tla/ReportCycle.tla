---------------------------- MODULE ReportCycle ----------------------------
(***************************************************************************)
(* The life of a report: ReportSubsystem::initialize decides whether one   *)
(* is due, ReportBase records its start, Report::generate reads the        *)
(* tables, ReportBase::send mails it, and logFinish rotates the tables and *)
(* marks the report as completed; all this against one SQLite file that    *)
(* the sniffer fills and that other processes may use at the same time.    *)
(*                                                                         *)
(* A step is one SQLite statement or one exchange with one of two servers. *)
(* The sniffer is the single thread of SnifferLog, reduced to the order of *)
(* its three inserts; one row of matches stands for all the keywords of a  *)
(* warning.  One clock serves for the seconds that rotateLog compares and  *)
(* the days that isReportTime compares.                                    *)
(*                                                                         *)
(* Situations names what the model lets happen besides a single process    *)
(* that first reports and then sniffs:                                     *)
(*    "concurrent" - another process logs while a report is under way;     *)
(*    "lockout"    - a lock outlasts all the attempts of a statement;      *)
(*    "crash"      - a process dies in the middle of a report;             *)
(*    "killed"     - the sniffer dies between two inserts;                 *)
(*    "install"    - a report announces an installation or its removal.    *)
(***************************************************************************)
EXTENDS Naturals, Sequences, FiniteSets, FiniteSetsExt

\* The two servers a report talks to: the one that takes the mail, of which the
\* name has to be found, and getServer(), the program's own, which takes the
\* improvement data and has to answer.
Servers == {"mail", "request"}

CONSTANTS Reporters,   \* the processes that run ReportSubsystem
          Requests,    \* the HTTP requests the sniffer sees
          Flagged,     \* those the filter flags, above the report's threshold
          Incidents,   \* the attempts to bypass the program
          Frequency,   \* getReportFrequency(), in units of the clock
          Finished,    \* FINISHED, the index of the last attempt
          ImprovementData, \* doSendImprovementData()
          Situations,  \* see above
          Unreliable,  \* the servers that may be out of reach
          None,        \* no request
          MaxTime,     \* bound: the last value of the clock
          MaxReports   \* bound: the number of reports started

ASSUME ReportCycleAssumption ==
    /\ Flagged \subseteq Requests
    /\ Frequency \in Nat
    /\ Finished \in Nat
    /\ ImprovementData \in BOOLEAN
    /\ Situations \subseteq {"concurrent", "lockout", "crash", "killed", "install"}
    /\ Unreliable \subseteq Servers
    /\ None \notin Requests
    /\ MaxTime \in Nat
    /\ MaxReports \in Nat

VARIABLES
    now,        \* the clock
    online,     \* the servers that can be reached
    \* the tables
    urls, warnings, matches, bypasses, reports,
    \* the sniffer
    todo,       \* what has not happened yet
    sniffer,    \* [pc, request, time, lastRowId]
    \* each reporter
    pc,
    type,       \* the type of its report
    reportId,   \* _reportId, the rowid of its report
    datetime,   \* rotateLog's copy of the time of the report
    attempt,    \* i, the index of the attempt
    mail,       \* what its report lists
    \* history
    logged,     \* the entries that were ever stored
    delivered,  \* the entries in a mail the server accepted
    accepted    \* the reports whose mail the server accepted

tables       == <<urls, warnings, matches, bypasses, reports>>
world        == <<now, online>>
logging      == <<todo, sniffer>>
reporterVars == <<pc, type, reportId, datetime, attempt, mail>>
history      == <<logged, delivered, accepted>>
vars         == <<world, tables, logging, reporterVars, history>>

\* "INSTALL" stands for REPORT_UNINSTALL too, which differs in its text only.
Types == {"FALSE", "MANUAL", "SCHEDULED", "TEST", "INSTALL"}

\* An entry as the readers of a report know it.
Entries == {"url", "warning"} \X Requests \cup {"bypass"} \X Incidents

EmptyMail == [bypasses |-> {}, joined |-> {}, warnings |-> {}, urls |-> {}]

Contents(m) == {<<"bypass", b>> : b \in m.bypasses} \cup {<<"warning", r>> : r \in m.warnings}
               \cup {<<"url", r>> : r \in m.urls}

\* SQLite gives a new row the largest rowid in the table plus one: the rowid of
\* a deleted row is used again.
NextRowId(table) == IF table = {} THEN 1 ELSE 1 + Max({row.rowid : row \in table})

NotLogging == [pc |-> "idle", request |-> None, time |-> 0, lastRowId |-> 0]

Init ==
    /\ now = 0
    /\ online \in {Servers \ away : away \in SUBSET Unreliable}
    /\ urls = {}
    /\ warnings = {}
    /\ matches = {}
    /\ bypasses = {}
    /\ reports = <<>>
    /\ todo = Requests \cup Incidents
    /\ sniffer = NotLogging
    /\ pc = [p \in Reporters |-> "idle"]
    /\ type = [p \in Reporters |-> "FALSE"]
    /\ reportId = [p \in Reporters |-> 0]
    /\ datetime = [p \in Reporters |-> 0]
    /\ attempt = [p \in Reporters |-> 0]
    /\ mail = [p \in Reporters |-> EmptyMail]
    /\ logged = {}
    /\ delivered = {}
    /\ accepted = {}

-----------------------------------------------------------------------------
(***************************************************************************)
(* The environment: time passes, and each server comes and goes.           *)
(***************************************************************************)
Tick ==
    /\ now < MaxTime
    /\ now' = now + 1
    /\ UNCHANGED <<online, tables, logging, reporterVars, history>>

NetworkChanges ==
    /\ \E s \in Unreliable : online' = IF s \in online THEN online \ {s} ELSE online \cup {s}
    /\ UNCHANGED <<now, tables, logging, reporterVars, history>>

(***************************************************************************)
(* The sniffer and those that log bypasses.  In one process the report is  *)
(* over before the sniffer starts.                                         *)
(***************************************************************************)
MayLog == "concurrent" \in Situations \/ \A p \in Reporters : pc[p] = "idle"

\* logUrl takes the time before it executes the insert.
StampUrl(r) ==
    /\ MayLog
    /\ sniffer.pc = "idle"
    /\ r \in todo
    /\ todo' = todo \ {r}
    /\ sniffer' = [sniffer EXCEPT !.pc = "insertUrl", !.request = r, !.time = now]
    /\ UNCHANGED <<world, tables, reporterVars, history>>

InsertUrl == LET r == sniffer.request IN
    /\ MayLog
    /\ sniffer.pc = "insertUrl"
    /\ urls' = urls \cup {[rowid |-> NextRowId(urls), url |-> r, time |-> sniffer.time]}
    /\ sniffer' = [sniffer EXCEPT !.lastRowId = NextRowId(urls),
                                  !.pc = IF r \in Flagged THEN "insertWarning" ELSE "idle"]
    /\ logged' = logged \cup {<<"url", r>>}
    /\ UNCHANGED <<world, warnings, matches, bypasses, reports, todo, reporterVars, delivered, accepted>>

InsertWarning == LET r == sniffer.request IN
    /\ MayLog
    /\ sniffer.pc = "insertWarning"
    /\ warnings' = warnings \cup {[urlId |-> sniffer.lastRowId, by |-> r]}
    /\ sniffer' = [sniffer EXCEPT !.pc = "insertMatch"]
    /\ logged' = logged \cup {<<"warning", r>>}
    /\ UNCHANGED <<world, urls, matches, bypasses, reports, todo, reporterVars, delivered, accepted>>

InsertMatch ==
    /\ MayLog
    /\ sniffer.pc = "insertMatch"
    /\ matches' = matches \cup {[urlId |-> sniffer.lastRowId, by |-> sniffer.request]}
    /\ sniffer' = [sniffer EXCEPT !.pc = "idle"]
    /\ UNCHANGED <<world, urls, warnings, bypasses, reports, todo, reporterVars, history>>

SnifferDies ==
    /\ "killed" \in Situations
    /\ sniffer.pc # "idle"
    /\ sniffer' = [sniffer EXCEPT !.pc = "idle"]
    /\ UNCHANGED <<world, tables, todo, reporterVars, history>>

\* logBypass is given the time of the incident, which logBypassShutdown takes
\* from the sessions table: the row may be older than the call.
LogBypass(b) ==
    /\ MayLog
    /\ b \in todo
    /\ todo' = todo \ {b}
    /\ \E when \in 0..now : bypasses' = bypasses \cup {[by |-> b, time |-> when]}
    /\ logged' = logged \cup {<<"bypass", b>>}
    /\ UNCHANGED <<world, urls, warnings, matches, reports, sniffer, reporterVars, delivered, accepted>>

-----------------------------------------------------------------------------
(***************************************************************************)
(* A reporter.                                                             *)
(***************************************************************************)
Goto(p, label) == /\ pc' = [pc EXCEPT ![p] = label]
                  /\ attempt' = [attempt EXCEPT ![p] = 0]

\* A slip in the loop: one attempt too many.
FailsOnceMore(p, label, onward) ==
    /\ pc[p] = label
    /\ attempt[p] <= Finished
    /\ attempt' = [attempt EXCEPT ![p] = @ + 1]
    /\ UNCHANGED <<world, tables, logging, pc, type, reportId, datetime, mail, history>>

\* The statement at label throws: the next attempt, or after the last one on to
\* what follows the loop.
Fails(p, label, onward) ==
    /\ pc[p] = label
    /\ \/ /\ attempt[p] < Finished
          /\ attempt' = [attempt EXCEPT ![p] = @ + 1]
          /\ UNCHANGED pc
       \/ /\ attempt[p] = Finished
          /\ "lockout" \in Situations
          /\ Goto(p, onward)
    /\ UNCHANGED <<world, tables, logging, type, reportId, datetime, mail, history>>

\* ReportSubsystem::initialize with the type that the command line asks for.
Initialize(p, t) ==
    /\ pc[p] = "idle"
    /\ "concurrent" \in Situations \/ sniffer.pc = "idle"
    /\ t = "INSTALL" => "install" \in Situations
    /\ Len(reports) + Cardinality({q \in Reporters : pc[q] # "idle"}) < MaxReports
    /\ type' = [type EXCEPT ![p] = t]
    /\ mail' = [mail EXCEPT ![p] = EmptyMail]
    /\ Goto(p, IF t = "INSTALL" THEN "logReportStart" ELSE "isReportTime")
    /\ UNCHANGED <<world, tables, logging, reportId, datetime, history>>

\* A slip: off by one, as if the date of today were tomorrow's.
IsReportTimeOneEarly ==
    /\ Frequency > 0
    /\ \A n \in 1..Len(reports) : reports[n].completed => reports[n].time + Frequency <= now + 1

\* Database::isReportTime: no report completed in the last Frequency units.
IsReportTime ==
    /\ Frequency > 0
    /\ \A n \in 1..Len(reports) : reports[n].completed => reports[n].time + Frequency <= now

\* ReportSubsystem::setScheduledReport
SetScheduledReport(p) ==
    /\ pc[p] = "isReportTime"
    /\ type' = IF IsReportTime THEN [type EXCEPT ![p] = "SCHEDULED"] ELSE type
    /\ Goto(p, IF type'[p] = "FALSE" THEN "idle" ELSE "logReportStart")
    /\ UNCHANGED <<world, tables, logging, reportId, datetime, mail, history>>

\* The loop in isReportTime leaves count at -1, so no report is scheduled.
IsReportTimeFails(p) ==
    Fails(p, "isReportTime", IF type[p] = "FALSE" THEN "idle" ELSE "logReportStart")

\* Database::logReportStart, from the constructor of ReportBase.
LogReportStart(p) ==
    /\ pc[p] = "logReportStart"
    /\ reports' = Append(reports, [time |-> now, scheduled |-> type[p] = "SCHEDULED",
                                   completed |-> FALSE])
    /\ reportId' = [reportId EXCEPT ![p] = Len(reports) + 1]
    /\ Goto(p, IF type[p] \in {"TEST", "INSTALL"} THEN "send" ELSE "getBypasses")
    /\ UNCHANGED <<world, urls, warnings, matches, bypasses, logging, type, datetime, mail,
                   history>>

\* The last attempt rethrows, and initialize gives up the report.
LogReportStartFails(p) == Fails(p, "logReportStart", "idle")

-----------------------------------------------------------------------------
\* Report::generate reads the sections one after another.  A read that is given
\* up leaves its section empty.
Read(p, label, section, rows, onward) ==
    /\ pc[p] = label
    /\ mail' = [mail EXCEPT ![p][section] = rows]
    /\ Goto(p, onward)
    /\ UNCHANGED <<world, tables, logging, type, reportId, datetime, history>>

\* A slip: a cursor that starts behind the first row.
GetBypassesFromSecond(p) ==
    Read(p, "getBypasses", "bypasses",
         {row.by : row \in {row \in bypasses : row # CHOOSE other \in bypasses : TRUE}},
         "getWarnings")

GetBypasses(p) ==
    Read(p, "getBypasses", "bypasses", {row.by : row \in bypasses}, "getWarnings")
GetBypassesFails(p) == Fails(p, "getBypasses", "getWarnings")

\* Database::getWarnings joins warnings to urls: pairs of a urlId and its URL.
JoinedWarnings ==
    {<<u.rowid, u.url>> : u \in {u \in urls : \E w \in warnings : w.urlId = u.rowid}}

GetWarnings(p) == Read(p, "getWarnings", "joined", JoinedWarnings, "getMatches")
GetWarningsFails(p) == Fails(p, "getWarnings", "getHistory")

\* The report lists the warnings under their keywords: one without a keyword
\* appears nowhere.
GetMatches(p) ==
    Read(p, "getMatches", "warnings",
         {pair[2] : pair \in {pair \in mail[p].joined : \E m \in matches : m.urlId = pair[1]}},
         "getHistory")
GetMatchesFails(p) == Fails(p, "getMatches", "getHistory")

GetHistory(p) ==
    Read(p, "getHistory", "urls", {row.url : row \in urls}, "send")
GetHistoryFails(p) == Fails(p, "getHistory", "send")

-----------------------------------------------------------------------------
\* ReportBase::send.  The server's name is not found: the code is 1.  A test
\* report is sent once, whatever the code.
SendNoAddress(p) ==
    /\ pc[p] = "send"
    /\ "mail" \notin online
    /\ Goto(p, IF type[p] = "TEST" THEN "idle" ELSE "sleep")
    /\ UNCHANGED <<world, tables, logging, type, reportId, datetime, mail, history>>

\* initialize sends the same message again 20 seconds later.
SendAgain(p) ==
    /\ pc[p] = "sleep"
    /\ Goto(p, "send")
    /\ UNCHANGED <<world, tables, logging, type, reportId, datetime, mail, history>>

\* The server accepts the message.
SendMessage(p) ==
    /\ pc[p] = "send"
    /\ "mail" \in online
    /\ delivered' = delivered \cup Contents(mail[p])
    /\ accepted' = accepted \cup {reportId[p]}
    /\ Goto(p, "sent")
    /\ UNCHANGED <<world, tables, logging, type, reportId, datetime, mail, logged>>

\* A slip: the code of a failure is taken for success.
SendFailsUnnoticed(p) ==
    /\ pc[p] \in {"send", "sent"}
    /\ Goto(p, "selectTime")
    /\ UNCHANGED <<world, tables, logging, type, reportId, datetime, mail, history>>

\* A slip: any failure is answered by sending the message again.
SendFailsRepeated(p) ==
    /\ pc[p] \in {"send", "sent"}
    /\ Goto(p, "send")
    /\ UNCHANGED <<world, tables, logging, type, reportId, datetime, mail, history>>

\* Any other exception, before the message was accepted or after it, while the
\* session is closed: the code is 2 and nothing more happens to the report.
\* Once the session is closed there is none: getWarnings and Request::send catch
\* what they meet.
SendFails(p) ==
    /\ pc[p] \in {"send", "sent"}
    /\ Goto(p, "idle")
    /\ UNCHANGED <<world, tables, logging, type, reportId, datetime, mail, history>>

\* The session is closed, and sendImprovementData asks for the warnings.
CloseSession(p) ==
    /\ pc[p] = "sent"
    /\ Goto(p, "improve")
    /\ UNCHANGED <<world, tables, logging, type, reportId, datetime, mail, history>>

\* send has returned 0: logFinish is next, but not after a test report.
AfterSending(p) == IF type[p] = "TEST" THEN "idle" ELSE "selectTime"

\* sendImprovementData has the warnings, and sends them if it is to.
ReadImprovementData(p) ==
    /\ pc[p] = "improve"
    /\ Goto(p, IF ImprovementData /\ JoinedWarnings # {} THEN "request" ELSE AfterSending(p))
    /\ UNCHANGED <<world, tables, logging, type, reportId, datetime, mail, history>>

\* getWarnings gives up, and there is nothing to send.
ReadImprovementDataFails(p) == Fails(p, "improve", AfterSending(p))

\* Request::send returns when the program's own server answers, whatever the
\* answer is.  Until then it tries again every 20 seconds, for ever.
RequestReturns(p) ==
    /\ pc[p] = "request"
    /\ "request" \in online
    /\ Goto(p, AfterSending(p))
    /\ UNCHANGED <<world, tables, logging, type, reportId, datetime, mail, history>>

-----------------------------------------------------------------------------
\* Database::rotateLog: a statement that fails starts all five again.
SelectTime(p) ==
    /\ pc[p] = "selectTime"
    /\ datetime' = [datetime EXCEPT ![p] = reports[reportId[p]].time]
    /\ pc' = [pc EXCEPT ![p] = "deleteMatches"]
    /\ UNCHANGED <<world, tables, logging, type, reportId, attempt, mail, history>>

\* A slip: > for < in the condition of the subselects.
NewRowIds(p) == {u.rowid : u \in {u \in urls : u.time > datetime[p]}}

OldUrls(p) == {u \in urls : u.time < datetime[p]}
OldRowIds(p) == {u.rowid : u \in OldUrls(p)}

Delete(p, label, onward) ==
    /\ pc[p] = label
    /\ pc' = [pc EXCEPT ![p] = onward]
    /\ UNCHANGED <<world, reports, logging, type, reportId, datetime, attempt, mail, history>>

DeleteMatches(p) ==
    /\ Delete(p, "deleteMatches", "deleteWarnings")
    /\ matches' = {m \in matches : m.urlId \notin OldRowIds(p)}
    /\ UNCHANGED <<urls, warnings, bypasses>>

\* A slip: the URLs are deleted before the warnings, whose subselect then finds
\* none of them.
DeleteWarningsTooLate(p) ==
    /\ Delete(p, "deleteWarnings", "deleteUrls")
    /\ UNCHANGED <<urls, warnings, matches, bypasses>>

DeleteWarnings(p) ==
    /\ Delete(p, "deleteWarnings", "deleteUrls")
    /\ warnings' = {w \in warnings : w.urlId \notin OldRowIds(p)}
    /\ UNCHANGED <<urls, matches, bypasses>>

DeleteUrls(p) ==
    /\ Delete(p, "deleteUrls", "deleteBypasses")
    /\ urls' = urls \ OldUrls(p)
    /\ UNCHANGED <<warnings, matches, bypasses>>

DeleteBypasses(p) ==
    /\ pc[p] = "deleteBypasses"
    /\ bypasses' = {b \in bypasses : b.time >= datetime[p]}
    /\ Goto(p, "logReportFinish")
    /\ UNCHANGED <<world, urls, warnings, matches, reports, logging, type, reportId, datetime,
                   mail, history>>

RotateFails(p) ==
    /\ pc[p] \in {"selectTime", "deleteMatches", "deleteWarnings", "deleteUrls", "deleteBypasses"}
    /\ \/ /\ attempt[p] < Finished
          /\ attempt' = [attempt EXCEPT ![p] = @ + 1]
          /\ pc' = [pc EXCEPT ![p] = "selectTime"]
       \/ /\ attempt[p] = Finished
          /\ "lockout" \in Situations
          /\ Goto(p, "logReportFinish")
    /\ UNCHANGED <<world, tables, logging, type, reportId, datetime, mail, history>>

\* Database::logReportFinish
LogReportFinish(p) ==
    /\ pc[p] = "logReportFinish"
    /\ reports' = [reports EXCEPT ![reportId[p]].completed = TRUE]
    /\ Goto(p, "idle")
    /\ UNCHANGED <<world, urls, warnings, matches, bypasses, logging, type, reportId, datetime,
                   mail, history>>

LogReportFinishFails(p) == Fails(p, "logReportFinish", "idle")

\* The process dies; its next life starts with Initialize.
Crash(p) ==
    /\ "crash" \in Situations
    /\ pc[p] # "idle"
    /\ Goto(p, "idle")
    /\ UNCHANGED <<world, tables, logging, type, reportId, datetime, mail, history>>

-----------------------------------------------------------------------------
\* What a reporter does when all goes well.
Progress(p) ==
    \/ SetScheduledReport(p)
    \/ LogReportStart(p)
    \/ GetBypasses(p) \/ GetWarnings(p) \/ GetMatches(p) \/ GetHistory(p)
    \/ SendAgain(p) \/ SendMessage(p)
    \/ CloseSession(p) \/ ReadImprovementData(p) \/ RequestReturns(p)
    \/ SelectTime(p) \/ DeleteMatches(p) \/ DeleteWarnings(p) \/ DeleteUrls(p)
    \/ DeleteBypasses(p)
    \/ LogReportFinish(p)

\* What the database and the network do to it.
Failure(p) ==
    \/ IsReportTimeFails(p)
    \/ LogReportStartFails(p)
    \/ GetBypassesFails(p) \/ GetWarningsFails(p) \/ GetMatchesFails(p) \/ GetHistoryFails(p)
    \/ SendNoAddress(p) \/ SendFails(p) \/ ReadImprovementDataFails(p)
    \/ RotateFails(p)
    \/ LogReportFinishFails(p)

SnifferStep ==
    \/ \E r \in Requests : StampUrl(r)
    \/ InsertUrl
    \/ InsertWarning
    \/ InsertMatch

Next ==
    \/ Tick
    \/ NetworkChanges
    \/ SnifferStep
    \/ SnifferDies
    \/ \E b \in Incidents : LogBypass(b)
    \/ \E p \in Reporters : \E t \in Types \ {"SCHEDULED"} : Initialize(p, t)
    \/ \E p \in Reporters : Progress(p)
    \/ \E p \in Reporters : Failure(p)
    \/ \E p \in Reporters : Crash(p)

Spec == Init /\ [][Next]_vars

\* The operating system runs the reporters: whether a statement succeeds or
\* fails is not theirs to choose, but it does one of the two.  Nobody has to
\* start a reporter, and that the servers are reachable is left to the properties.
FairSpec == Spec /\ \A p \in Reporters : WF_vars(Progress(p) \/ Failure(p))

-----------------------------------------------------------------------------
(***************************************************************************)
(* Properties.                                                             *)
(***************************************************************************)
Labels == {"idle", "isReportTime", "logReportStart", "getBypasses", "getWarnings",
           "getMatches", "getHistory", "send", "sleep", "sent", "improve", "request",
           "selectTime", "deleteMatches", "deleteWarnings", "deleteUrls", "deleteBypasses",
           "logReportFinish"}

\* What a report may list.
Mails == [bypasses : SUBSET Incidents, joined : SUBSET ((Nat \ {0}) \X Requests),
          warnings : SUBSET Requests, urls : SUBSET Requests]

\* Every variable stays in its type.
TypeOK ==
    /\ now \in 0..MaxTime
    /\ online \subseteq Servers
    /\ urls \subseteq [rowid : Nat \ {0}, url : Requests, time : 0..MaxTime]
    /\ warnings \subseteq [urlId : Nat, by : Requests]
    /\ matches \subseteq [urlId : Nat, by : Requests]
    /\ bypasses \subseteq [by : Incidents, time : 0..MaxTime]
    /\ reports \in Seq([time : 0..MaxTime, scheduled : BOOLEAN, completed : BOOLEAN])
    /\ todo \subseteq Requests \cup Incidents
    /\ sniffer \in [pc : {"idle", "insertUrl", "insertWarning", "insertMatch"},
                    request : Requests \cup {None}, time : 0..MaxTime, lastRowId : Nat]
    /\ pc \in [Reporters -> Labels]
    /\ type \in [Reporters -> Types]
    /\ reportId \in [Reporters -> 0..Len(reports)]
    /\ datetime \in [Reporters -> 0..MaxTime]
    /\ attempt \in [Reporters -> 0..Finished]
    /\ mail \in [Reporters -> Mails]
    /\ logged \subseteq Entries
    /\ delivered \subseteq Entries
    /\ accepted \subseteq 1..Len(reports)

\* The entries in the tables.
Stored == {<<"url", u.url>> : u \in urls} \cup {<<"warning", w.by>> : w \in warnings}
          \cup {<<"bypass", b.by>> : b \in bypasses}

\* "This method rotated the database, to clean up everything that have been
\* included.  Only entries older than the time for the report ... will be
\* deleted" (Database.h:148-150): what was logged and is gone from the tables
\* has reached the accountability partners in a report.
OnlyIncludedDeleted == logged \subseteq Stored \cup delivered

\* A warning leads to its URL: the row it names exists, whatever was rotated
\* meanwhile, and is that of the request the filter flagged.
WarningsLeadHome ==
    \A w \in warnings : \E u \in urls : u.rowid = w.urlId /\ u.url = w.by

\* No report accuses the user of a URL the filter did not flag.
MailAccusesFlagged == \A r \in Requests : <<"warning", r>> \in delivered => r \in Flagged

\* A report is marked as completed, which puts off the next one, only when the
\* mail server has accepted its mail.
CompletedWasDelivered ==
    \A n \in 1..Len(reports) : reports[n].completed => n \in accepted

\* "Returns the number of days between scheduled reports" (Options.h:163): two
\* scheduled reports that were completed are at least Frequency apart.
ScheduledOncePerPeriod ==
    \A m, n \in 1..Len(reports) :
        /\ m < n
        /\ reports[m].scheduled /\ reports[m].completed
        /\ reports[n].scheduled /\ reports[n].completed
        => reports[m].time + Frequency <= reports[n].time

\* Once both servers can be reached for good, every report comes to its end:
\* neither locks nor failures keep ReportSubsystem, and with it the sniffer that
\* starts after it, waiting for ever.  Neither premise can be dropped.  Without
\* the mail server the message is sent again and again (ReportSubsystem.cpp:62-66);
\* without the program's own, a report whose mail was accepted waits in
\* Request::send (ReportBase.cpp:210, Request.cpp:99-139).
CycleEnds ==
    <>[](online = Servers) => \A p \in Reporters : pc[p] # "idle" ~> pc[p] = "idle"

\* The promise of the report cycle, see ReportDelivery.
Delivery == INSTANCE ReportDelivery WITH stored <- Stored
ImplementsDelivery == Delivery!Spec

=============================================================================
