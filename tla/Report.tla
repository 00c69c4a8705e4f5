------------------------------- MODULE Report -------------------------------
(***************************************************************************)
(* What is in a report: class Report reads the tables section by section   *)
(* through the cursors Bypasses, Warnings and History, puts each section   *)
(* into the body of the mail, into the attached file or into both, as the  *)
(* options say, saves the file in REPORT_DIR and leaves it to ReportBase   *)
(* to mail the two.  Meanwhile the sniffer goes on logging, and another    *)
(* process may be reporting with the same tables and the same directory.   *)
(*                                                                         *)
(* Module ReportCycle has the rest of a report's life: when one is due,    *)
(* statements that fail, crashes.  Here every statement succeeds, a step   *)
(* is one statement, one action on a file or one exchange with the mail    *)
(* server, and rotateLog with logReportFinish is a single step.  A request *)
(* stands for its hostname, its path and what the filter found in it.      *)
(*                                                                         *)
(* The second-level domain of a hostname and which hostnames end in a      *)
(* domain ("ab.com" LIKE '%b.com') are given by the constants.             *)
(***************************************************************************)
EXTENDS Naturals, FiniteSetsExt, SequencesExt

CONSTANTS Reporters,      \* the processes that run ReportSubsystem
          Requests,       \* the HTTP requests the sniffer sees
          Host,           \* the hostname of each
          Keywords,       \* the keywords the filter finds in each
          Strength,       \* the strength of the match of each
          Whitelisted,    \* the requests whose match is whitelisted
          Domain,         \* the second-level domain of each hostname
          EndsIn,         \* the pairs <<hostname, domain>> with LIKE '%domain'
          Incidents,      \* the attempts to bypass the program
          Configurations, \* the options one of which is in force
          None,           \* no report
          MaxDay,         \* bound: the last day
          MaxReports,     \* bound: the number of reports started
          Bounded         \* whether the bounds below are kept as well

Hosts == {Host[r] : r \in Requests}

\* The parts that the code asks the options for.
Parts == {"bypasses", "warnings", "whitelist", "history_hostnames", "history_paths"}

ASSUME ReportAssumption ==
    /\ IsFiniteSet(Requests)
    /\ Requests \cap Incidents = {}
    /\ \A r \in Requests : Strength[r] \in Nat
    /\ Whitelisted \subseteq Requests
    /\ DOMAIN Domain = Hosts
    /\ \A h \in Hosts : <<h, Domain[h]>> \in EndsIn
    /\ Configurations \subseteq [body : SUBSET Parts, attached : SUBSET Parts,
                                 threshold : Nat, compress : BOOLEAN]
    /\ MaxDay \in Nat
    /\ MaxReports \in Nat
    /\ Bounded \in BOOLEAN

VARIABLES
    options,    \* the options in force
    day,        \* the date that names the files
    urls, warnings, matches, bypasses, \* the tables
    files,      \* REPORT_DIR
    \* the sniffer
    todo,       \* what has not happened yet
    sniffer,    \* [pc, request, lastRowId]
    \* the reporters
    pc,
    job,        \* the report under way, see NoJob
    \* history
    reports,    \* the number of reports started
    accepted,   \* the mails the server accepted
    mailed,     \* the items listed in them
    deleted,    \* the requests and incidents whose rows were rotated
    mishaps     \* the circumstances that void a promise

tables  == <<urls, warnings, matches, bypasses>>
world   == <<options, day>>
logging == <<todo, sniffer>>
history == <<reports, accepted, mailed, deleted, mishaps>>
vars    == <<world, tables, files, logging, pc, job, history>>

\* SQLite gives a new row the largest rowid in the table plus one.
NextRowId == IF urls = {} THEN 1 ELSE 1 + Max({u.rowid : u \in urls})

\* What a report keeps while it is made: its number, what was in the tables when
\* it started, the rows of Warnings with the index of its cursor, the domains
\* and the hostnames that are left, what _body and _attached hold, and for the
\* file the date, the highest number found, the names left to look at, and the
\* attachment.
NoJob == [report |-> None, old |-> {}, rows |-> <<>>, index |-> 0,
          domains |-> {}, domain |-> None, hosts |-> {}, listed |-> {},
          body |-> {}, attached |-> {},
          date |-> 0, number |-> 0, names |-> {}, attachment |-> {}]

Init ==
    /\ options \in Configurations
    /\ day = 0
    /\ urls = {} /\ warnings = {} /\ matches = {} /\ bypasses = {}
    /\ files = {}
    /\ todo = Requests \cup Incidents
    /\ sniffer = [pc |-> "idle", request |-> None, lastRowId |-> 0]
    /\ pc = [p \in Reporters |-> "idle"]
    /\ job = [p \in Reporters |-> NoJob]
    /\ reports = 0
    /\ accepted = {}
    /\ mailed = {}
    /\ deleted = {}
    /\ mishaps = {}

Reading == {"getBypasses", "getWarnings", "getMatches", "getWhitelist", "getHostnames",
            "getDomainHostnames", "getHistory"}
Saving  == {"visitEntry", "attachFile"}

-----------------------------------------------------------------------------
(***************************************************************************)
(* The environment and the sniffer (see SnifferLog for its retries).       *)
(***************************************************************************)
\* The date is read when a file is saved.  Bound: it changes while that file
\* waits to be mailed, which is when a change makes a difference.
Midnight ==
    /\ day < MaxDay
    /\ Bounded => \E p \in Reporters : pc[p] = "send"
    /\ day' = day + 1
    /\ UNCHANGED <<options, tables, files, logging, pc, job, history>>

\* Bound: nothing is logged while two reports are under way, nor while the only
\* one is saved and mailed, nor once the last one has started, unless the other has
\* been rotated since: what is logged then makes no difference to one that is
\* logged when it has been read.
UnderWay == {p \in Reporters : pc[p] # "idle"}
MayLog == Bounded =>
    /\ reports < MaxReports \/ "rotated" \in mishaps
    /\ UnderWay = {} \/ \E p \in Reporters : UnderWay = {p} /\ pc[p] \in Reading

InsertUrl(r) ==
    /\ MayLog
    /\ sniffer.pc = "idle"
    /\ r \in todo
    /\ todo' = todo \ {r}
    /\ urls' = urls \cup {[rowid |-> NextRowId, request |-> r]}
    /\ sniffer' = [pc |-> IF Keywords[r] # {} THEN "insertWarning" ELSE "idle",
                   request |-> r, lastRowId |-> NextRowId]
    /\ UNCHANGED <<world, warnings, matches, bypasses, files, pc, job, history>>

InsertWarning ==
    /\ MayLog
    /\ sniffer.pc = "insertWarning"
    /\ warnings' = warnings \cup {[urlId |-> sniffer.lastRowId, match |-> sniffer.request]}
    /\ sniffer' = [sniffer EXCEPT !.pc = "insertMatches"]
    /\ UNCHANGED <<world, urls, matches, bypasses, files, todo, pc, job, history>>

\* The loop of logMatch, as one step.
InsertMatches ==
    /\ MayLog
    /\ sniffer.pc = "insertMatches"
    /\ matches' = matches \cup {[urlId |-> sniffer.lastRowId, keyword |-> k] :
                                k \in Keywords[sniffer.request]}
    /\ sniffer' = [sniffer EXCEPT !.pc = "idle"]
    /\ UNCHANGED <<world, urls, warnings, bypasses, files, todo, pc, job, history>>

\* Bound: between reports only.  A bypass bears the time of the incident, which
\* may lie before that of a report under way: see ReportCycle.
LogBypass(b) ==
    /\ MayLog
    /\ Bounded => UnderWay = {}
    /\ b \in todo
    /\ todo' = todo \ {b}
    /\ bypasses' = bypasses \cup {b}
    /\ UNCHANGED <<world, urls, warnings, matches, files, sniffer, pc, job, history>>

-----------------------------------------------------------------------------
(***************************************************************************)
(* A reporter.  Step(p, label, onward, j) is a step from label to onward   *)
(* that leaves j of its report.                                            *)
(***************************************************************************)
Step(p, label, onward, j) ==
    /\ pc[p] = label
    /\ pc' = [pc EXCEPT ![p] = onward]
    /\ job' = [job EXCEPT ![p] = j]

\* Something happens that voids a promise.  Bound: of one kind in a behaviour,
\* but that a request is orphaned comes on top of its being split.
Occur(mishap) ==
    /\ mishaps' = mishaps \cup mishap
    /\ Bounded => Cardinality(mishaps' \ {"orphaned"}) <= 1

\* The constructor of ReportBase: logReportStart.  What is in the tables now is
\* older than the report, but for the rest of a request that is being logged.
\* Bound: none starts while another reads or saves.
LogReportStart(p) ==
    /\ reports < MaxReports
    /\ Bounded => \A q \in Reporters : pc[q] \notin Reading \cup Saving
    /\ Step(p, "idle", "getBypasses",
            [NoJob EXCEPT !.report = reports + 1, !.old = (Requests \cup Incidents) \ todo])
    /\ reports' = reports + 1
    /\ Occur(IF sniffer.pc = "idle" THEN {} ELSE {"split"})
    /\ UNCHANGED <<world, tables, files, logging, accepted, mailed, deleted>>

Read(p, label, onward, j) ==
    /\ Step(p, label, onward, j)
    /\ UNCHANGED <<world, tables, files, logging, history>>

\* A slip: the file is asked for what the body should have.
WithSectionMixedUp(j, part, items) ==
    [j EXCEPT !.body = IF part \in options.body THEN @ \cup items ELSE @,
              !.attached = IF part \in options.body THEN @ \cup items ELSE @]

\* A section goes where the options want it.
WithSection(j, part, items) ==
    [j EXCEPT !.body = IF part \in options.body THEN @ \cup items ELSE @,
              !.attached = IF part \in options.attached THEN @ \cup items ELSE @]

GetBypasses(p) ==
    Read(p, "getBypasses", "getWarnings",
         WithSection(job[p], "bypasses", {<<"bypass", b>> : b \in bypasses}))

\* The rows of the statement that joins warnings to urls by urlId: url is what
\* the row of urls says, match what the row of warnings says.
Matching(whitelist) ==
    {pair \in warnings \X urls : /\ pair[1].urlId = pair[2].rowid
                                /\ (pair[1].match \in Whitelisted) = whitelist}

Joined(whitelist) ==
    {[urlId |-> pair[2].rowid, url |-> pair[2].request, match |-> pair[1].match, keywords |-> {}] :
        pair \in Matching(whitelist)}

FlaggedRows == {row \in Joined(FALSE) : Strength[row.match] >= options.threshold}

\* A slip: the matches of the first row are read even when there is none.
GetWarningsUnasked(p) ==
    Read(p, "getWarnings", "getMatches", [job[p] EXCEPT !.rows = SetToSeq(FlaggedRows), !.index = 1])

GetWarnings(p) ==
    Read(p, "getWarnings", IF FlaggedRows = {} THEN "getWhitelist" ELSE "getMatches",
         [job[p] EXCEPT !.rows = SetToSeq(FlaggedRows), !.index = 1])

\* A slip: the index is taken after the cursor has moved on.
TreeAfterNext(rows, k) == {(i % Len(rows)) + 1 : i \in {i \in 1..Len(rows) : k \in rows[i].keywords}}

\* tree[k]: the indexes of the rows that have keyword k.
Tree(rows, k) == {i \in 1..Len(rows) : k \in rows[i].keywords}

\* The rows are listed under their keywords: one without a keyword appears
\* nowhere.
WarningItems(rows) ==
    UNION {{<<"warning", k, rows[i].url, rows[i].match>> : i \in Tree(rows, k)} :
           k \in UNION {rows[i].keywords : i \in 1..Len(rows)}}

\* Database::getMatches: one statement per row, all before the section is made.
GetMatches(p) ==
    LET j == job[p]
        found == {m.keyword : m \in {m \in matches : m.urlId = j.rows[j.index].urlId}}
        rows == [j.rows EXCEPT ![j.index].keywords = found]
    IN  /\ pc[p] = "getMatches"
        /\ IF j.index < Len(rows)
           THEN Read(p, "getMatches", "getMatches", [j EXCEPT !.rows = rows, !.index = @ + 1])
           ELSE Read(p, "getMatches", "getWhitelist",
                     [WithSection(j, "warnings", WarningItems(rows)) EXCEPT !.rows = <<>>, !.index = 0])

\* getWhitelist is getWarnings with the other flag; the keywords are read but
\* not listed.
GetWhitelist(p) ==
    Read(p, "getWhitelist", "getHostnames",
         WithSection(job[p], "whitelist", {<<"whitelist", row.url>> : row \in Joined(TRUE)}))

\* Report::makeHistorySection: the hostnames give the second-level domains,
\* which are looked at one after another.
GetHostnames(p) ==
    Read(p, "getHostnames", "getDomainHostnames",
         [job[p] EXCEPT !.domains = {Domain[Host[u.request]] : u \in urls}])

DoSaveHistory == options.attached \cap {"history_hostnames", "history_paths"} # {}
DoIncludePaths == "history_paths" \in options.attached

\* The hostnames of the next domain; without paths they are all that is listed.
GetDomainHostnames(p) ==
    LET j     == job[p]
        d     == CHOOSE d \in j.domains : TRUE
        hosts == {h \in {Host[u.request] : u \in urls} : <<h, d>> \in EndsIn}
        next  == [j EXCEPT !.domains = @ \ {d}]
    IN  /\ j.domains # {}
        /\ IF DoIncludePaths /\ hosts # {}
           THEN Read(p, "getDomainHostnames", "getHistory", [next EXCEPT !.domain = d, !.hosts = hosts])
           ELSE Read(p, "getDomainHostnames", "getDomainHostnames",
                     [next EXCEPT !.listed = @ \cup {<<"host", d, h>> : h \in hosts}])

\* The URLs of the next hostname of the domain.
GetHistory(p) ==
    LET j     == job[p]
        h     == CHOOSE h \in j.hosts : TRUE
        paths == {u.request : u \in {u \in urls : Host[u.request] = h}}
    IN  Read(p, "getHistory", IF j.hosts = {h} THEN "getDomainHostnames" ELSE "getHistory",
             [j EXCEPT !.hosts = @ \ {h}, !.listed = @ \cup {<<"path", j.domain, r>> : r \in paths}])

\* The history goes into the attached file or nowhere.
MakeHistory(p) == LET j == job[p] IN
    /\ j.domains = {}
    /\ Read(p, "getDomainHostnames", "listDirectory",
            [j EXCEPT !.attached = IF DoSaveHistory THEN @ \cup j.listed ELSE @,
                      !.listed = {}, !.domain = None])

-----------------------------------------------------------------------------
(***************************************************************************)
(* Report::saveAttachedReport.  A file is named by the date, a number and  *)
(* its type; by is the report it was written for, which is history.        *)
(***************************************************************************)
Name(f) == [date |-> f.date, number |-> f.number, zip |-> f.zip]

\* Bound: none saves while another reads, for the two have nothing in common.
Save(p, label, onward, j) ==
    /\ Bounded => \A q \in Reporters : pc[q] \notin Reading
    /\ Step(p, label, onward, j)
    /\ UNCHANGED <<world, tables, logging, reports, accepted, mailed, deleted>>

ListDirectory(p) ==
    /\ Save(p, "listDirectory", "visitEntry",
            [job[p] EXCEPT !.date = day, !.names = {Name(f) : f \in files}])
    /\ Occur(IF \E q \in Reporters : pc[q] \in Saving THEN {"overlap"} ELSE {})
    /\ UNCHANGED files

\* The file of a report of the same day counts; any other file is removed.
VisitEntry(p) == \E name \in job[p].names :
    LET j == [job[p] EXCEPT !.names = @ \ {name}] IN
    /\ IF name.date = j.date
       THEN /\ Save(p, "visitEntry", "visitEntry", [j EXCEPT !.number = Max({@, name.number})])
            /\ UNCHANGED files
       ELSE /\ name \in {Name(f) : f \in files}
            /\ Save(p, "visitEntry", "visitEntry", j)
            /\ files' = {f \in files : Name(f) # name}
    /\ UNCHANGED mishaps

\* A file of that name is overwritten.
Written(f) == {other \in files : Name(other) # Name(f)} \cup {f}

\* A slip: the number is not counted up.
WriteFileAgain(p) == LET j == job[p] IN
    /\ j.names = {}
    /\ Save(p, "visitEntry", "attachFile", [j EXCEPT !.attached = {}])
    /\ files' = Written([date |-> j.date, number |-> j.number, zip |-> FALSE,
                         by |-> j.report, content |-> j.attached])
    /\ UNCHANGED mishaps

WriteFile(p) == LET j == [job[p] EXCEPT !.number = @ + 1] IN
    /\ j.names = {}
    /\ Save(p, "visitEntry", "attachFile", [j EXCEPT !.attached = {}])
    /\ files' = Written([date |-> j.date, number |-> j.number, zip |-> FALSE,
                         by |-> j.report, content |-> j.attached])
    /\ UNCHANGED mishaps

\* The size of the file is asked for; the file, or an archive of it, is attached.
AttachFile(p) == LET j == job[p] IN
    /\ \E f \in files :
          LET attached == [f EXCEPT !.zip = options.compress] IN
          /\ Name(f) = [date |-> j.date, number |-> j.number, zip |-> FALSE]
          /\ Save(p, "attachFile", "send",
                  [j EXCEPT !.attachment = {Name(attached)}, !.date = 0, !.number = 0])
          /\ files' = Written(attached)
    /\ UNCHANGED mishaps

\* Any exception on the way, be it that the file is gone or that the disk is
\* full: the report is mailed without it.
SaveFails(p) == \E label \in {"visitEntry", "attachFile"} :
    /\ Save(p, label, "send", [job[p] EXCEPT !.attached = {}, !.names = {}, !.date = 0, !.number = 0])
    /\ Occur({"unsaved"})
    /\ UNCHANGED files

-----------------------------------------------------------------------------
\* ReportBase::send opens the attachment before it asks for the mail server,
\* whose name may not be found for any length of time; then the message is made
\* anew until it is accepted.
Enclosed(p) == {f \in files : Name(f) \in job[p].attachment}

SendMessage(p) == LET j == job[p] IN
    /\ Step(p, "send", "rotate", [NoJob EXCEPT !.report = j.report, !.old = j.old])
    /\ Cardinality(Enclosed(p)) = Cardinality(j.attachment)
    /\ accepted' = accepted \cup {[report |-> j.report, enclosed |-> {f.by : f \in Enclosed(p)}]}
    /\ mailed' = mailed \cup j.body \cup UNION {f.content : f \in Enclosed(p)}
    /\ UNCHANGED <<world, tables, files, logging, reports, deleted, mishaps>>

\* The attachment cannot be opened, or anything else: the report is given up.
SendFails(p) ==
    /\ Step(p, "send", "idle", NoJob)
    /\ UNCHANGED <<world, tables, files, logging, history>>

\* rotateLog and logReportFinish, see ReportCycle for their statements.
Rotate(p) == LET old == {u \in urls : u.request \in job[p].old} IN
    /\ Step(p, "rotate", "idle", NoJob)
    /\ matches' = {m \in matches : \A u \in old : m.urlId # u.rowid}
    /\ warnings' = {w \in warnings : \A u \in old : w.urlId # u.rowid}
    /\ urls' = urls \ old
    /\ bypasses' = bypasses \ job[p].old
    /\ deleted' = deleted \cup {u.request : u \in old} \cup (bypasses \cap job[p].old)
    /\ Occur((IF \E q \in Reporters : pc[q] \in Reading THEN {"rotated"} ELSE {})
             \cup (IF sniffer.pc # "idle" /\ sniffer.request \in job[p].old THEN {"orphaned"} ELSE {}))
    /\ UNCHANGED <<world, files, logging, reports, accepted, mailed>>

-----------------------------------------------------------------------------
Generate(p) ==
    \/ GetBypasses(p) \/ GetWarnings(p) \/ GetMatches(p) \/ GetWhitelist(p)
    \/ GetHostnames(p) \/ GetDomainHostnames(p) \/ GetHistory(p) \/ MakeHistory(p)

SaveAttachedReport(p) ==
    \/ ListDirectory(p) \/ VisitEntry(p) \/ WriteFile(p) \/ AttachFile(p) \/ SaveFails(p)

Next ==
    \/ Midnight
    \/ \E r \in Requests : InsertUrl(r)
    \/ InsertWarning
    \/ InsertMatches
    \/ \E b \in Incidents : LogBypass(b)
    \/ \E p \in Reporters : \/ LogReportStart(p)
                            \/ Generate(p)
                            \/ SaveAttachedReport(p)
                            \/ SendMessage(p) \/ SendFails(p) \/ Rotate(p)

Spec == Init /\ [][Next]_vars

-----------------------------------------------------------------------------
(***************************************************************************)
(* Properties.                                                             *)
(***************************************************************************)
Words == UNION {Keywords[r] : r \in Requests}

Items == {"bypass"} \X Incidents
         \cup {"warning"} \X Words \X Requests \X Requests
         \cup {"whitelist"} \X Requests
         \cup {"path"} \X Range(Domain) \X Requests
         \cup {"host"} \X Range(Domain) \X Hosts

Names == [date : 0..MaxDay, number : 0..MaxReports, zip : BOOLEAN]

\* Every variable stays in its type.
TypeOK ==
    /\ options \in Configurations
    /\ day \in 0..MaxDay
    /\ urls \subseteq [rowid : 1..Cardinality(Requests), request : Requests]
    /\ warnings \subseteq [urlId : 1..Cardinality(Requests), match : Requests]
    /\ matches \subseteq [urlId : 1..Cardinality(Requests), keyword : Words]
    /\ bypasses \subseteq Incidents
    /\ \A f \in files : Name(f) \in Names /\ f.by \in 1..reports /\ f.content \subseteq Items
    /\ todo \subseteq Requests \cup Incidents
    /\ sniffer.pc \in {"idle", "insertWarning", "insertMatches"}
    /\ pc \in [Reporters -> {"idle", "listDirectory", "send", "rotate"} \cup Reading \cup Saving]
    /\ \A p \in Reporters : LET j == job[p] IN
          /\ pc[p] # "idle" => j.report \in 1..reports
          /\ pc[p] = "getMatches" => j.index \in 1..Len(j.rows)
          /\ j.old \subseteq Requests \cup Incidents
          /\ j.hosts \subseteq Hosts
          /\ j.body \cup j.attached \cup j.listed \subseteq Items
          /\ j.attachment \subseteq Names
    /\ reports \in 0..MaxReports
    /\ mailed \subseteq Items
    /\ deleted \subseteq Requests \cup Incidents

\* What a report says of someone is true, although it is put together from many
\* statements, between which the sniffer goes on: a keyword stands beside a URL
\* in which the filter found it, with the strength of that very match, which is
\* above the threshold and not whitelisted; the whitelist names none but
\* whitelisted URLs; a URL or hostname is listed under a domain it ends in.  Only
\* a rotation by another process in the midst of it can mix two requests up.
ListedJustly ==
    {"rotated", "orphaned"} \cap mishaps = {} => \A item \in mailed \cup UNION {f.content : f \in files} :
        /\ item[1] = "warning" =>
              /\ item[3] = item[4]
              /\ item[2] \in Keywords[item[3]]
              /\ item[3] \notin Whitelisted
              /\ Strength[item[3]] >= options.threshold
        /\ item[1] = "whitelist" => item[2] \in Whitelisted
        /\ item[1] = "path" => <<Host[item[3]], item[2]>> \in EndsIn
        /\ item[1] = "host" => <<item[3], item[2]>> \in EndsIn

\* A mail carries the file of its own report, whatever other reports were saved,
\* mailed or given up on the same day or another, between the saving and the
\* acceptance of the mail.  Only two processes that save at the same time may
\* choose the same name.
MailIsOwn ==
    {"overlap", "unsaved"} \cap mishaps = {} =>
        \A mail \in accepted : mail.enclosed = {mail.report}

\* What the options include in a report, in the body or in the file.
Includes(part) == part \in options.body \cup options.attached

\* The items that a reader of the reports should have seen before a request or
\* an incident is deleted.
Due(e) ==
    IF e \in Incidents
    THEN Includes("bypasses") => <<"bypass", e>> \in mailed
    ELSE /\ /\ Includes("warnings")
            /\ e \notin Whitelisted
            /\ Strength[e] >= options.threshold
            => \A k \in Keywords[e] : <<"warning", k, e, e>> \in mailed
         /\ Includes("whitelist") /\ e \in Whitelisted /\ Keywords[e] # {}
            => <<"whitelist", e>> \in mailed
         /\ DoIncludePaths => <<"path", Domain[Host[e]], e>> \in mailed
         /\ DoSaveHistory /\ ~DoIncludePaths => <<"host", Domain[Host[e]], Host[e]>> \in mailed

\* "This method rotated the database, to clean up everything that have been
\* included" (Database.h:148): every part the options ask for of what is deleted
\* was listed in an accepted mail, in the body or in the file, under each of its
\* keywords and under its domain.  A request logged while a report began, a file
\* that could not be saved and two that were saved at once are the exceptions.
DeletedWasMailed ==
    {"split", "overlap", "unsaved"} \cap mishaps = {} => \A e \in deleted : Due(e)

=============================================================================
