# Net Responsibility: a formal model

Net Responsibility is an accountability program: a daemon that watches the HTTP
requests leaving a computer, flags those that match a blacklist, and mails a
report to the partners its user has chosen. What it must not do is easy to say
and hard to test. It must not lose what it logged, it must not accuse anyone of
what they did not do, it must not be silenced by an unlucky moment (a locked
database, a crash, a mail server that is away), and it must notice when somebody
silences it on purpose.

This directory holds TLA+ modules translated from the sources, the TLC
configurations that check them on small instances, and the theorems TLAPS has
proved about them. `PROJECT.json` lists the runs, relates every definition to the
lines of code it stands for, and gives for every checked property a mutant of the
code that breaks it.

## 1. The system

| Component | State | Operations | Talks to |
|---|---|---|---|
| `MainApplication` | the only `Options` and `Database`; the property `config` | `initialize`, `signalHandler` (SIGTERM and SIGINT end it, SIGUSR1 resets it), `terminateNicely` | starts the three subsystems in the order Config, Report, Sniffer |
| `ConfigSubsystem` | none | configures anew if `config` is set | `Request`, `Options` |
| `Options` | the options in force, `_initBypasses` | `loadConfigfile`, `loadTxt` | `Request`, `MyXml` |
| `Request` | none | `send`, for ever until the server answers; `modifiedFilesUpdate` | the server; replaces the configuration and the blacklist |
| `Database` | one SQLite connection, five tables (`urls`, `warnings`, `matches`, `bypasses`, `reports`) and `sessions`; the members bound to its prepared statements | log, read, rotate, sessions; each statement in a loop of bounded attempts | everyone; other processes through the file |
| `BootHistory` | `_boots`, the sessions of the computer | one pass over wtmp, three queries | `Database` |
| `Sniffer`, `SnifferThread` | one thread per device (or one on the device "any") | capture, filter, `logUrl`, `logWarning` | `Filter`, and `Database` **without a lock** |
| `Filter`, `Blacklist`, `MyXml` | the keywords and extensions | `loadBlacklist`, `isMatch` | `Options`, `Request`, `Database` |
| `ReportSubsystem`, `ReportBase`, `Report` | the type and the rowid of the report | is it due, record it, read the tables, mail it, send the improvement data, rotate, complete it | `Database`, the mail server, `Request` |
| `SnifferSubsystem` | the pidfile | `isOnlyInstance`, then `Sniffer::run` | `Database` (sessions) |
| `History`, `Warnings`, `Bypasses` | a cursor over rows | `hasMore`, `next`, getters | `Report`, `Options` |
| `Plugin` | | the whole file is commented out | |
| scripts | | start, stop and reset the daemon by the pidfile | signals |

What makes it hard, and what each component must get right:

* **Interleaving.** The threads of several devices share the members of
  `Database` that are bound to the prepared statements, and `_lastRowId`. A
  warning must lead to the URL it was raised for, its keywords to the warning,
  and every request must get its rows once.
* **Locks and retries.** Another process may lock the database. Every statement
  is tried a bounded number of times and may then be given up, some quietly, some
  with an exception. No retry may write a row twice, skip one, or never end.
* **Crash and restart of a report.** A report is due, recorded, read, mailed,
  rotated and completed in some twenty steps; a process may die or give up at
  each. It talks to two servers, the mail server and the program's own, and waits
  for either without end. An entry is deleted only after it was delivered, and a
  report counts as completed only if it was.
* **Conclusions about the past.** `Database` infers from the table `sessions` and
  from wtmp, which does not record crashes, whether the program was stopped,
  killed or left out. It must accuse the user of each outage, of each once, and of
  nothing else.
* **Several instances.** Manual reports, the daemon and restarts meet in one
  pidfile, which is checked and written in separate steps, and each instance has
  the same signal handler.
* **The start.** Files that are missing, damaged or changed are replaced from a
  server that may be away, in loops that set their own counters and run several
  times.

## 2. The modules

| Module | Models | Lines of code it stands for |
|---|---|---|
| `SnifferLog` | captured requests on their way into the tables | `SnifferThread.cpp`, `Sniffer.cpp`, `Database.cpp` 38-182 |
| `FlaggedLog` | what that promises: an append-only log whose last entry may be flagged and given keywords | abstract |
| `ReportCycle` | one or more reporters against one database and one sniffer | `ReportSubsystem.cpp`, `ReportBase.cpp`, `Report.cpp`, `Database.cpp` 275-326, 505-785 |
| `ReportDelivery` | what that promises: what is deleted was delivered | abstract |
| `Report` | what is in a report: its sections and parts, the attached file, two reporters and a sniffer at once | `Report.cpp` 30-334, `ReportBase.cpp` 25-147, `Database.cpp` 101-168, 505-785, `Options.cpp` 219-276 |
| `BootHistory` | wtmp and the three queries over it | `BootHistory.cpp` |
| `Sessions` | the program, its user and its computer over several boots; extends `BootHistory` | `Database.cpp` 330-501, `MainApplication.cpp` 65-74, 284-334 |
| `Filter` | whether a URL is suspicious, which keywords it has and how strong the match is | `Filter.cpp` 85-249, `MyXml.cpp` 64-120 |
| `Instances` | the instances between a boot and a halt, with the pidfile | `SnifferSubsystem.cpp`, `MainApplication.cpp` |
| `Startup` | configuration, texts and blacklist during the start | `Options.cpp`, `Request.cpp`, `ConfigSubsystem.cpp`, `Filter.cpp`, `Database.cpp` 243-271 |
| `SnifferLogProofs` | theorems about `SnifferLog` and its refinement of `FlaggedLog` | |
| `ReportCycleProofs`, `ReportProofs`, `InstancesProofs`, `StartupProofs`, `FilterProofs` | theorems about the modules of these names | |
| `SessionsProofs`, `BypassesProofs` | theorems about `Sessions`: what it reads and stores, and what it accuses of | |
| `MCSnifferLog`, `MCReportCycle`, `MCReport`, `MCFilter`, `MCSessions` | values and symmetry for TLC | |

Names follow the code. A step is one SQLite statement, one access to a shared
member, one exchange with a server, or one action on a file: what another thread
or process can come between. Wording, layout, logging and dates as text are left
out; a request, a file or an incident is a value that the properties can tell
from the others.

**SnifferLog.** `pc[t]` is where thread `t` is in `SnifferThread::run`,
`Sniffer::logUrl` and the three `log…` methods. `hostname`, `path`,
`blacklistMatch`, `keyword` and `lastRowId` are the unprotected members of
`Database`; `connRowId` is `last_insert_rowid()` of the connection, which
`getLastRowId` reads in a statement of its own. The fields `by`, `last` and `nth`
of a row record for whom it was written, and as which keyword: they are history
and the tables lack them.

**ReportCycle.** Each reporter walks through `initialize`, the constructor of
`ReportBase`, `Report::generate`, `send` and `logFinish`. `Fails` is the retry
loop: one more attempt, or on to whatever follows the loop, which differs from
loop to loop (a section stays empty, the report is dropped, the rotation is
left). `online` holds those of its two servers that can be reached: the mail
server, without which the message is sent again every 20 seconds, and the
program's own, to which `sendImprovementData` speaks in `Request::send`, which
does not return before it is answered. rowids are used again after a rotation,
as SQLite does. `logged`, `delivered` and `accepted` are history.

**Report.** Where `ReportCycle` has one step for a section and takes every part
as included, here a reporter goes through `Report::generate` statement by
statement: the join of `getWarnings`, then `getMatches` for each of its rows,
then the hostnames, the hostnames of each second-level domain, and the URLs of
each hostname. `job[p]` holds what the locals, `_body` and `_attached` hold.
`options` is one of the `Configurations`, so that a section may be in the body,
in the attached file, in both or in neither. `saveAttachedReport` lists the
directory, removes the files of other days, writes its file and attaches it or an
archive of it; `files` is the directory, which two reporters share. Statements
succeed here, as `ReportCycle` has their failures. `accepted`, `mailed` and
`deleted` are history; `mishaps` names what voids a promise: a request that is
being logged when a report starts (`split`), whose URL is then rotated before its
warning is stored (`orphaned`), a rotation while another process reads
(`rotated`), two that save at the same time (`overlap`) and a file that could not
be saved (`unsaved`). Each was found to be necessary: without it the property
that exempts it is violated.

**Sessions.** Boots, halts and crashes write wtmp (or do not); the user stops or
kills the program; the constructor of `Database` and `logSessionStart` draw
their conclusions. `outages` records what really happened, so that properties
compare the accusations with the truth. `mishaps` records which circumstances
occurred in a behaviour; each property names those under which it is claimed.
`ReadFile` says what the backward pass over wtmp leaves in `_boots`: the halt that
follows the last record of a boot. `ReadBackwards` is the pass itself, record by
record; the two are proved equal for any file (section 4), after the assumption
`ReadingAgrees` of `MCSessions` had TLC compare them on every file of up to four
records.

**Instances.** An instance is known by its pid. `refused`, `rightly` and
`slandered` record whether the check of the pidfile told the truth.

**Filter.** One step each for `isUrlMatch` and `isTokenMatch`, whose loops are
folds over the blacklist, the tokens and the keywords. What a regular expression
finds, and where the URL is split, is the input. `match` is the one
`BlacklistMatch` that `SnifferThread::run` uses for all requests. `SnifferLog`
takes from this that a packet has a fixed number of keywords, and none if it is
not flagged.

**Startup.** A file is missing, corrupt, changed or good. `tries` is the counter
`moreTries`, which the code sets to 0 to leave the loop. `found` records what
was ever noted, `first` how the files were found.

How they fit together: `Report` composes the sniffer, the reporters and the
directory; `ReportCycle` the sniffer, the reporters and the mail server. Both
reduce the sniffer to its inserts, which is what `ImplementsFlaggedLog` shows of
one thread. `SnifferLog` takes the verdict of the filter on a packet as given,
which `filter_any` shows it to be. `Sessions` takes the start and the sniffing as
wholes, and `Instances` the report and the session row.

## 3. The runs

Every run finishes within four minutes with two workers. Actions that only other
circumstances enable are enabled in some other run of the same module.

| Run | States | What it shows |
|---|---|---|
| `log_one` | 8,632 | One device: each request gets its rows once whatever is locked; warnings and keywords lead to their URL; the threads always listen again; the tables implement `FlaggedLog` until something is given up |
| `log_devices_lasturl` | violation | Two devices: a warning is stored with the rowid of another URL |
| `report_alone` | 793,628 | One process that may die anywhere in a report, with passing locks and two servers that come and go independently: nothing is deleted that was not delivered (also as a refinement of `ReportDelivery`), scheduled reports keep their distance, every report ends once both servers stay |
| `report_anything` | 3.4 million | Two processes, lasting locks, deaths of reporters and sniffer: a completed report was delivered |
| `report_contents` | 2.2 million | Two processes that report while the sniffer logs, on one day and the next: a report says of nobody what is not true, its mail carries its own file, and what is deleted was listed in every part the options ask for |
| `report_lockout` | violation | A section that could not be read is left out, and its rows are deleted |
| `sessions_any` | 1.1 million | Several boots, whatever the user does and up to one kind of mishap: every outage is reported, once, and nothing else is |
| `sessions_reset` | violation | A reset makes the program accuse its user of killing it |
| `instances_orderly` | 10,937 | Four instances one after another, deaths and used pids included: one sniffs and the pidfile names it |
| `instances_foreign` | violation | An instance that only reported and is interrupted removes the daemon's pidfile |
| `startup_any` | 104,222 | All states of the files, all answers of the server: the options and the blacklist in force are the server's, each damaged file is noted once, no sound one is, and the start ends |
| `filter_any` | 58,449 | Any requests in any order: the verdict, the keywords and the whitelist flag are those the blacklist gives by a definition without loops, and the strength is within a factor of two of what the hits weigh, with nothing left over from the request, token or keyword before |

The four violations are disagreements between the code and its own comments;
`PROJECT.json` quotes them under "findings".

### Bounds

* `log_one`: three packets, with none, one and two keywords, in any order, which
  gives a warning before and after a clean URL and a warning with a second
  keyword; `Finished = 1`, that is two attempts, so that both "again" and "given
  up" happen. `logUrl`, `logWarning` and `logMatch` have eleven attempts
  (`FINISHED = 10`); nothing depends on their number (the theorems of
  `SnifferLogProofs` hold for any). `log_devices_lasturl`:
  two threads, two packets, for the same reasons.
* `report_alone`: two requests, one of them flagged, one bypass, up to two
  reports, a clock that takes three values with a period of two, so that the
  second report may come too early, in time or not at all. `report_anything`: two
  reporters that are interchangeable, and one flagged request; one attempt per
  statement, as a second would only repeat it; only the mail server may be away,
  as waiting for the other is the same to an invariant as not being scheduled.
* `report_contents`: three requests, of which two share a keyword, one is weaker
  than the threshold of one configuration and one is whitelisted; two hostnames,
  one of which ends in the domain of the other without belonging to it; two
  configurations, one with everything in the body and in the file, one with a
  short body and the rest in an archive; two reports, two days. Of two processes
  one reads at a time, and nothing is logged while two reports are under way, nor
  once the last one has started, unless the tables were rotated since. None
  starts to read while another saves, for reading has nothing in common with
  the directory. The date changes while a report waits to be mailed. A behaviour
  has one kind of mishap. `Bounded` is what puts these bounds into the guards of
  `Report`; with one request and without them the same properties hold, and the
  theorems of section 4 hold for either value.
* `sessions_any`: five units of time, that is up to five boots of which one may
  be slow, a gap of one unit allowed after a boot and of none between two
  starts, one deed of the user and one kind of mishap. With a longer clock, with
  two kinds of mishap or with two deeds the same properties hold; these take
  longer than is useful for every change.
* `instances_orderly`: four instances: one that leaves a pidfile behind, one that
  replaces it, one that only reports, one that comes last.
* `filter_any`: two words and three keywords (one whitelisted with a negative
  strength, one that needs both words), up to two tokens, one of which may be too
  short to count, and every combination of hits in the URL and in its tokens. The
  verdict on a URL depends on the match left behind by any other.
* `startup_any`: the files and the answers have a few states each, and the
  three tries are those of the code.

### Fairness

* `SnifferLog`: weak fairness of each thread's statements, not of the arrival of
  packets. A statement either succeeds or throws; which one is not assumed.
* `ReportCycle`: weak fairness of each reporter's next step, be it progress or
  failure. Nobody has to ask for a report. That both servers can be reached for
  good is a premise of `CycleEnds` and not an assumption, and neither half of it
  can be dropped: TLC then finds the report that is sent again every 20 seconds
  (`ReportSubsystem.cpp:62-66`), and the one whose mail was accepted and that waits
  in `Request::send` (`ReportBase.cpp:210`, `Request.cpp:99-139`). In either the
  sniffer is not started. That a message fails for another reason, which ends the
  report, is possible at each attempt and never assumed.
* `Sessions`: weak fairness of the program's steps: once started, it is run.
* `Startup`: weak fairness of the program's steps; again the reachability of the
  server is a premise of `StartEnds`. The report is one step of that start, so that
  the waits of `CycleEnds` are not in its claim.

All four rest on the scheduler of the operating system alone.

## 4. What is proved

`SnifferLogProofs`, for any number of packets, keywords and attempts, and
whatever is locked:

* `TypeCorrect`: `Spec => []TypeOK`, for any number of threads.
* `LastUrlCorrect`, `OneThreadCorrect` and `KeywordsCorrect`: with a single
  thread, `WarningOnLastUrl`, `WarningAccusesItsUrl` and `KeywordsFollowWarning`
  always hold. The properties are not inductive: that a warning leads to its URL
  depends on what the shared members hold between the statements. `OneThreadInv`
  adds that (`InFlight`: the members hold the thread's own request when its
  statement runs, and `lastRowId` is the last URL), that nothing is written before
  its turn (`NothingEarly`) and that every row is whole (`UrlsAreWhole`). The proof
  has one lemma per action; the last step combines them. It rests on
  `SnifferLogAssumption`, and on there being a single thread; `log_devices_lasturl`
  shows that it does not hold without that.
* `RowsCorrect`: with any number of threads, `RowsPerRequest` always holds: each
  thread writes one row of `urls` and one of `warnings` for a request, and each
  keyword once, however often a statement is retried, unless it gives up. What
  two threads do to each other's hostname, match and rowid does not matter here,
  and the invariant `RowsInv` says why: how many rows there are depends on where
  the thread that has the request stands (`Tracked`: before its URL, before its
  warning, or at the n-th keyword), and nobody else has that request. The proof
  has one lemma for a step of the sniffer that writes no row, one for each step
  that does, and one for giving up; `KeywordsInBounds` says that the loop of
  `logMatch` stays within its keywords.

What a single thread writes, in the same module:

* `LoggedOnceCorrect`: `LoggedExactlyOnce`. `OneThreadInv` gives each row to the
  request it is about, `RowsPerRequest` says how many rows a request has, and
  `WordsAreOwn`, which is proved first, that a row of `matches` has the keyword
  whose turn it was; together these say what is found for a request.
* `FlaggedLogImplemented`: `SnifferLog` implements `FlaggedLog` as long as nothing
  has been given up. Inserting a URL is `Visit`, a warning `Flag`, a keyword
  `AddWord`, and every other step stutters. What the mapping makes of `urls`,
  `warnings` and `matches` changes with an insert only in the last entry, which is
  what `OneThreadInv` is needed for.

`ReportCycleProofs`, for any requests, incidents, attempts, number of reports and
length of time:

* `TypeCorrect`: `Spec => []TypeOK`, for any number of reporters and all
  situations. The strengthening `TypeInv` says that a report which is read or
  mailed has been recorded, and that the rowids are bounded, from which
  `BoundedHasMax` and `NextRowIdIsNew` get a new one.
* `CompletedCorrect`: `CompletedWasDelivered`, again for any number of reporters
  and all situations, since nobody gets to `logReportFinish` but by way of an
  accepted message (`AcceptedInv`).
* `ScheduleCorrect`: `ScheduledOncePerPeriod` for a single reporter in all
  situations. The report under way is the last one, and when a scheduled one
  started, all completed ones were old enough (`ScheduleInv`).
* `NothingLost`, `WarningsCorrect` and `MailCorrect`: `OnlyIncludedDeleted`,
  `WarningsLeadHome` and `MailAccusesFlagged` for one process that reports, may die in a report, and
  sniffs (`Alone`). The inductive invariant `AloneInv` says what the mail lists at
  each statement of `Report::generate` (`Reading`), that no table changes
  meanwhile, that rowids are unique, and that every warning has a keyword unless
  it is being inserted or was delivered (`HasKeyword`); the latter is what a death
  between `deleteMatches` and `deleteWarnings` needs. That `Alone` cannot be
  dropped is what `report_lockout` and section 5 show.
* `DeliveryImplemented`: under `Alone`, `ReportCycle` implements
  `ReportDelivery`: inserts are `Log`, accepted mails are `Deliver`, the
  statements of the rotation are `Rotate`, and the rest are stuttering steps.

`ReportProofs`, for any requests, incidents, options, days, number of reports and
of processes that report, with or without the bounds that `Bounded` puts on TLC's runs,
that is with the sniffer inserting and the date changing between any two statements:

* `TypeCorrect`. The invariant `TypeInv` keeps the cursor over the warnings within
  its rows. `NumberInv` bounds the number that `saveAttachedReport` looks for: no
  file has a higher one than there are reports that were started and are past
  their writing, so that it cannot exceed the number of reports.
* `FilesInMails`: `MailIsOwn`. Files are told apart by their names and none is of a
  day to come (`NamesInv`). At most one process is in `saveAttachedReport`
  (`OneSaves`); a file that waits for its mail stays its report's own, for another
  process has yet to enumerate its name or is past its number (`Waits`, `Apart`).
* `NothingFalselyListed`: `ListedJustly`. Rows of `urls` are told apart by rowid and
  by request (`KeysInv`), each warning and match leads to a row of its own request,
  also while the sniffer has inserted only some of them (`TablesInv`), and each
  item that a reporter holds, whichever statement it comes from, is true
  (`JustInv`).
* `NothingDeletedUnseen`: `DeletedWasMailed`. What is older than a report is in the
  tables with all its rows when the report begins, and remains there until it is
  deleted (`StoredInv`); from then on the report has it section by section as the
  cursors move on, then in the body or in its file, then in the mail (`CoverInv`),
  and the file is its own since reports under way have distinct numbers (`ByInv`)
  and by `MailInv`. Two reports may cover the same request: when one deletes it, it was
  in a mail, and the other need not cover it any more.

  These theorems rest on `ReportAssumption`: the requests are finitely many and no
  incidents, strengths are natural numbers, a hostname ends in its domain, and
  options name parts of a report. The properties except what `mishaps` tells, which
  the code does not prevent either: two processes that look for a name at once, a
  file that cannot be saved, a request logged in the midst of a report's start, a
  rotation between the statements of another report or of one request.

`InstancesProofs`, for any set of instances, under `Orderly` (no two start at the
same time, and only the one that sniffs is sent a signal; pids may be used again):

* `AlwaysOneAtATime`: the inductive invariant `OneAtATime`, which adds to the
  properties that at most one instance is starting, that nobody sniffs once it is
  past the check, and that its session is open by then.
* `OneSnifferTheorem`: two never sniff at a time. `OnRecordTheorem`: the pidfile
  names the one that does, and its session is open.
* `GivesWayTheorem`: an instance gives way only to an instance, as long as no
  pid was used again.

`StartupProofs`, for whatever state the files are in when the program starts and
whatever the server answers:

* `TypeCorrect`, for any number of tries; in particular `moreTries`, which the code
  sets to 0 to leave a loop, is never counted below.
* `JustlyCorrect`: `FoundJustly`, for any number of tries and refusals: a file is
  as it was found or is the server's (`FilesInv`), so that what is noted of it
  when it is looked at again was so from the start.
* `ValuesCorrect`, `FilterCorrect` and `NotedOnceCorrect`: `ValuesFromFile`,
  `FiltersWithServersList` and `FoundOnce` for `Tries >= 2`. The code has three
  tries (`Options.cpp:208`); with one, TLC finds each of the three violated, for a
  file that was replaced is then not loaded. The invariant `AnsweredInv` says for
  each label what has been done by then (`StageInv`), what is still to be noted,
  and that a second try is left when the first replaced the file.

`SessionsProofs`, for any gaps that are allowed, any number of boots, deeds of the
user and attempts:

* `TypeCorrect`.
* `ReadFileCorrect`: `ReadFile` is what the loop of `BootHistory::readFile`
  computes, for any file. What was read after some of the records is said by
  `HasRead`, `ReadRecordIs` shows that one more record leads from one to the next,
  and the fold, taken from the last record to the first, is that at every turn.
* `HistoryCorrect`: `HistoryIsTrue`. wtmp has no record of a crash, so what is
  read has to be related to what the computer went through: the sessions follow
  one another (`ComputerInv`), wtmp has a record of each boot and one of each halt
  right after that of its boot (`WtmpInv`), and therefore the map that
  `ReadFile` builds gives each boot its own halt, or if it crashed the halt or the
  boot time of a later one, which `HaltTime` notices (`ReadInv`).
* `SessionOpenCorrect`: `SessionIsOpen`. The table has at most one row, and where
  the program is tells of which boot (`TableInv`); while it is down, the row shows
  how it went down (`DownInv`). A failed statement leads back to where that still
  holds, which is why a lock that lasts is excepted.

`BypassesProofs`, likewise:

* `AccusationsCorrect`: `NoFalseAccusation`; `OutagesCorrect`:
  `EveryOutageReported`; `OnceCorrect`: `AccusedOnce`. The bypasses are concluded
  long after the outages, from the table and from wtmp, so the argument keeps
  account of what is due: `Due(x, pc)` says that the table and wtmp show the
  bypass `x`, so that this start of the program or the next one logs it. A start
  and a halt make the outage due that they put an end to, what is logged was due
  until then, and no other step changes what is due. Everything logged or due
  is then the user's doing (`AnswerableInv`), every outage is logged or due
  (`ToldInv`), and the bypasses logged or due are no more than the outages
  (`OnceInv`). `CrashInv` says what a crash leaves behind.

  This corrected `EveryOutageReported`, which used to promise too much: the proof
  asks that a bypass which is due stays due until it is logged, and the omitted
  sessions are not, when the computer crashes after the row of the last known
  session is deleted and before they are looked for. TLC finds the behaviour with
  a clock one longer than that of `sessions_any`; see section 5.

`FilterProofs`, for any blacklist, extensions, URLs and numbers of tokens and hits:

* `TypeCorrect`, `VerdictCorrect`, `MatchCorrect` and `StrengthCorrect`: the four
  properties of `Filter`, from the invariant `FilterInv`. It adds to them that
  there is a URL while one is matched, and that a keyword which is not whitelisted
  was found when `isTokenMatch` is called.

The steps of `Filter` are whole loops, so that the work is in saying what they
compute. A fold is defined as the value of a function chosen to solve a recursion
over the subsets of its indices, and nothing is known of it before such a function
is shown to exist: `FoldExists` does that for any finite set, and `LoopIs` then
gives the values after each turn of a loop. The induction this takes is over sets
of numbers (`Inductive`), as the library's own induction theorems take an operator
as a parameter. Sums get the facts they need in the same way: a term may be taken
out (`SumIs`), and sums are added term by term (`SumAdds`). With these:

* `UrlMatchIs`: after k keywords of the blacklist the match tells of those of the
  first k that are found in the URL (`MatchOf`), each once.
* `MatchKeywordIs`, `KeywordLoopIs`: a keyword of a token gains between once and
  twice what its hits weigh, because the number of hits the loop divides by is at
  least 1; all the keywords of the match, none of which comes twice, gain the sum.
* `TokenGained`, `TokenMatchIs`: the tokens gain, keyword by keyword, what its hits
  weigh in all of them (`LowUpto`, `HighUpto`).
* `ToStrengthIsBetween`: the factor of an extension and the conversion to int keep
  the order, or if the factor is negative turn it around.

TLC checks the properties themselves in the runs of section 3, and the invariants
above were checked with it on the same instances.

Only model-checked: the liveness properties, which are beyond the prover:
`BackToListening`, `CycleEnds`, and `StartEnds` of `Sessions` and of `Startup`.
Every other property of a passing run is a theorem, some of them for the
circumstances named above.

## 5. Known limits of the program

Met while modelling; each is outside the circumstances under which a property is
claimed, and the properties say so.

* With several devices URLs are stored as mixtures of two requests, or twice and
  not at all (`Database.cpp:106`); keywords go astray likewise.
* When `logUrl` gives up, the warning is connected to the URL before
  (`SnifferThread.cpp:96`).
* A row is stamped before it is inserted (`Database.cpp:109`): if another
  process finishes a report meanwhile, the row may be deleted unreported.
* A process that dies between `logWarning` and `logMatch` leaves a warning without
  keywords, which no report lists.
* A bypass is stored with the time of the incident (`Database.cpp:218`): a report
  of another process that is under way may delete it unread.
* A URL that is rotated before its warning is stored leaves the warning to the
  next URL that gets the rowid, which a report then accuses, or whitelists
  (`Database.cpp:516`); the same happens to the keywords if another process
  rotates the tables between `getWarnings` and `getMatches`.
* Two reporters that save at the same time may choose the same file
  (`Report.cpp:307`), and one of them mails that of the other. A report whose file
  cannot be saved is mailed without it, and rotates the tables (`Report.cpp:329`).
  A report that waits for the mail server overnight loses its file to the next one
  (`Report.cpp:304`) and is given up, but nothing of it is deleted.
* A request without a hostname is in no history and is deleted all the same
  (`Database.h:96`).
* A name that contains `{name}` keeps `replaceVar` going for ever
  (`ReportBase.cpp:220`).
* If `prevBoot`, which nothing sets when the boot has no session yet, holds the
  boot time by chance, a bypass may be logged and no session is
  (`Database.cpp:357`).
* An announcement of an installation rotates the log though it lists nothing.
* Two processes that find a scheduled report due both send it; a process that
  runs on never sends a second one.
* A session that crashed and in which the program never ran is reported as omitted
  (`BootHistory.cpp:536`), and one in which it started slowly is not recorded
  (`BootHistory.cpp:494`).
* The row of the last known session is deleted before the omitted sessions after it
  are looked for (`Database.cpp:466`). If the computer crashes between the two, the
  next start knows no session before them and never reports them.
* Bypasses are logged again if the deletion of their session fails
  (`Database.cpp:466`).
* Instances that start together both pass the check (`SnifferSubsystem.cpp:56`),
  and a pid that another program has now stops every start.
* What the start finds wrong with the files is noted in memory and then lost:
  the statement of `logInitBypasses` has four parameters and is given one value,
  and what `ConfigSubsystem` finds comes after it (`Database.cpp:251`).
* A keyword of little strength that stands before a strong one in the blacklist
  can make a URL that has both weaker than one that has the strong one only:
  `tokenMatches` is not reset between keywords (`Filter.cpp:163`). A whitelisted
  keyword in a token confirms the match of another that is in none.
* Without a blacklist the options of a replaced configuration stay in force
  (`Request.cpp:79`); if the server keeps refusing, there are none.
* While the program's own server is away, a report whose mail was accepted is
  neither rotated nor completed, and no sniffer starts (`ReportBase.cpp:210`).

## 6. What is not modelled

* The logger, the option parser, `Plugin` and the scripts: no state that the
  properties are about.
* The wording and the layout of reports, `sendCout` and `sendToFile`; the getters
  of `History`, `Warnings` and `Bypasses`; archives that a size of ten megabytes
  makes necessary (`Configurations` say whether there is one).
* The regular expressions, and the rounding of floats; that a keyword matches the
  empty string. In `ReportCycle` a flagged request is above the report's threshold.
* A signal handler that interrupts another, and a `Database` that is used after
  its deletion by a reset.
* Daylight saving time and clocks that are set: there is one clock that never goes
  back. Computer and server agree to the 15 seconds of `modifiedFilesUpdate`.
* `logReportStart` treats an exception other than a lock as the others treat a
  lock; the models do not tell them apart.
* Some failures are taken as a whole. `getMatches` gives up row by row
  (`Database.cpp:761-784`), `ReportCycle` all rows at once (`Report` has the rows one
  by one, without failures); a halt during the start of the program
  (`MainApplication.cpp:71-72`) is a crash in `Sessions`; an answer of the server
  that can be parsed but has no times, for which `modifiedFilesUpdate` replaces both
  files (`Request.cpp:69`, `:78`), is in `Startup` one that cannot be parsed; reading
  `last_insert_rowid()` cannot fail in `SnifferLog`.
* A lock takes no time in `Sessions`, unless the start is `slow` anyway.
* `Instances` takes it that the boot time can be read from wtmp; `Sessions`
  covers that it cannot.

## 7. Plan

The order was: the log first, as every report depends on it; then the cycle of
the reports, the sessions, the instances, the start, the filter and the contents
of the reports. What is left is a composition of `Startup`, `ReportCycle` and
`Sessions`: one life of the program, in which a report delays `logSessionStart`
and the bypasses found are those that are mailed.
