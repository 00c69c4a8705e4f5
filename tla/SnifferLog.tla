----------------------------- MODULE SnifferLog -----------------------------
(***************************************************************************)
(* How a captured HTTP request reaches the database: the threads of        *)
(* Sniffer (one SnifferThread per network device, or a single one on the   *)
(* device "any"), the fields of the one Database object that they share    *)
(* without a lock, and the three tables they fill.                         *)
(*                                                                         *)
(* A step is one access to a shared field of Database or one SQLite        *)
(* statement, which is atomic.  The tables only grow here (another process *)
(* that rotates them is the subject of module ReportCycle), so the rowid   *)
(* SQLite gives to a new row is its position in the table.                 *)
(*                                                                         *)
(* A packet stands for the request it carries; the words of packet p that  *)
(* the filter finds are <<p, 1>>, ..., <<p, Matches[p]>>, and the packet   *)
(* is flagged iff there is at least one.                                   *)
(***************************************************************************)
EXTENDS Naturals, Sequences, FiniteSets

CONSTANTS Threads,     \* the SnifferThreads whose device could be opened
          Packets,     \* the packets the devices will capture
          Matches,     \* the number of keywords the filter finds in a packet
          Finished,    \* FINISHED, the index of the last attempt of a statement
          MayGiveUp,   \* whether a lock can outlast all the attempts
          StaleRowIds, \* what _lastRowId may hold before the first URL
          None         \* no packet

ASSUME SnifferLogAssumption ==
    /\ Matches \in [Packets -> Nat]
    /\ Finished \in Nat
    /\ MayGiveUp \in BOOLEAN
    /\ StaleRowIds \subseteq Nat
    /\ None \notin Packets

VARIABLES
    \* each thread's own variables
    pc,             \* the statement it is about to execute
    request,        \* the request of the packet it is logging
    attempt,        \* i, the index of the attempt of the statement
    key,            \* the position of it in match.keyword
    \* the fields of Database, shared by the threads
    hostname, path, \* bound to _logUrlStatement
    blacklistMatch, \* bound to _logWarningStatement
    keyword,        \* bound to _logMatchStatement
    lastRowId,      \* where _getLastRowId puts its result
    \* the SQLite connection and its tables
    connRowId,      \* last_insert_rowid() of the connection
    urls, warnings, matches,
    \* the environment, and what was given up (a history variable)
    pending,        \* the packets not captured yet
    skipped,        \* the packets without a readable request
    abandoned       \* the rows whose statement failed on the last attempt

threadVars == <<pc, request, attempt, key>>
fields     == <<hostname, path, blacklistMatch, keyword, lastRowId>>
tables     == <<connRowId, urls, warnings, matches>>
envVars    == <<pending, skipped>>
vars       == <<threadVars, fields, tables, envVars, abandoned>>

\* The k-th keyword of a packet, or what the fields hold before the first one.
Words  == (Packets \cup {None}) \X Nat
NoWord == <<None, 0>>

\* The fields by, last and nth record which request a row was written for, the
\* last row of urls at that time and the position of the keyword in the loop of
\* logMatch: they are history, the tables lack them.
UrlRow     == [host : Packets \cup {None}, path : Packets \cup {None}, by : Packets]
WarningRow == [urlId : Nat, match : Packets \cup {None}, by : Packets, last : Nat]
MatchRow   == [urlId : Nat, word : Words, by : Packets, nth : Nat]

\* A statement that may be given up: the row of urls or of warnings of a
\* packet, or the k-th row of matches.
Statements == {"url", "warning", "match"} \X Packets \X Nat

Labels == {"next", "setHostname", "setPath", "insertUrl", "getLastRowId",
           "setMatch", "insertWarning", "setKeyword", "insertMatch", "done"}

Init ==
    /\ pc = [t \in Threads |-> "next"]
    /\ request = [t \in Threads |-> None]
    /\ attempt = [t \in Threads |-> 0]
    /\ key = [t \in Threads |-> 0]
    /\ hostname = None
    /\ path = None
    /\ blacklistMatch = None
    /\ keyword = NoWord
    /\ lastRowId \in StaleRowIds
    /\ connRowId = lastRowId
    /\ urls = <<>>
    /\ warnings = <<>>
    /\ matches = <<>>
    /\ pending = Packets
    /\ skipped = {}
    /\ abandoned = {}

-----------------------------------------------------------------------------
Goto(t, label) == pc' = [pc EXCEPT ![t] = label]

\* Where the thread goes after logUrl: on to logWarning if isMatch.
AfterUrl(t) == IF Matches[request[t]] > 0 THEN "setMatch" ELSE "next"

\* A slip: the loop ends before the last keyword.
NextKeywordButLast(t) ==
    IF key[t] + 1 < Matches[request[t]]
    THEN /\ key' = [key EXCEPT ![t] = @ + 1]
         /\ Goto(t, "setKeyword")
    ELSE /\ UNCHANGED key
         /\ Goto(t, "next")

\* The loop of logMatch goes on to the next keyword, or ends.
NextKeyword(t) ==
    IF key[t] < Matches[request[t]]
    THEN /\ key' = [key EXCEPT ![t] = @ + 1]
         /\ Goto(t, "setKeyword")
    ELSE /\ UNCHANGED key
         /\ Goto(t, "next")

\* Slips in the loops: one attempt too many, an index that is not counted.
RetryOnceMore(t, label) ==
    /\ attempt[t] <= Finished
    /\ attempt' = [attempt EXCEPT ![t] = @ + 1]
    /\ Goto(t, label)
    /\ UNCHANGED <<request, key, fields, tables, envVars, abandoned>>

RetryUncounted(t, label) ==
    /\ Goto(t, label)
    /\ UNCHANGED <<request, attempt, key, fields, tables, envVars, abandoned>>

\* A statement throws, as the database is locked or for any other reason: the
\* loop around it starts the next attempt, at label again, or gives up after
\* the last one.
Retry(t, label) ==
    /\ attempt[t] < Finished
    /\ attempt' = [attempt EXCEPT ![t] = @ + 1]
    /\ Goto(t, label)
    /\ UNCHANGED <<request, key, fields, tables, envVars, abandoned>>

GiveUp(t, what) ==
    /\ MayGiveUp
    /\ attempt[t] = Finished
    /\ attempt' = [attempt EXCEPT ![t] = 0]
    /\ abandoned' = abandoned \cup {what}
    /\ UNCHANGED <<request, fields, tables, envVars>>

-----------------------------------------------------------------------------
\* SnifferThread::run: pcap_next_ex returns a packet.  It is dropped when
\* gotPacket leaves the request empty, else filtered and handed to logUrl.
SkipPacket(t, p) ==
    /\ pc[t] = "next"
    /\ p \in pending
    /\ pending' = pending \ {p}
    /\ skipped' = skipped \cup {p}
    /\ UNCHANGED <<threadVars, fields, tables, abandoned>>

GotRequest(t, p) ==
    /\ pc[t] = "next"
    /\ p \in pending
    /\ pending' = pending \ {p}
    /\ request' = [request EXCEPT ![t] = p]
    /\ attempt' = [attempt EXCEPT ![t] = 0]
    /\ Goto(t, "setHostname")
    /\ UNCHANGED <<key, fields, tables, skipped, abandoned>>

\* pcap_next_ex returns an error: the thread ends, and Sniffer::run, which
\* waits in joinAll, returns when all have ended.
StopCapture(t) ==
    /\ pc[t] = "next"
    /\ Goto(t, "done")
    /\ UNCHANGED <<request, attempt, key, fields, tables, envVars, abandoned>>

JoinAll ==
    /\ \A t \in Threads : pc[t] = "done"
    /\ UNCHANGED vars

-----------------------------------------------------------------------------
\* Database::logUrl
\* A slip: the statement is bound to a copy of its first hostname.
SetHostnameOnce(t) ==
    /\ pc[t] = "setHostname"
    /\ hostname' = IF hostname = None THEN request[t] ELSE hostname
    /\ Goto(t, "setPath")
    /\ UNCHANGED <<request, attempt, key, path, blacklistMatch, keyword,
                   lastRowId, tables, envVars, abandoned>>

SetHostname(t) ==
    /\ pc[t] = "setHostname"
    /\ hostname' = request[t]
    /\ Goto(t, "setPath")
    /\ UNCHANGED <<request, attempt, key, path, blacklistMatch, keyword,
                   lastRowId, tables, envVars, abandoned>>

SetPath(t) ==
    /\ pc[t] = "setPath"
    /\ path' = request[t]
    /\ Goto(t, "insertUrl")
    /\ UNCHANGED <<request, attempt, key, hostname, blacklistMatch, keyword,
                   lastRowId, tables, envVars, abandoned>>

\* A slip: the loop goes on after a success, without i = FINISHED.
InsertUrlAgain(t) ==
    /\ pc[t] = "insertUrl"
    /\ urls' = Append(urls, [host |-> hostname, path |-> path, by |-> request[t]])
    /\ connRowId' = Len(urls) + 1
    /\ IF attempt[t] < Finished
       THEN /\ attempt' = [attempt EXCEPT ![t] = @ + 1]
            /\ Goto(t, "setHostname")
       ELSE /\ UNCHANGED attempt
            /\ Goto(t, "getLastRowId")
    /\ UNCHANGED <<request, key, fields, warnings, matches, envVars, abandoned>>

InsertUrl(t) ==
    /\ pc[t] = "insertUrl"
    /\ urls' = Append(urls, [host |-> hostname, path |-> path, by |-> request[t]])
    /\ connRowId' = Len(urls) + 1
    /\ Goto(t, "getLastRowId")
    /\ UNCHANGED <<request, attempt, key, fields, warnings, matches, envVars,
                   abandoned>>

UrlFails(t) ==
    /\ pc[t] = "insertUrl"
    /\ \/ Retry(t, "setHostname")
       \/ /\ GiveUp(t, <<"url", request[t], 0>>)
          /\ Goto(t, AfterUrl(t))
          /\ UNCHANGED key

\* SELECT last_insert_rowid() reads no table, so no lock can fail it.
GetLastRowId(t) ==
    /\ pc[t] = "getLastRowId"
    /\ lastRowId' = connRowId
    /\ attempt' = [attempt EXCEPT ![t] = 0]
    /\ Goto(t, AfterUrl(t))
    /\ UNCHANGED <<request, key, hostname, path, blacklistMatch, keyword,
                   tables, envVars, abandoned>>

-----------------------------------------------------------------------------
\* Database::logWarning
SetMatch(t) ==
    /\ pc[t] = "setMatch"
    /\ blacklistMatch' = request[t]
    /\ Goto(t, "insertWarning")
    /\ UNCHANGED <<request, attempt, key, hostname, path, keyword, lastRowId,
                   tables, envVars, abandoned>>

\* A slip: logWarning reads the rowid too, as logUrl does.
InsertWarningReadsRowId(t) ==
    /\ pc[t] = "insertWarning"
    /\ warnings' = Append(warnings, [urlId |-> lastRowId, match |-> blacklistMatch,
                                     by |-> request[t], last |-> Len(urls)])
    /\ connRowId' = Len(warnings) + 1
    /\ lastRowId' = connRowId'
    /\ attempt' = [attempt EXCEPT ![t] = 0]
    /\ key' = [key EXCEPT ![t] = 1]
    /\ Goto(t, "setKeyword")
    /\ UNCHANGED <<request, hostname, path, blacklistMatch, keyword, urls, matches, envVars,
                   abandoned>>

InsertWarning(t) ==
    /\ pc[t] = "insertWarning"
    /\ warnings' = Append(warnings, [urlId |-> lastRowId, match |-> blacklistMatch,
                                     by |-> request[t], last |-> Len(urls)])
    /\ connRowId' = Len(warnings) + 1
    /\ attempt' = [attempt EXCEPT ![t] = 0]
    /\ key' = [key EXCEPT ![t] = 1]
    /\ Goto(t, "setKeyword")
    /\ UNCHANGED <<request, fields, urls, matches, envVars, abandoned>>

\* Without its row in warnings logMatch is not called.
WarningFails(t) ==
    /\ pc[t] = "insertWarning"
    /\ \/ Retry(t, "setMatch")
       \/ /\ GiveUp(t, <<"warning", request[t], 0>>)
          /\ Goto(t, "next")
          /\ UNCHANGED key

-----------------------------------------------------------------------------
\* Database::logMatch, one row per keyword.  It runs inside the try block of
\* logWarning but catches everything itself.
SetKeyword(t) ==
    /\ pc[t] = "setKeyword"
    /\ keyword' = <<request[t], key[t]>>
    /\ Goto(t, "insertMatch")
    /\ UNCHANGED <<request, attempt, key, hostname, path, blacklistMatch,
                   lastRowId, tables, envVars, abandoned>>

InsertMatch(t) ==
    /\ pc[t] = "insertMatch"
    /\ matches' = Append(matches, [urlId |-> lastRowId, word |-> keyword,
                                   by |-> request[t], nth |-> key[t]])
    /\ connRowId' = Len(matches) + 1
    /\ attempt' = [attempt EXCEPT ![t] = 0]
    /\ NextKeyword(t)
    /\ UNCHANGED <<request, fields, urls, warnings, envVars, abandoned>>

MatchFails(t) ==
    /\ pc[t] = "insertMatch"
    /\ \/ Retry(t, "setKeyword")
       \/ /\ GiveUp(t, <<"match", request[t], key[t]>>)
          /\ NextKeyword(t)

-----------------------------------------------------------------------------
\* What a thread does on its own once it has a request: whether a statement
\* succeeds is not its choice, but something happens to it.
LogStep(t) ==
    \/ SetHostname(t)
    \/ SetPath(t)
    \/ InsertUrl(t)
    \/ UrlFails(t)
    \/ GetLastRowId(t)
    \/ SetMatch(t)
    \/ InsertWarning(t)
    \/ WarningFails(t)
    \/ SetKeyword(t)
    \/ InsertMatch(t)
    \/ MatchFails(t)

CaptureStep(t) ==
    \/ \E p \in Packets : SkipPacket(t, p)
    \/ \E p \in Packets : GotRequest(t, p)
    \/ StopCapture(t)

Next ==
    \/ \E t \in Threads : CaptureStep(t)
    \/ \E t \in Threads : LogStep(t)
    \/ JoinAll

Spec == Init /\ [][Next]_vars

\* The operating system runs every thread; packets need not arrive.
FairSpec == Spec /\ \A t \in Threads : WF_vars(LogStep(t))

-----------------------------------------------------------------------------
(***************************************************************************)
(* Properties.                                                             *)
(***************************************************************************)

\* Every variable stays in its type (of the tables, the rows written).
TypeOK ==
    /\ pc \in [Threads -> Labels]
    /\ request \in [Threads -> Packets \cup {None}]
    /\ \A t \in Threads : pc[t] \notin {"next", "done"} => request[t] \in Packets
    /\ attempt \in [Threads -> 0..Finished]
    /\ key \in [Threads -> Nat]
    /\ hostname \in Packets \cup {None}
    /\ path \in Packets \cup {None}
    /\ blacklistMatch \in Packets \cup {None}
    /\ keyword \in Words
    /\ lastRowId \in Nat
    /\ connRowId \in Nat
    /\ urls \in Seq(UrlRow)
    /\ warnings \in Seq(WarningRow)
    /\ matches \in Seq(MatchRow)
    /\ pending \subseteq Packets
    /\ skipped \subseteq Packets
    /\ abandoned \subseteq Statements

\* The rows of urls that were written for packet p.
UrlsOf(p) == {u \in 1..Len(urls) : urls[u].by = p}

\* The rows of warnings that were written for packet p.
WarningsOf(p) == {w \in 1..Len(warnings) : warnings[w].by = p}

\* "Log a Warning that is flagged by the Filter.  It is connected to the last
\* URL inserted" (Database.h:162-163): once there is a URL, a warning carries
\* the rowid of the URL last inserted by anyone, or last inserted by its own
\* thread, whichever reading of that comment is meant.
WarningOnLastUrl ==
    \A w \in 1..Len(warnings) : warnings[w].last > 0 =>
        warnings[w].urlId \in {warnings[w].last} \cup UrlsOf(warnings[w].by)

\* A warning accuses the very request that the filter flagged: its urlId leads
\* to the URL of that request and its text is the filter's text on it, unless
\* that URL could not be logged at all.  A unit test of logUrl or of logWarning
\* alone cannot see this: it depends on what runs between the two.
WarningAccusesItsUrl ==
    \A w \in 1..Len(warnings) : LET p == warnings[w].by IN
        /\ warnings[w].match = p
        /\ UrlsOf(p) # {} =>
              /\ warnings[w].urlId \in UrlsOf(p)
              /\ urls[warnings[w].urlId].host = p
              /\ urls[warnings[w].urlId].path = p

\* The keywords listed under a warning are those the filter found in the URL
\* the warning is about, although the urlId of each is read again from the
\* field lastRowId after other statements have run.
KeywordsFollowWarning ==
    \A m \in 1..Len(matches) :
        /\ matches[m].word[1] = matches[m].by
        /\ \E w \in WarningsOf(matches[m].by) : warnings[w].urlId = matches[m].urlId

\* Packet p was read and no thread is logging it any more.
Settled(p) ==
    /\ p \notin pending \cup skipped
    /\ \A t \in Threads : request[t] = p => pc[t] \in {"next", "done"}

MatchesOf(p, k) == {m \in 1..Len(matches) : matches[m].word = <<p, k>>}

\* The rows of matches that were written for the k-th keyword of packet p.
MatchRowsOf(p, k) == {m \in 1..Len(matches) : matches[m].by = p /\ matches[m].nth = k}

\* S has exactly one element, or none if the statement that adds it was given up.
OneOrAbandoned(S, statement) ==
    IF statement \in abandoned THEN S = {} ELSE \E x \in S : S = {x}

\* The retry loops write for every request exactly the rows it needs, with any
\* number of threads: no retry writes a row a second time and none is missing
\* except those given up on the last attempt; a warning only for a flagged
\* request, and then a row for each of its keywords.
RowsPerRequest ==
    /\ \A p \in Packets : Settled(p) =>
          /\ OneOrAbandoned(UrlsOf(p), <<"url", p, 0>>)
          /\ IF Matches[p] = 0 THEN WarningsOf(p) = {}
             ELSE OneOrAbandoned(WarningsOf(p), <<"warning", p, 0>>)
          /\ WarningsOf(p) # {} => \A k \in 1..Matches[p] :
                 OneOrAbandoned(MatchRowsOf(p, k), <<"match", p, k>>)
    /\ \A m \in 1..Len(matches) : matches[m].nth \in 1..Matches[matches[m].by]

\* With a single thread those rows also say what the request was: its URL is
\* found once, under its own hostname and path, and each of its keywords once.
LoggedExactlyOnce ==
    \A p \in Packets : Settled(p) =>
        /\ OneOrAbandoned({u \in 1..Len(urls) : urls[u].host = p /\ urls[u].path = p},
                          <<"url", p, 0>>)
        /\ WarningsOf(p) # {} => \A k \in 1..Matches[p] :
               OneOrAbandoned(MatchesOf(p, k), <<"match", p, k>>)

\* What a single thread relies on between its statements; nothing protects it
\* from a second thread.  Each bound field holds the thread's own request when
\* its statement runs, and lastRowId the last URL except just after an insert.
InFlight ==
    \A t \in Threads : LET p == request[t] IN
        /\ pc[t] = "setPath" => hostname = p
        /\ pc[t] = "insertUrl" => hostname = p /\ path = p
        /\ pc[t] = "getLastRowId" =>
              /\ Len(urls) > 0
              /\ connRowId = Len(urls)
              /\ urls[Len(urls)].by = p
        /\ pc[t] # "getLastRowId" => (Len(urls) > 0 => lastRowId = Len(urls))
        /\ pc[t] \in {"setMatch", "insertWarning"} =>
              (UrlsOf(p) # {} => Len(urls) \in UrlsOf(p))
        /\ pc[t] = "insertWarning" => blacklistMatch = p
        /\ pc[t] = "insertMatch" => keyword[1] = p
        /\ pc[t] \in {"setKeyword", "insertMatch"} =>
              \E w \in WarningsOf(p) : warnings[w].urlId = lastRowId

\* A request gets no row before its turn, and no warning before its URL.
NothingEarly ==
    /\ \A t \in Threads : request[t] \notin pending
    /\ \A p \in pending : UrlsOf(p) = {} /\ WarningsOf(p) = {}
    /\ \A t \in Threads : pc[t] \in {"setHostname", "setPath", "insertUrl"} =>
          UrlsOf(request[t]) = {} /\ WarningsOf(request[t]) = {}

\* Every row of urls is the URL of the request it was written for.
UrlsAreWhole ==
    \A u \in 1..Len(urls) : urls[u].host = urls[u].by /\ urls[u].path = urls[u].by

\* The inductive invariant of a single thread.
OneThreadInv ==
    /\ TypeOK
    /\ InFlight
    /\ NothingEarly
    /\ UrlsAreWhole
    /\ WarningOnLastUrl
    /\ WarningAccusesItsUrl
    /\ KeywordsFollowWarning

\* A locked database never stops a thread from listening: the loops are
\* bounded, so a thread that starts to log a request gets back to the next one.
BackToListening ==
    \A t \in Threads : pc[t] = "setHostname" ~> pc[t] = "next"

-----------------------------------------------------------------------------
\* The log that the three tables describe, as getWarnings and getMatches read
\* it: warnings and matches are joined to urls by urlId.
LogEntry(u) ==
    [url |-> IF urls[u].host = urls[u].path THEN urls[u].host ELSE None,
     flagged |-> \E w \in 1..Len(warnings) : warnings[w].urlId = u,
     words |-> {matches[m].word : m \in {m \in 1..Len(matches) : matches[m].urlId = u}}]

Flagged == INSTANCE FlaggedLog WITH log <- [u \in 1..Len(urls) |-> LogEntry(u)],
                                    broken <- abandoned # {}

\* A single thread implements the log, as long as locks end before the last
\* attempt: no reader of the tables can tell the separate statements, the shared
\* fields and the retries from whole entries added in order.
ImplementsFlaggedLog == Flagged!Spec

=============================================================================
