------------------------- MODULE ReportCycleProofs -------------------------
(***************************************************************************)
(* Proofs about ReportCycle, for any requests, incidents, attempts and     *)
(* bounds.  For any number of reporters and whatever goes wrong: its type  *)
(* invariant, and that a completed report was delivered.  For one process  *)
(* that reports, may die in a report, and sniffs: that nothing is deleted  *)
(* that was not delivered, which makes it implement ReportDelivery.        *)
(***************************************************************************)
EXTENDS ReportCycle, TLAPS, WellFoundedInduction

-----------------------------------------------------------------------------
(***************************************************************************)
(* The rowid of a new row.                                                 *)
(***************************************************************************)
\* A bounded set of numbers that is not empty has a greatest element: the least
\* of its upper bounds is one of its members.
LEMMA BoundedHasMax ==
    ASSUME NEW S, S \subseteq Nat, S # {}, NEW n \in Nat, \A x \in S : x <= n
    PROVE  Max(S) \in S /\ \A y \in S : Max(S) >= y
<1> DEFINE Bounds == {b \in Nat : \A x \in S : x <= b}
<1>1. PICK b \in Bounds : \A c \in Bounds : ~(<<c, b>> \in OpToRel(<, Nat))
  <2>1. Bounds \subseteq Nat /\ Bounds # {}
    OBVIOUS
  <2> HIDE DEF Bounds
  <2> QED
    BY <2>1, NatLessThanWellFounded, WFMin
<1>2. \A c \in Bounds : ~(c < b)
  BY <1>1 DEF OpToRel
<1>3. b \in S
  <2>1. CASE b = 0
    <3>1. PICK x \in S : x \in Nat /\ x <= 0
      BY <2>1
    <3> QED
      BY <2>1, <3>1
  <2>2. CASE b # 0
    <3>1. b - 1 \in Nat /\ b - 1 < b
      BY <2>2
    <3>2. PICK x \in S : ~(x <= b - 1)
      BY <3>1, <1>2
    <3>3. x \in Nat /\ x <= b /\ b \in Nat
      OBVIOUS
    <3>4. x = b
      BY <3>2, <3>3
    <3> QED
      BY <3>4
  <2> QED
    BY <2>1, <2>2
<1>4. \E x \in S : \A y \in S : x >= y
  BY <1>3
<1> QED
  BY <1>4 DEF Max

\* The rowids of urls are bounded: there are finitely many rows.
Bounded == \E n \in Nat : \A u \in urls : u.rowid <= n

\* SQLite gives a new row a rowid that no row has.
LEMMA NextRowIdIsNew ==
    ASSUME NEW n \in Nat, \A u \in urls : u.rowid \in Nat \ {0} /\ u.rowid <= n
    PROVE  /\ NextRowId(urls) \in Nat \ {0}
           /\ \A u \in urls : u.rowid < NextRowId(urls)
<1> DEFINE Ids == {row.rowid : row \in urls}
<1>1. CASE urls = {}
  BY <1>1 DEF NextRowId
<1>2. CASE urls # {}
  <2>1. Ids \subseteq Nat /\ Ids # {} /\ \A x \in Ids : x <= n
    BY <1>2
  <2>2. Max(Ids) \in Ids /\ \A y \in Ids : Max(Ids) >= y
    <3> HIDE DEF Ids
    <3> QED
      BY <2>1, BoundedHasMax
  <2>3. NextRowId(urls) = 1 + Max(Ids)
    BY <1>2 DEF NextRowId
  <2> HIDE DEF Ids
  <2>4. \A u \in urls : u.rowid \in Ids
    BY DEF Ids
  <2>5. PICK top \in Nat : /\ NextRowId(urls) = 1 + top
                           /\ \A u \in urls : u.rowid \in Nat /\ top >= u.rowid
    BY <2>1, <2>2, <2>3, <2>4
  <2> QED
    BY <2>5
<1> QED
  BY <1>1, <1>2

-----------------------------------------------------------------------------
(***************************************************************************)
(* Types, for any number of reporters.                                     *)
(***************************************************************************)
\* Where a reporter has not recorded its report yet.
Before == {"idle", "isReportTime", "logReportStart"}

Recorded == \A p \in Reporters : pc[p] \notin Before => reportId[p] \in 1..Len(reports)

\* TypeOK is not inductive: a report that is read or mailed has been recorded,
\* and the sniffer inserts rows for a request only.
TypeInv ==
    /\ TypeOK
    /\ Bounded
    /\ Recorded
    /\ sniffer.pc # "idle" => sniffer.request \in Requests

\* At first nothing is recorded and nothing is logged.
LEMMA InitType == Init => TypeInv
<1> SUFFICES ASSUME Init PROVE TypeInv
  OBVIOUS
<1>1. Bounded
  BY DEF Init, Bounded
<1>2. reports \in Seq([time : 0..MaxTime, scheduled : BOOLEAN, completed : BOOLEAN])
  BY DEF Init
<1>3. sniffer \in [pc : {"idle", "insertUrl", "insertWarning", "insertMatch"},
                   request : Requests \cup {None}, time : 0..MaxTime, lastRowId : Nat]
  BY ReportCycleAssumption DEF Init, NotLogging
<1>4. mail \in [Reporters -> Mails]
  BY DEF Init, EmptyMail, Mails
<1> QED
  BY <1>1, <1>2, <1>3, <1>4, ReportCycleAssumption
     DEF Init, TypeInv, TypeOK, Recorded, Before, Labels, Types, NotLogging

\* What ReportBase::send does besides the exchange with the mail server.
Sending(p) ==
    SendAgain(p) \/ CloseSession(p) \/ ReadImprovementData(p) \/ RequestReturns(p)

\* A report that is sent is behind its record.
LEMMA SendingIs ==
    ASSUME NEW p \in Reporters, Sending(p)
    PROVE  /\ \E l \in {"idle", "send", "improve", "request", "selectTime"} : Goto(p, l)
           /\ pc[p] \in {"sleep", "sent", "improve", "request"}
           /\ UNCHANGED <<world, tables, logging, type, reportId, datetime, mail, history>>
BY DEF Sending, SendAgain, CloseSession, ReadImprovementData, RequestReturns, AfterSending

\* What every step of a reporter has in common, but for the one that records the
\* report and the one that completes it: it moves on, changes what is its own,
\* and deletes rows at most.
LEMMA MoveType ==
    ASSUME TypeInv, NEW p \in Reporters, NEW l \in Labels,
           l \in Before \/ pc[p] \notin Before,
           pc' = [pc EXCEPT ![p] = l],
           attempt' \in [Reporters -> 0..Finished],
           type' \in [Reporters -> Types],
           datetime' \in [Reporters -> 0..MaxTime],
           mail' \in [Reporters -> Mails],
           urls' \subseteq urls, warnings' \subseteq warnings, matches' \subseteq matches,
           bypasses' \subseteq bypasses, delivered' \subseteq Entries,
           accepted' \subseteq 1..Len(reports),
           UNCHANGED <<world, reports, logging, reportId, logged>>
    PROVE  TypeInv'
<1> USE DEF TypeInv, world, logging
<1>1. Bounded'
  BY DEF Bounded
<1>2. Recorded'
  BY DEF Recorded, TypeOK
<1>3. pc' \in [Reporters -> Labels]
  BY DEF TypeOK
<1> QED
  BY <1>1, <1>2, <1>3 DEF TypeOK

\* Wherever a reporter goes, it is at its first attempt.
LEMMA GotoType ==
    ASSUME TypeInv, NEW p \in Reporters, NEW l, Goto(p, l)
    PROVE  pc' = [pc EXCEPT ![p] = l] /\ attempt' \in [Reporters -> 0..Finished]
BY ReportCycleAssumption DEF Goto, TypeInv, TypeOK

\* A statement that fails keeps the types.
LEMMA FailsType ==
    ASSUME TypeInv, NEW p \in Reporters, NEW l, NEW onward \in Labels,
           onward \in Before \/ l \notin Before, Fails(p, l, onward)
    PROVE  TypeInv'
<1> USE DEF Fails, tables, history
<1>1. CASE attempt[p] < Finished /\ attempt' = [attempt EXCEPT ![p] = @ + 1] /\ UNCHANGED pc
  <2>1. attempt' \in [Reporters -> 0..Finished]
    BY <1>1, ReportCycleAssumption DEF TypeInv, TypeOK
  <2>2. pc[p] \in Labels /\ pc' = [pc EXCEPT ![p] = pc[p]]
    BY <1>1 DEF TypeInv, TypeOK
  <2> QED
    BY <2>1, <2>2, MoveType DEF TypeInv, TypeOK
<1>2. CASE attempt[p] = Finished /\ Goto(p, onward)
  BY <1>2, GotoType, MoveType DEF TypeInv, TypeOK
<1> QED
  BY <1>1, <1>2

\* A section that is read keeps the types.
LEMMA ReadType ==
    ASSUME TypeInv, NEW p \in Reporters, NEW l, NEW onward \in Labels, l \notin Before,
           NEW section, NEW rows,
           Read(p, l, section, rows, onward),
           [mail[p] EXCEPT ![section] = rows] \in Mails
    PROVE  TypeInv'
<1>1. mail' \in [Reporters -> Mails]
  BY DEF Read, TypeInv, TypeOK
<1> QED
  BY <1>1, GotoType, MoveType DEF Read, TypeInv, TypeOK, tables, history

\* The steps of the rest: time, the network, the sniffer and the incidents.
LEMMA SnifferType ==
    ASSUME TypeInv,
           \/ Tick \/ NetworkChanges \/ SnifferStep \/ SnifferDies
           \/ \E b \in Incidents : LogBypass(b)
    PROVE  TypeInv'
<1> USE ReportCycleAssumption DEF reporterVars, history, tables, world, logging
<1>1. CASE Tick
  <2>1. now' \in 0..MaxTime
    BY <1>1 DEF Tick, TypeInv, TypeOK
  <2>2. UNCHANGED <<online, tables, logging, reporterVars, history>>
    BY <1>1 DEF Tick
  <2> QED
    BY <2>1, <2>2 DEF TypeInv, TypeOK, Bounded, Recorded
<1>2. CASE NetworkChanges
  BY <1>2 DEF NetworkChanges, TypeInv, TypeOK, Bounded, Recorded
<1>3. ASSUME NEW r \in Requests, StampUrl(r) PROVE TypeInv'
  BY <1>3 DEF StampUrl, TypeInv, TypeOK, Bounded, Recorded
<1>4. CASE InsertUrl
  <2> DEFINE row == [rowid |-> NextRowId(urls), url |-> sniffer.request, time |-> sniffer.time]
  <2>1. PICK n \in Nat : \A u \in urls : u.rowid <= n
    BY DEF TypeInv, Bounded
  <2>2. NextRowId(urls) \in Nat \ {0} /\ \A u \in urls : u.rowid < NextRowId(urls)
    BY <2>1, NextRowIdIsNew DEF TypeInv, TypeOK
  <2>3. urls' = urls \cup {row} /\ sniffer.request \in Requests
    BY <1>4 DEF InsertUrl, TypeInv
  <2>4. Bounded'
    <3>1. \A u \in urls : u.rowid \in Nat /\ u.rowid <= NextRowId(urls)
      BY <2>2 DEF TypeInv, TypeOK
    <3>2. \A u \in urls' : u.rowid <= NextRowId(urls)
      BY <2>2, <2>3, <3>1
    <3> QED
      BY <2>2, <3>2 DEF Bounded
  <2>5. urls' \subseteq [rowid : Nat \ {0}, url : Requests, time : 0..MaxTime]
    BY <2>2, <2>3 DEF TypeInv, TypeOK
  <2>6. logged' \subseteq Entries
    BY <1>4, <2>3 DEF InsertUrl, TypeInv, TypeOK, Entries
  <2>7. /\ sniffer' \in [pc : {"idle", "insertUrl", "insertWarning", "insertMatch"},
                         request : Requests \cup {None}, time : 0..MaxTime, lastRowId : Nat]
        /\ sniffer'.request = sniffer.request
    BY <1>4, <2>2 DEF InsertUrl, TypeInv, TypeOK
  <2> QED
    BY <1>4, <2>3, <2>4, <2>5, <2>6, <2>7 DEF InsertUrl, TypeInv, TypeOK, Recorded
<1>5. CASE InsertWarning
  <2>1. sniffer.request \in Requests
    BY <1>5 DEF InsertWarning, TypeInv
  <2> QED
    <3>1. warnings' \subseteq [urlId : Nat, by : Requests]
      BY <1>5, <2>1 DEF InsertWarning, TypeInv, TypeOK
    <3>2. logged' \subseteq Entries
      BY <1>5, <2>1 DEF InsertWarning, TypeInv, TypeOK, Entries
    <3>3. /\ sniffer' \in [pc : {"idle", "insertUrl", "insertWarning", "insertMatch"},
                           request : Requests \cup {None}, time : 0..MaxTime, lastRowId : Nat]
          /\ sniffer'.request = sniffer.request
      BY <1>5 DEF InsertWarning, TypeInv, TypeOK
    <3>4. UNCHANGED <<world, urls, matches, bypasses, reports, todo, reporterVars, delivered,
                      accepted>>
      BY <1>5 DEF InsertWarning
    <3> QED
      BY <2>1, <3>1, <3>2, <3>3, <3>4 DEF TypeInv, TypeOK, Bounded, Recorded
<1>6. CASE InsertMatch
  <2>1. sniffer.request \in Requests
    BY <1>6 DEF InsertMatch, TypeInv
  <2> QED
    <3>1. matches' \subseteq [urlId : Nat, by : Requests]
      BY <1>6, <2>1 DEF InsertMatch, TypeInv, TypeOK
    <3>2. /\ sniffer' \in [pc : {"idle", "insertUrl", "insertWarning", "insertMatch"},
                           request : Requests \cup {None}, time : 0..MaxTime, lastRowId : Nat]
          /\ sniffer'.request = sniffer.request
      BY <1>6 DEF InsertMatch, TypeInv, TypeOK
    <3>3. UNCHANGED <<world, urls, warnings, bypasses, reports, todo, reporterVars, history>>
      BY <1>6 DEF InsertMatch
    <3> QED
      BY <2>1, <3>1, <3>2, <3>3 DEF TypeInv, TypeOK, Bounded, Recorded
<1>7. CASE SnifferDies
  BY <1>7 DEF SnifferDies, TypeInv, TypeOK, Bounded, Recorded
<1>8. ASSUME NEW b \in Incidents, LogBypass(b) PROVE TypeInv'
  <2>1. PICK when \in 0..now : bypasses' = bypasses \cup {[by |-> b, time |-> when]}
    BY <1>8 DEF LogBypass
  <2>2. when \in 0..MaxTime
    BY DEF TypeInv, TypeOK
  <2> QED
    <3>1. bypasses' \subseteq [by : Incidents, time : 0..MaxTime]
      BY <2>1, <2>2 DEF TypeInv, TypeOK
    <3>2. logged' \subseteq Entries /\ todo' \subseteq Requests \cup Incidents
      BY <1>8 DEF LogBypass, TypeInv, TypeOK, Entries
    <3>3. UNCHANGED <<world, urls, warnings, matches, reports, sniffer, reporterVars, delivered,
                      accepted>>
      BY <1>8 DEF LogBypass
    <3> QED
      BY <3>1, <3>2, <3>3 DEF TypeInv, TypeOK, Bounded, Recorded
<1> QED
  BY <1>1, <1>2, <1>3, <1>4, <1>5, <1>6, <1>7, <1>8 DEF SnifferStep

\* The steps of a reporter when all goes well.
LEMMA ProgressType ==
    ASSUME TypeInv, NEW p \in Reporters, Progress(p)
    PROVE  TypeInv'
<1> USE ReportCycleAssumption DEF history, tables, Labels, Before
<1>1. CASE SetScheduledReport(p)
  <2>1. type' \in [Reporters -> Types]
    BY <1>1 DEF SetScheduledReport, TypeInv, TypeOK, Types
  <2> QED
    BY <1>1, <2>1, GotoType, MoveType, ZenonT(60) DEF SetScheduledReport, TypeInv, TypeOK
<1>2. CASE LogReportStart(p)
  <2> DEFINE Row == [time : 0..MaxTime, scheduled : BOOLEAN, completed : BOOLEAN]
             row == [time |-> now, scheduled |-> type[p] = "SCHEDULED", completed |-> FALSE]
             l == IF type[p] \in {"TEST", "INSTALL"} THEN "send" ELSE "getBypasses"
  <2>1. reports' = Append(reports, row) /\ Goto(p, l) /\ reports \in Seq(Row) /\ row \in Row
    BY <1>2 DEF LogReportStart, TypeInv, TypeOK
  <2> HIDE DEF Row, row
  <2>2. reports' \in Seq(Row) /\ Len(reports') = Len(reports) + 1 /\ Len(reports) \in Nat
    BY <2>1
  <2>3. /\ reportId' = [reportId EXCEPT ![p] = Len(reports')]
        /\ reportId' \in [Reporters -> 0..Len(reports')]
    BY <1>2, <2>2 DEF LogReportStart, TypeInv, TypeOK
  <2>4. pc' = [pc EXCEPT ![p] = l] /\ attempt' \in [Reporters -> 0..Finished]
    BY <2>1, GotoType
  <2>5. Recorded'
    BY <2>2, <2>3, <2>4, SMTT(30) DEF Recorded, TypeInv, TypeOK
  <2>6. reports' \in Seq([time : 0..MaxTime, scheduled : BOOLEAN, completed : BOOLEAN])
    BY <2>2 DEF Row
  <2> QED
    <3>1. UNCHANGED <<world, urls, warnings, matches, bypasses, logging, type, datetime, mail,
                      history>>
      BY <1>2 DEF LogReportStart
    <3>2. pc' \in [Reporters -> Labels]
      BY <2>4 DEF TypeInv, TypeOK
    <3>3. accepted' \subseteq 1..Len(reports')
      BY <2>2, <3>1 DEF TypeInv, TypeOK
    <3> QED
      BY <2>3, <2>4, <2>5, <2>6, <3>1, <3>2, <3>3 DEF TypeInv, TypeOK, Bounded, world, logging
<1>3. CASE GetBypasses(p)
  <2> DEFINE rows == {row.by : row \in bypasses}
  <2>1. rows \subseteq Incidents
    BY DEF TypeInv, TypeOK
  <2>2. [mail[p] EXCEPT !["bypasses"] = rows] \in Mails
    <3> HIDE DEF rows
    <3> QED
      BY <2>1, ZenonT(60) DEF TypeInv, TypeOK, Mails
  <2> QED
    BY <1>3, <2>2, ReadType DEF GetBypasses
<1>4. CASE GetWarnings(p)
  <2>1. JoinedWarnings \subseteq (Nat \ {0}) \X Requests
    BY DEF JoinedWarnings, TypeInv, TypeOK
  <2>2. [mail[p] EXCEPT !["joined"] = JoinedWarnings] \in Mails
    BY <2>1, ZenonT(60) DEF TypeInv, TypeOK, Mails
  <2> QED
    BY <1>4, <2>2, ReadType DEF GetWarnings
<1>5. CASE GetMatches(p)
  <2> DEFINE rows == {pair[2] : pair \in {pair \in mail[p].joined :
                                             \E m \in matches : m.urlId = pair[1]}}
  <2>1. rows \subseteq Requests
    BY DEF TypeInv, TypeOK, Mails
  <2>2. [mail[p] EXCEPT !["warnings"] = rows] \in Mails
    BY <2>1, ZenonT(60) DEF TypeInv, TypeOK, Mails
  <2> QED
    BY <1>5, <2>2, ReadType DEF GetMatches
<1>6. CASE GetHistory(p)
  <2> DEFINE rows == {row.url : row \in urls}
  <2>1. rows \subseteq Requests
    BY DEF TypeInv, TypeOK
  <2>2. [mail[p] EXCEPT !["urls"] = rows] \in Mails
    <3> HIDE DEF rows
    <3> QED
      BY <2>1, ZenonT(60) DEF TypeInv, TypeOK, Mails
  <2> QED
    BY <1>6, <2>2, ReadType DEF GetHistory
<1>7. CASE SendMessage(p)
  <2>1. Contents(mail[p]) \subseteq Entries
    BY DEF Contents, Entries, TypeInv, TypeOK, Mails
  <2>2. reportId[p] \in 1..Len(reports)
    BY <1>7 DEF SendMessage, TypeInv, Recorded
  <2>3. delivered' \subseteq Entries /\ accepted' \subseteq 1..Len(reports)
    BY <1>7, <2>1, <2>2 DEF SendMessage, TypeInv, TypeOK
  <2> QED
    BY <1>7, <2>3, GotoType, MoveType, ZenonT(60) DEF SendMessage, TypeInv, TypeOK
<1>8. CASE Sending(p)
  <2>1. PICK l \in {"idle", "send", "improve", "request", "selectTime"} : Goto(p, l)
    BY <1>8, SendingIs
  <2>2. /\ pc' = [pc EXCEPT ![p] = l] /\ attempt' \in [Reporters -> 0..Finished]
        /\ l \in Labels
    BY <2>1, GotoType
  <2>3. /\ pc[p] \notin Before
        /\ UNCHANGED <<world, tables, logging, type, reportId, datetime, mail, history>>
    BY <1>8, SendingIs
  <2> QED
    BY <2>2, <2>3, MoveType DEF TypeInv, TypeOK
<1>9. CASE SelectTime(p)
  <2> DEFINE Row == [time : 0..MaxTime, scheduled : BOOLEAN, completed : BOOLEAN]
  <2>1. reportId[p] \in 1..Len(reports) /\ reports \in Seq(Row)
    BY <1>9 DEF SelectTime, TypeInv, TypeOK, Recorded
  <2>2. reports[reportId[p]] \in Row
    <3> HIDE DEF Row
    <3> QED
      BY <2>1
  <2>3. datetime' \in [Reporters -> 0..MaxTime]
    BY <1>9, <2>2 DEF SelectTime, TypeInv, TypeOK
  <2> QED
    BY <1>9, <2>3, MoveType DEF SelectTime, TypeInv, TypeOK
<1>10. CASE DeleteMatches(p)
  BY <1>10, MoveType DEF DeleteMatches, Delete, TypeInv, TypeOK
<1>11. CASE DeleteWarnings(p)
  BY <1>11, MoveType DEF DeleteWarnings, Delete, TypeInv, TypeOK
<1>12. CASE DeleteUrls(p)
  BY <1>12, MoveType DEF DeleteUrls, Delete, TypeInv, TypeOK
<1>13. CASE DeleteBypasses(p)
  BY <1>13, GotoType, MoveType DEF DeleteBypasses, TypeInv, TypeOK
<1>14. CASE LogReportFinish(p)
  <2>1. reportId[p] \in 1..Len(reports)
    BY <1>14 DEF LogReportFinish, TypeInv, Recorded
  <2> DEFINE Row == [time : 0..MaxTime, scheduled : BOOLEAN, completed : BOOLEAN]
             row == [reports[reportId[p]] EXCEPT !.completed = TRUE]
  <2>2. /\ reports' \in Seq([time : 0..MaxTime, scheduled : BOOLEAN, completed : BOOLEAN])
        /\ Len(reports') = Len(reports)
    <3>1. reports \in Seq(Row)
      BY DEF TypeInv, TypeOK
    <3>2. reports[reportId[p]] \in Row
      <4> HIDE DEF Row
      <4> QED
        BY <2>1, <3>1
    <3>3. row \in Row
      BY <3>2
    <3>4. reports' = [reports EXCEPT ![reportId[p]] = row]
      BY <1>14 DEF LogReportFinish
    <3>5. reports' \in Seq(Row) /\ Len(reports') = Len(reports)
      <4> HIDE DEF Row, row
      <4> QED
        BY <2>1, <3>1, <3>3, <3>4
    <3> QED
      BY <3>5
  <2>3. pc' = [pc EXCEPT ![p] = "idle"] /\ attempt' \in [Reporters -> 0..Finished]
    BY <1>14, GotoType DEF LogReportFinish
  <2> QED
    BY <1>14, <2>2, <2>3
       DEF LogReportFinish, TypeInv, TypeOK, Bounded, Recorded, world, logging
<1> QED
  BY <1>1, <1>2, <1>3, <1>4, <1>5, <1>6, <1>7, <1>8, <1>9, <1>10, <1>11, <1>12, <1>13,
     <1>14 DEF Progress, Sending

\* The steps of a reporter when something fails, its start and its death.
LEMMA FailureType ==
    ASSUME TypeInv, NEW p \in Reporters,
           \/ Failure(p) \/ Crash(p)
           \/ \E t \in Types \ {"SCHEDULED"} : Initialize(p, t)
    PROVE  TypeInv'
<1> USE ReportCycleAssumption DEF history, tables, Labels, Before
<1>1. CASE IsReportTimeFails(p)
  BY <1>1, FailsType DEF IsReportTimeFails
<1>2. CASE LogReportStartFails(p)
  BY <1>2, FailsType DEF LogReportStartFails
<1>3. CASE GetBypassesFails(p)
  BY <1>3, FailsType DEF GetBypassesFails
<1>4. CASE GetWarningsFails(p)
  BY <1>4, FailsType DEF GetWarningsFails
<1>5. CASE GetMatchesFails(p)
  BY <1>5, FailsType DEF GetMatchesFails
<1>6. CASE GetHistoryFails(p)
  BY <1>6, FailsType DEF GetHistoryFails
<1>7. CASE SendNoAddress(p)
  <2>1. CASE Goto(p, "idle")
    BY <1>7, <2>1, GotoType, MoveType DEF SendNoAddress, TypeInv, TypeOK
  <2>2. CASE Goto(p, "sleep")
    BY <1>7, <2>2, GotoType, MoveType DEF SendNoAddress, TypeInv, TypeOK
  <2> QED
    BY <1>7, <2>1, <2>2 DEF SendNoAddress
<1>8. CASE SendFails(p)
  <2>1. /\ Goto(p, "idle")
        /\ UNCHANGED <<world, tables, logging, type, reportId, datetime, mail, history>>
    BY <1>8 DEF SendFails
  <2> QED
    BY <2>1, GotoType, MoveType, ZenonT(60) DEF TypeInv, TypeOK
<1>9. CASE RotateFails(p)
  <2>1. CASE /\ attempt[p] < Finished
             /\ attempt' = [attempt EXCEPT ![p] = @ + 1]
             /\ pc' = [pc EXCEPT ![p] = "selectTime"]
    <3>1. attempt' \in [Reporters -> 0..Finished]
      BY <2>1 DEF TypeInv, TypeOK
    <3> QED
      BY <1>9, <2>1, <3>1, MoveType DEF RotateFails, TypeInv, TypeOK
  <2>2. CASE Goto(p, "logReportFinish")
    <3>1. /\ pc' = [pc EXCEPT ![p] = "logReportFinish"]
          /\ attempt' \in [Reporters -> 0..Finished]
      BY <2>2, GotoType
    <3>2. /\ pc[p] \notin Before
          /\ UNCHANGED <<world, tables, logging, type, reportId, datetime, mail, history>>
      BY <1>9 DEF RotateFails
    <3> QED
      BY <3>1, <3>2, MoveType DEF TypeInv, TypeOK
  <2> QED
    BY <1>9, <2>1, <2>2 DEF RotateFails
<1>10. CASE LogReportFinishFails(p)
  BY <1>10, FailsType DEF LogReportFinishFails
<1>11. CASE Crash(p)
  BY <1>11, GotoType, MoveType, ZenonT(60) DEF Crash, TypeInv, TypeOK
<1>12. ASSUME NEW t \in Types, Initialize(p, t) PROVE TypeInv'
  <2>1. type' \in [Reporters -> Types] /\ mail' \in [Reporters -> Mails]
    BY <1>12 DEF Initialize, TypeInv, TypeOK, EmptyMail, Mails
  <2> QED
    <3> DEFINE l == IF t = "INSTALL" THEN "logReportStart" ELSE "isReportTime"
    <3>1. Goto(p, l) /\ UNCHANGED <<world, tables, logging, reportId, datetime, history>>
      BY <1>12 DEF Initialize
    <3>2. /\ l \in Labels \cap Before
          /\ pc' = [pc EXCEPT ![p] = l]
          /\ attempt' \in [Reporters -> 0..Finished]
      BY <3>1, GotoType
    <3> HIDE DEF l
    <3> QED
      BY <2>1, <3>1, <3>2, MoveType DEF TypeInv, TypeOK
<1>13. CASE ReadImprovementDataFails(p)
  <2>1. AfterSending(p) \in Labels
    BY DEF AfterSending
  <2> QED
    BY <1>13, <2>1, FailsType DEF ReadImprovementDataFails
<1> QED
  BY <1>1, <1>2, <1>3, <1>4, <1>5, <1>6, <1>7, <1>8, <1>9, <1>10, <1>11, <1>12, <1>13 DEF Failure

\* Every step of everyone keeps the types.
LEMMA TypeStep == TypeInv /\ [Next]_vars => TypeInv'
<1> SUFFICES ASSUME TypeInv, [Next]_vars PROVE TypeInv'
  OBVIOUS
<1>1. CASE UNCHANGED vars
  BY <1>1 DEF vars, world, tables, logging, reporterVars, history, TypeInv, TypeOK, Bounded,
              Recorded
<1> QED
  BY <1>1, SnifferType, ProgressType, FailureType DEF Next

\* The variables stay in their types for any number of reporters, whatever fails
\* and whoever dies: no rowid is used that is not one, and nothing is mailed for a
\* report that was not recorded.
THEOREM TypeCorrect == Spec => []TypeOK
<1>1. TypeInv => TypeOK
  BY DEF TypeInv
<1> QED
  BY <1>1, InitType, TypeStep, PTL DEF Spec

-----------------------------------------------------------------------------
(***************************************************************************)
(* A completed report was delivered, for any number of reporters.          *)
(***************************************************************************)
\* Where a reporter is once the mail server has accepted its message.
AfterSend == {"sent", "improve", "request", "selectTime", "deleteMatches", "deleteWarnings",
              "deleteUrls", "deleteBypasses", "logReportFinish"}

\* CompletedWasDelivered is not inductive: nobody gets to logReportFinish but by
\* way of an accepted message.
AcceptedInv ==
    /\ TypeInv
    /\ CompletedWasDelivered
    /\ \A p \in Reporters : pc[p] \in AfterSend => reportId[p] \in accepted

\* Most steps neither touch what AcceptedInv speaks of nor lead past the mail
\* server.
StaysBehind ==
    /\ UNCHANGED <<reports, reportId, accepted>>
    /\ \A p \in Reporters : pc'[p] \in AfterSend => pc[p] \in AfterSend

\* A statement that fails does not lead past the mail server.
LEMMA FailsBehind ==
    ASSUME TypeInv, NEW p \in Reporters, NEW l, NEW onward, Fails(p, l, onward),
           onward \in AfterSend => l \in AfterSend
    PROVE  StaysBehind
BY DEF Fails, Goto, StaysBehind, TypeInv, TypeOK, tables, history

\* Apart from the record, the message and the completion of a report, a reporter
\* stays behind.
LEMMA ReporterBehind ==
    ASSUME TypeInv, NEW p \in Reporters,
           \/ SetScheduledReport(p)
           \/ GetBypasses(p) \/ GetWarnings(p) \/ GetMatches(p) \/ GetHistory(p)
           \/ Sending(p)
           \/ SelectTime(p) \/ DeleteMatches(p) \/ DeleteWarnings(p) \/ DeleteUrls(p)
           \/ DeleteBypasses(p)
           \/ Failure(p) \/ Crash(p)
           \/ \E t \in Types \ {"SCHEDULED"} : Initialize(p, t)
    PROVE  StaysBehind
<1> USE DEF TypeInv, TypeOK, StaysBehind, AfterSend, Goto, tables, history
<1>1. CASE SetScheduledReport(p)
  BY <1>1 DEF SetScheduledReport
<1>2. CASE GetBypasses(p) \/ GetWarnings(p) \/ GetMatches(p) \/ GetHistory(p)
  BY <1>2 DEF GetBypasses, GetWarnings, GetMatches, GetHistory, Read
<1>3. CASE Sending(p)
  BY <1>3 DEF Sending, SendAgain, CloseSession, ReadImprovementData, RequestReturns
<1>4. CASE SelectTime(p)
  BY <1>4 DEF SelectTime
<1>5. CASE DeleteMatches(p) \/ DeleteWarnings(p) \/ DeleteUrls(p)
  BY <1>5 DEF DeleteMatches, DeleteWarnings, DeleteUrls, Delete
<1>6. CASE DeleteBypasses(p)
  BY <1>6 DEF DeleteBypasses
<1>7. CASE Failure(p)
  <2>1. CASE IsReportTimeFails(p)
    BY <2>1, FailsBehind DEF IsReportTimeFails
  <2>2. CASE LogReportStartFails(p)
    BY <2>2, FailsBehind DEF LogReportStartFails
  <2>3. CASE GetBypassesFails(p) \/ GetWarningsFails(p)
    BY <2>3, FailsBehind DEF GetBypassesFails, GetWarningsFails
  <2>4. CASE GetMatchesFails(p) \/ GetHistoryFails(p)
    BY <2>4, FailsBehind DEF GetMatchesFails, GetHistoryFails
  <2>5. CASE SendNoAddress(p) \/ SendFails(p)
    BY <2>5 DEF SendNoAddress, SendFails
  <2>6. CASE RotateFails(p)
    BY <2>6 DEF RotateFails
  <2>7. CASE LogReportFinishFails(p)
    BY <2>7, FailsBehind DEF LogReportFinishFails
  <2>8. CASE ReadImprovementDataFails(p)
    BY <2>8, FailsBehind DEF ReadImprovementDataFails
  <2> QED
    BY <1>7, <2>1, <2>2, <2>3, <2>4, <2>5, <2>6, <2>7, <2>8 DEF Failure
<1>8. CASE Crash(p)
  BY <1>8 DEF Crash
<1>9. ASSUME NEW t \in Types, Initialize(p, t) PROVE StaysBehind
  BY <1>9 DEF Initialize
<1> QED
  BY <1>1, <1>2, <1>3, <1>4, <1>5, <1>6, <1>7, <1>8, <1>9

\* Nobody completes a report that was not accepted.
LEMMA AcceptedStep == AcceptedInv /\ [Next]_vars => AcceptedInv'
<1> SUFFICES ASSUME AcceptedInv, [Next]_vars PROVE AcceptedInv'
  OBVIOUS
<1>0. TypeInv /\ TypeInv'
  BY TypeStep DEF AcceptedInv
<1>1. CASE StaysBehind
  BY <1>0, <1>1 DEF StaysBehind, AcceptedInv, CompletedWasDelivered
<1>2. CASE Tick \/ NetworkChanges \/ SnifferStep \/ SnifferDies
           \/ (\E b \in Incidents : LogBypass(b)) \/ UNCHANGED vars
  <2>1. StaysBehind
    BY <1>2 DEF Tick, NetworkChanges, SnifferStep, StampUrl, InsertUrl, InsertWarning,
                InsertMatch, SnifferDies, LogBypass, StaysBehind, vars, tables, reporterVars,
                history
  <2> QED
    BY <1>1, <2>1
<1>3. ASSUME NEW p \in Reporters, LogReportStart(p) PROVE AcceptedInv'
  <2> DEFINE Row == [time : 0..MaxTime, scheduled : BOOLEAN, completed : BOOLEAN]
             row == [time |-> now, scheduled |-> type[p] = "SCHEDULED", completed |-> FALSE]
  <2>1. reports \in Seq(Row) /\ row \in Row /\ reports' = Append(reports, row)
    BY <1>0, <1>3 DEF LogReportStart, TypeInv, TypeOK
  <2>2. /\ Len(reports') = Len(reports) + 1 /\ Len(reports) \in Nat
        /\ \A n \in 1..Len(reports) : reports'[n] = reports[n]
        /\ reports'[Len(reports) + 1] = row
    <3> HIDE DEF Row, row
    <3> QED
      BY <2>1
  <2>3. CompletedWasDelivered'
    BY <1>3, <2>2 DEF LogReportStart, AcceptedInv, CompletedWasDelivered, history
  <2>4. \A q \in Reporters : pc'[q] \in AfterSend => q # p /\ pc[q] \in AfterSend
    BY <1>0, <1>3 DEF LogReportStart, Goto, AfterSend, TypeInv, TypeOK
  <2> QED
    BY <1>0, <1>3, <2>3, <2>4 DEF LogReportStart, AcceptedInv, TypeInv, TypeOK, history
<1>4. ASSUME NEW p \in Reporters, SendMessage(p) PROVE AcceptedInv'
  BY <1>0, <1>4 DEF SendMessage, Goto, AfterSend, AcceptedInv, CompletedWasDelivered, TypeInv,
                    TypeOK, tables
<1>5. ASSUME NEW p \in Reporters, LogReportFinish(p) PROVE AcceptedInv'
  <2>1. reportId[p] \in accepted
    BY <1>5 DEF LogReportFinish, AfterSend, AcceptedInv
  <2>2. \A q \in Reporters : pc'[q] \in AfterSend => pc[q] \in AfterSend
    BY <1>0, <1>5 DEF LogReportFinish, Goto, AfterSend, TypeInv, TypeOK
  <2>3. \A n \in 1..Len(reports) : reports'[n].completed => reports[n].completed \/ n = reportId[p]
    BY <1>5 DEF LogReportFinish
  <2>4. Len(reports') = Len(reports)
    BY <1>0, <1>5 DEF LogReportFinish, TypeInv, TypeOK
  <2> QED
    BY <1>0, <1>5, <2>1, <2>2, <2>3, <2>4
       DEF LogReportFinish, AcceptedInv, CompletedWasDelivered, history
<1> QED
  BY <1>0, <1>1, <1>2, <1>3, <1>4, <1>5, ReporterBehind DEF Next, Progress, Sending

\* "completed", which puts off the next report, is the truth: no interleaving of
\* reporters, no lock and no crash makes it so without an accepted mail.
THEOREM CompletedCorrect == Spec => []CompletedWasDelivered
<1>1. Init => AcceptedInv
  <2>1. Init => /\ TypeInv /\ reports = <<>>
                /\ pc = [p \in Reporters |-> "idle"]
    BY InitType DEF Init
  <2> QED
    BY <2>1 DEF AcceptedInv, CompletedWasDelivered, AfterSend
<1>2. AcceptedInv => CompletedWasDelivered
  BY DEF AcceptedInv
<1> QED
  BY <1>1, <1>2, AcceptedStep, PTL DEF Spec

-----------------------------------------------------------------------------
(***************************************************************************)
(* One process that reports, and then sniffs.                              *)
(***************************************************************************)
\* Nothing happens besides, but that the process may die in a report.
Alone == Situations \subseteq {"crash"} /\ \A p, q \in Reporters : p = q

\* The sniffer waits for the report.
OneAtATime == \A p \in Reporters : sniffer.pc # "idle" => pc[p] = "idle"

NoInstall == \A p \in Reporters : type[p] # "INSTALL"

\* No two rows of urls have the same rowid.
UniqueIds == \A u, v \in urls : u.rowid = v.rowid => u = v

\* The warning that is being inserted will lead to its URL.
InFlight ==
    sniffer.pc \in {"insertWarning", "insertMatch"} =>
        /\ \E u \in urls : u.rowid = sniffer.lastRowId /\ u.url = sniffer.request
        /\ sniffer.request \in Flagged

\* A warning has a keyword, without which no report lists it, unless that is
\* being inserted or the rotation has begun with it.
HasKeyword ==
    \A w \in warnings :
        \/ \E m \in matches : m.urlId = w.urlId
        \/ <<"warning", w.by>> \in delivered
        \/ sniffer.pc = "insertMatch" /\ w.urlId = sniffer.lastRowId

\* Nothing is logged twice.
StillToLog ==
    /\ sniffer.pc # "idle" => sniffer.request \notin todo
    /\ \A r \in Requests :
          /\ r \in todo \/ (sniffer.pc = "insertUrl" /\ sniffer.request = r)
             => <<"url", r>> \notin logged
          /\ r \in todo \/ (sniffer.pc \in {"insertUrl", "insertWarning"} /\ sniffer.request = r)
             => <<"warning", r>> \notin logged
    /\ \A b \in Incidents : b \in todo => <<"bypass", b>> \notin logged

\* What the tables and the mails hold is known and accuses nobody wrongly.
Honest ==
    /\ Stored \subseteq logged
    /\ \A w \in warnings : w.by \in Flagged
    /\ MailAccusesFlagged

\* The reporter has read the section of the bypasses, of the warnings, of the URLs.
BypassesRead(p) == \A b \in bypasses : b.by \in mail[p].bypasses
WarningsRead(p) == \A w \in warnings : w.by \in mail[p].warnings \/ <<"warning", w.by>> \in delivered
UrlsRead(p) == \A u \in urls : u.url \in mail[p].urls

\* What the mail of a reporter lacks and holds at each label.
Reading(p) ==
    /\ pc[p] \notin AfterSend \cup {"idle"} => Contents(mail[p]) \subseteq Stored
    /\ pc[p] \in {"getWarnings", "getMatches", "getHistory"} => BypassesRead(p)
    /\ pc[p] = "getMatches" => mail[p].joined = JoinedWarnings
    /\ pc[p] = "getHistory" => WarningsRead(p)
    /\ pc[p] \in {"send", "sleep"} /\ type[p] # "TEST"
       => BypassesRead(p) /\ WarningsRead(p) /\ UrlsRead(p)
    /\ pc[p] \in AfterSend /\ ~(pc[p] \in {"sent", "improve", "request"} /\ type[p] = "TEST")
       => Stored \subseteq delivered
    /\ pc[p] = "deleteUrls" => \A w \in warnings : w.urlId \notin OldRowIds(p)

\* OnlyIncludedDeleted is not inductive: from the first section to the last
\* statement of the rotation, what the tables hold is what the mail lists.
AloneInv ==
    /\ TypeInv
    /\ OnlyIncludedDeleted
    /\ WarningsLeadHome
    /\ OneAtATime
    /\ NoInstall
    /\ UniqueIds
    /\ InFlight
    /\ HasKeyword
    /\ StillToLog
    /\ Honest
    /\ \A p \in Reporters : Reading(p)

\* What is stored, entry by entry.
LEMMA StoredIs ==
    ASSUME NEW x
    PROVE  /\ <<"url", x>> \in Stored <=> \E u \in urls : u.url = x
           /\ <<"warning", x>> \in Stored <=> \E w \in warnings : w.by = x
           /\ <<"bypass", x>> \in Stored <=> \E b \in bypasses : b.by = x
BY DEF Stored

\* One row more in a table is one entry more.
LEMMA OneMore ==
    ASSUME NEW S, NEW row
    PROVE  /\ {<<"url", u.url>> : u \in S \cup {row}}
              = {<<"url", u.url>> : u \in S} \cup {<<"url", row.url>>}
           /\ {<<"warning", w.by>> : w \in S \cup {row}}
              = {<<"warning", w.by>> : w \in S} \cup {<<"warning", row.by>>}
           /\ {<<"bypass", b.by>> : b \in S \cup {row}}
              = {<<"bypass", b.by>> : b \in S} \cup {<<"bypass", row.by>>}
OBVIOUS

\* What the insert of a URL adds to the entries stored.
LEMMA StoresUrl == InsertUrl => Stored' = Stored \cup {<<"url", sniffer.request>>}
<1> SUFFICES ASSUME InsertUrl PROVE Stored' = Stored \cup {<<"url", sniffer.request>>}
  OBVIOUS
<1> DEFINE row == [rowid |-> NextRowId(urls), url |-> sniffer.request, time |-> sniffer.time]
<1>1. urls' = urls \cup {row} /\ row.url = sniffer.request /\ UNCHANGED <<warnings, bypasses>>
  BY DEF InsertUrl
<1> HIDE DEF row
<1>2. {<<"url", u.url>> : u \in urls'} = {<<"url", u.url>> : u \in urls} \cup {<<"url", row.url>>}
  BY <1>1, OneMore, Zenon
<1> QED
  BY <1>1, <1>2 DEF Stored

\* What the insert of a warning adds to them.
LEMMA StoresWarning == InsertWarning => Stored' = Stored \cup {<<"warning", sniffer.request>>}
<1> SUFFICES ASSUME InsertWarning
             PROVE  Stored' = Stored \cup {<<"warning", sniffer.request>>}
  OBVIOUS
<1> DEFINE row == [urlId |-> sniffer.lastRowId, by |-> sniffer.request]
<1>1. /\ warnings' = warnings \cup {row} /\ row.by = sniffer.request
      /\ UNCHANGED <<urls, bypasses>>
  BY DEF InsertWarning
<1> HIDE DEF row
<1>2. {<<"warning", w.by>> : w \in warnings'}
      = {<<"warning", w.by>> : w \in warnings} \cup {<<"warning", row.by>>}
  BY <1>1, OneMore, Zenon
<1> QED
  BY <1>1, <1>2 DEF Stored

\* What the insert of a bypass adds to them.
LEMMA StoresBypass ==
    ASSUME NEW b \in Incidents, LogBypass(b)
    PROVE  Stored' = Stored \cup {<<"bypass", b>>}
<1>1. PICK when \in 0..now : bypasses' = bypasses \cup {[by |-> b, time |-> when]}
  BY DEF LogBypass
<1> DEFINE row == [by |-> b, time |-> when]
<1>2. bypasses' = bypasses \cup {row} /\ row.by = b /\ UNCHANGED <<urls, warnings>>
  BY <1>1 DEF LogBypass
<1> HIDE DEF row
<1>3. {<<"bypass", x.by>> : x \in bypasses'}
      = {<<"bypass", x.by>> : x \in bypasses} \cup {<<"bypass", row.by>>}
  BY <1>2, OneMore, Zenon
<1> QED
  BY <1>2, <1>3 DEF Stored

\* What a report lists, entry by entry.
LEMMA ContentsIs ==
    ASSUME NEW m, NEW x
    PROVE  /\ <<"url", x>> \in Contents(m) <=> x \in m.urls
           /\ <<"warning", x>> \in Contents(m) <=> x \in m.warnings
           /\ <<"bypass", x>> \in Contents(m) <=> x \in m.bypasses
BY DEF Contents

\* A mail that lists only what is in the tables.
LEMMA ListsStored ==
    ASSUME NEW m,
           \A r \in m.urls : \E u \in urls : u.url = r,
           \A r \in m.warnings : \E w \in warnings : w.by = r,
           \A x \in m.bypasses : \E b \in bypasses : b.by = x
    PROVE  Contents(m) \subseteq Stored
BY DEF Contents, Stored

\* A step of the reporter that neither logs, delivers nor deletes anything.
LEMMA QuietStep ==
    ASSUME Alone, AloneInv, TypeInv', NEW p \in Reporters,
           sniffer.pc = "idle", type'[p] # "INSTALL", Reading(p)',
           UNCHANGED <<urls, warnings, matches, bypasses, logging, logged, delivered>>
    PROVE  AloneInv'
<1> USE DEF AloneInv, logging
<1>1. Stored' = Stored
  BY DEF Stored
<1>2. OnlyIncludedDeleted' /\ Honest'
  BY <1>1 DEF OnlyIncludedDeleted, Honest, MailAccusesFlagged
<1>3. WarningsLeadHome' /\ UniqueIds' /\ InFlight' /\ HasKeyword' /\ StillToLog'
  BY DEF WarningsLeadHome, UniqueIds, InFlight, HasKeyword, StillToLog
<1>4. OneAtATime' /\ NoInstall' /\ \A q \in Reporters : Reading(q)'
  <2>1. \A q \in Reporters : q = p
    BY DEF Alone
  <2> QED
    BY <2>1 DEF OneAtATime, NoInstall
<1> QED
  BY <1>2, <1>3, <1>4

\* Without lasting locks a statement that fails is tried again.
LEMMA FailsAlone ==
    ASSUME Alone, AloneInv, TypeInv', NEW p \in Reporters, NEW l, NEW onward,
           l # "idle", Fails(p, l, onward)
    PROVE  AloneInv'
<1>1. UNCHANGED <<world, tables, logging, pc, type, reportId, datetime, mail, history>>
  BY DEF Fails, Alone
<1>2. sniffer.pc = "idle" /\ type'[p] # "INSTALL"
  BY <1>1 DEF Fails, AloneInv, OneAtATime, NoInstall
<1>3. Stored' = Stored /\ JoinedWarnings' = JoinedWarnings /\ OldRowIds(p)' = OldRowIds(p)
  BY <1>1 DEF Stored, JoinedWarnings, OldRowIds, OldUrls, tables
<1>4. Reading(p)'
  BY <1>1, <1>3 DEF AloneInv, Reading, BypassesRead, WarningsRead, UrlsRead, tables, history
<1> QED
  BY <1>1, <1>2, <1>4, QuietStep DEF tables, history

\* Time and the network change nothing that AloneInv speaks of.
LEMMA SameAlone ==
    ASSUME AloneInv, TypeInv', UNCHANGED <<tables, logging, reporterVars, history>>
    PROVE  AloneInv'
<1> USE DEF tables, logging, reporterVars, history
<1>1. /\ Stored' = Stored /\ JoinedWarnings' = JoinedWarnings
      /\ \A p \in Reporters : OldRowIds(p)' = OldRowIds(p)
  BY DEF Stored, JoinedWarnings, OldRowIds, OldUrls
<1>2. OnlyIncludedDeleted' /\ Honest'
  BY <1>1 DEF AloneInv, OnlyIncludedDeleted, Honest, MailAccusesFlagged
<1>3. WarningsLeadHome' /\ UniqueIds' /\ InFlight' /\ HasKeyword' /\ StillToLog'
  BY DEF AloneInv, WarningsLeadHome, UniqueIds, InFlight, HasKeyword, StillToLog
<1>4. OneAtATime' /\ NoInstall'
  BY DEF AloneInv, OneAtATime, NoInstall
<1>5. \A p \in Reporters : Reading(p)'
  BY <1>1 DEF AloneInv, Reading, BypassesRead, WarningsRead, UrlsRead
<1> QED
  BY <1>2, <1>3, <1>4, <1>5 DEF AloneInv

\* While something is logged no report is under way.
LEMMA LoggingAlone ==
    ASSUME Alone, AloneInv, MayLog, UNCHANGED reporterVars
    PROVE  /\ OneAtATime' /\ NoInstall'
           /\ \A p \in Reporters : Reading(p)'
<1>1. \A p \in Reporters : pc'[p] = "idle"
  BY DEF Alone, MayLog, reporterVars
<1> QED
  BY <1>1 DEF AloneInv, OneAtATime, NoInstall, Reading, AfterSend, reporterVars

\* A request that is about to be logged has not been logged before.
LEMMA StampUrlAlone ==
    ASSUME Alone, AloneInv, TypeInv', NEW r \in Requests, StampUrl(r)
    PROVE  AloneInv'
<1> USE DEF StampUrl, AloneInv, tables, history
<1>1. Stored' = Stored
  BY DEF Stored
<1>2. OnlyIncludedDeleted' /\ Honest'
  BY <1>1 DEF OnlyIncludedDeleted, Honest, MailAccusesFlagged
<1>3. sniffer'.pc = "insertUrl" /\ sniffer'.request = r
  BY DEF TypeInv, TypeOK
<1>4. WarningsLeadHome' /\ UniqueIds' /\ InFlight' /\ HasKeyword'
  BY <1>3 DEF WarningsLeadHome, UniqueIds, InFlight, HasKeyword
<1>5. StillToLog'
  BY <1>3 DEF StillToLog
<1> QED
  BY <1>2, <1>4, <1>5, LoggingAlone

\* The new row of urls has a rowid of its own, which the warning will name.
LEMMA InsertUrlAlone ==
    ASSUME Alone, AloneInv, TypeInv', InsertUrl
    PROVE  AloneInv'
<1> DEFINE r == sniffer.request
           id == NextRowId(urls)
           row == [rowid |-> id, url |-> r, time |-> sniffer.time]
<1>1. /\ urls' = urls \cup {row} /\ logged' = logged \cup {<<"url", r>>}
      /\ UNCHANGED <<warnings, matches, bypasses, todo, reporterVars, delivered>>
      /\ MayLog /\ sniffer.pc = "insertUrl" /\ r \in Requests
  BY DEF InsertUrl, AloneInv, TypeInv
<1>2. id \in Nat \ {0} /\ \A u \in urls : u.rowid \in Nat /\ u.rowid < id
  <2>1. PICK n \in Nat : \A u \in urls : u.rowid <= n
    BY DEF AloneInv, TypeInv, Bounded
  <2> QED
    BY <2>1, NextRowIdIsNew DEF AloneInv, TypeInv, TypeOK
<1>3. /\ sniffer'.request = r /\ sniffer'.lastRowId = id
      /\ sniffer'.pc = IF r \in Flagged THEN "insertWarning" ELSE "idle"
  BY DEF InsertUrl, AloneInv, TypeInv, TypeOK
<1> HIDE DEF id
<1>4. Stored' = Stored \cup {<<"url", r>>}
  BY StoresUrl
<1>5. OnlyIncludedDeleted' /\ Honest'
  BY <1>1, <1>4 DEF AloneInv, OnlyIncludedDeleted, Honest, MailAccusesFlagged
<1>6. WarningsLeadHome'
  BY <1>1 DEF AloneInv, WarningsLeadHome
<1>7. UniqueIds'
  BY <1>1, <1>2 DEF AloneInv, UniqueIds
<1>8. InFlight'
  <2>1. row \in urls' /\ row.rowid = id /\ row.url = r
    BY <1>1
  <2> HIDE DEF row
  <2> QED
    BY <1>1, <1>3, <2>1 DEF InFlight
<1>9. HasKeyword'
  BY <1>1 DEF AloneInv, HasKeyword
<1>10. StillToLog'
  BY <1>1, <1>3 DEF AloneInv, StillToLog
<1> QED
  BY <1>1, <1>5, <1>6, <1>7, <1>8, <1>9, <1>10, LoggingAlone DEF AloneInv

\* The new warning leads to the row that was inserted for the same request.
LEMMA InsertWarningAlone ==
    ASSUME Alone, AloneInv, TypeInv', InsertWarning
    PROVE  AloneInv'
<1> DEFINE r == sniffer.request
           row == [urlId |-> sniffer.lastRowId, by |-> r]
<1>1. /\ warnings' = warnings \cup {row} /\ logged' = logged \cup {<<"warning", r>>}
      /\ UNCHANGED <<urls, matches, bypasses, todo, reporterVars, delivered>>
      /\ MayLog /\ sniffer.pc = "insertWarning" /\ r \in Requests /\ r \in Flagged
  BY DEF InsertWarning, AloneInv, TypeInv, InFlight
<1>2. /\ sniffer'.request = r /\ sniffer'.lastRowId = sniffer.lastRowId
      /\ sniffer'.pc = "insertMatch"
  BY DEF InsertWarning, AloneInv, TypeInv, TypeOK
<1>3. Stored' = Stored \cup {<<"warning", r>>}
  BY StoresWarning
<1>4. OnlyIncludedDeleted' /\ Honest'
  BY <1>1, <1>3 DEF AloneInv, OnlyIncludedDeleted, Honest, MailAccusesFlagged
<1>5. WarningsLeadHome' /\ InFlight'
  BY <1>1, <1>2 DEF AloneInv, WarningsLeadHome, InFlight
<1>6. UniqueIds'
  BY <1>1 DEF AloneInv, UniqueIds
<1>7. HasKeyword'
  <2>1. \A w \in warnings : (\E m \in matches : m.urlId = w.urlId) \/ <<"warning", w.by>> \in delivered
    BY <1>1 DEF AloneInv, HasKeyword
  <2>2. \A w \in warnings' : w \in warnings \/ w.urlId = sniffer.lastRowId
    BY <1>1
  <2> QED
    BY <1>1, <1>2, <2>1, <2>2 DEF HasKeyword
<1>8. StillToLog'
  BY <1>1, <1>2 DEF AloneInv, StillToLog
<1> QED
  BY <1>1, <1>4, <1>5, <1>6, <1>7, <1>8, LoggingAlone DEF AloneInv

\* With its keyword the warning is complete.
LEMMA InsertMatchAlone ==
    ASSUME Alone, AloneInv, TypeInv', InsertMatch
    PROVE  AloneInv'
<1>1. /\ matches' = matches \cup {[urlId |-> sniffer.lastRowId, by |-> sniffer.request]}
      /\ UNCHANGED <<urls, warnings, bypasses, todo, reporterVars, logged, delivered>>
      /\ MayLog /\ sniffer.pc = "insertMatch"
  BY DEF InsertMatch, history
<1>2. sniffer'.pc = "idle"
  BY DEF InsertMatch, AloneInv, TypeInv, TypeOK
<1>3. Stored' = Stored
  BY <1>1 DEF Stored
<1>4. OnlyIncludedDeleted' /\ Honest'
  BY <1>1, <1>3 DEF AloneInv, OnlyIncludedDeleted, Honest, MailAccusesFlagged
<1>5. WarningsLeadHome' /\ InFlight' /\ UniqueIds'
  BY <1>1, <1>2 DEF AloneInv, WarningsLeadHome, InFlight, UniqueIds
<1>6. HasKeyword'
  BY <1>1, <1>2 DEF AloneInv, HasKeyword
<1>7. StillToLog'
  BY <1>1, <1>2 DEF AloneInv, StillToLog
<1> QED
  BY <1>1, <1>4, <1>5, <1>6, <1>7, LoggingAlone DEF AloneInv

\* A bypass is on its own.
LEMMA LogBypassAlone ==
    ASSUME Alone, AloneInv, TypeInv', NEW b \in Incidents, LogBypass(b)
    PROVE  AloneInv'
<1>1. PICK when \in 0..now : bypasses' = bypasses \cup {[by |-> b, time |-> when]}
  BY DEF LogBypass
<1>2. /\ todo' = todo \ {b} /\ logged' = logged \cup {<<"bypass", b>>}
      /\ UNCHANGED <<urls, warnings, matches, sniffer, reporterVars, delivered>>
      /\ MayLog
  BY DEF LogBypass
<1>3. Stored' = Stored \cup {<<"bypass", b>>}
  BY StoresBypass
<1>4. OnlyIncludedDeleted' /\ Honest'
  BY <1>2, <1>3 DEF AloneInv, OnlyIncludedDeleted, Honest, MailAccusesFlagged
<1>5. WarningsLeadHome' /\ InFlight' /\ UniqueIds' /\ HasKeyword'
  BY <1>2 DEF AloneInv, WarningsLeadHome, InFlight, UniqueIds, HasKeyword
<1>6. StillToLog'
  BY <1>2 DEF AloneInv, StillToLog
<1> QED
  BY <1>2, <1>4, <1>5, <1>6, LoggingAlone DEF AloneInv

\* The start of a report, and what comes before it is recorded.
LEMMA StartAlone ==
    ASSUME Alone, AloneInv, TypeInv', NEW p \in Reporters,
           \/ \E t \in Types \ {"SCHEDULED"} : Initialize(p, t)
           \/ SetScheduledReport(p)
           \/ LogReportStart(p)
    PROVE  AloneInv'
<1> USE DEF tables, history, Goto, AfterSend
<1>0. type \in [Reporters -> Types] /\ pc \in [Reporters -> Labels]
      /\ mail \in [Reporters -> Mails]
  BY DEF AloneInv, TypeInv, TypeOK
<1>1. ASSUME NEW t \in Types, Initialize(p, t) PROVE AloneInv'
  <2>1. sniffer.pc = "idle" /\ t # "INSTALL"
    BY <1>1 DEF Initialize, Alone
  <2>2. mail'[p] = EmptyMail /\ type'[p] = t /\ pc'[p] \in {"logReportStart", "isReportTime"}
    BY <1>0, <1>1 DEF Initialize
  <2>3. Contents(EmptyMail) = {}
    BY DEF Contents, EmptyMail
  <2>4. Reading(p)'
    BY <2>2, <2>3 DEF Reading
  <2> QED
    BY <1>1, <2>1, <2>2, <2>4, QuietStep DEF Initialize
<1>2. CASE SetScheduledReport(p)
  <2>1. sniffer.pc = "idle" /\ type'[p] # "INSTALL"
    BY <1>0, <1>2 DEF SetScheduledReport, AloneInv, OneAtATime, NoInstall
  <2>2. pc'[p] \in {"idle", "logReportStart"}
    BY <1>0, <1>2 DEF SetScheduledReport
  <2>3. Contents(mail[p]) \subseteq Stored /\ Stored' = Stored /\ mail' = mail
    BY <1>2 DEF SetScheduledReport, AloneInv, Reading, Stored
  <2>4. Reading(p)'
    BY <2>2, <2>3 DEF Reading
  <2> QED
    BY <1>2, <2>1, <2>4, QuietStep DEF SetScheduledReport
<1>3. CASE LogReportStart(p)
  <2>1. sniffer.pc = "idle" /\ type'[p] # "INSTALL" /\ type' = type
    BY <1>3 DEF LogReportStart, AloneInv, OneAtATime, NoInstall
  <2>2. pc'[p] = "getBypasses" \/ (pc'[p] = "send" /\ type[p] = "TEST")
    BY <1>0, <1>3, <2>1 DEF LogReportStart, AloneInv, NoInstall
  <2>3. Contents(mail[p]) \subseteq Stored /\ Stored' = Stored /\ mail' = mail
    BY <1>3 DEF LogReportStart, AloneInv, Reading, Stored
  <2>4. Reading(p)'
    BY <2>1, <2>2, <2>3 DEF Reading
  <2> QED
    BY <1>3, <2>1, <2>4, QuietStep DEF LogReportStart
<1> QED
  BY <1>1, <1>2, <1>3

\* Each section that is read lists what its table holds, and nothing else.
LEMMA ReadAlone ==
    ASSUME Alone, AloneInv, TypeInv', NEW p \in Reporters,
           \/ GetBypasses(p) \/ GetWarnings(p) \/ GetMatches(p) \/ GetHistory(p)
    PROVE  AloneInv'
<1> USE DEF tables, history, Goto, Read
<1>0. /\ type \in [Reporters -> Types] /\ pc \in [Reporters -> Labels]
      /\ mail \in [Reporters -> Mails] /\ mail[p] \in Mails
  BY DEF AloneInv, TypeInv, TypeOK
<1>1. /\ UNCHANGED <<tables, logging, type, history>>
      /\ pc[p] \in {"getBypasses", "getWarnings", "getMatches", "getHistory"}
  BY DEF GetBypasses, GetWarnings, GetMatches, GetHistory
<1>2. sniffer.pc = "idle" /\ type'[p] # "INSTALL"
  BY <1>1 DEF AloneInv, OneAtATime, NoInstall
<1>3. Contents(mail[p]) \subseteq Stored
  BY <1>1 DEF AloneInv, Reading, AfterSend
<1>4. Stored' = Stored /\ JoinedWarnings' = JoinedWarnings
  BY <1>1 DEF Stored, JoinedWarnings
<1>5. SUFFICES Reading(p)'
  BY <1>1, <1>2, QuietStep
<1>6. /\ \A r \in mail[p].urls : \E u \in urls : u.url = r
      /\ \A r \in mail[p].warnings : \E w \in warnings : w.by = r
      /\ \A x \in mail[p].bypasses : \E b \in bypasses : b.by = x
  BY <1>3, StoredIs, ContentsIs
<1>7. CASE GetBypasses(p)
  <2> DEFINE rows == {row.by : row \in bypasses}
  <2>1. /\ mail'[p] = [mail[p] EXCEPT !.bypasses = rows]
        /\ pc'[p] = "getWarnings"
    BY <1>0, <1>7 DEF GetBypasses
  <2>2. /\ mail'[p].bypasses = rows
        /\ mail'[p].urls = mail[p].urls /\ mail'[p].warnings = mail[p].warnings
    BY <1>0, <2>1 DEF Mails
  <2>3. Contents(mail'[p]) \subseteq Stored
    BY <1>6, <2>2, ListsStored
  <2>4. BypassesRead(p)'
    BY <1>1, <2>2 DEF BypassesRead
  <2> QED
    BY <1>4, <2>1, <2>3, <2>4 DEF Reading, AfterSend
<1>8. CASE GetWarnings(p)
  <2>1. /\ mail'[p] = [mail[p] EXCEPT !.joined = JoinedWarnings]
        /\ pc'[p] = "getMatches"
    BY <1>0, <1>8 DEF GetWarnings
  <2>2. /\ mail'[p].joined = JoinedWarnings
        /\ mail'[p].bypasses = mail[p].bypasses
        /\ mail'[p].urls = mail[p].urls /\ mail'[p].warnings = mail[p].warnings
    BY <1>0, <2>1 DEF Mails
  <2>3. Contents(mail'[p]) \subseteq Stored
    BY <1>6, <2>2, ListsStored
  <2>4. BypassesRead(p)'
    BY <1>1, <1>8, <2>2 DEF GetWarnings, AloneInv, Reading, BypassesRead
  <2> QED
    BY <1>4, <2>1, <2>2, <2>3, <2>4 DEF Reading, AfterSend
<1>9. CASE GetMatches(p)
  <2> DEFINE rows == {pair[2] : pair \in {pair \in mail[p].joined :
                                             \E m \in matches : m.urlId = pair[1]}}
  <2>1. /\ mail'[p] = [mail[p] EXCEPT !.warnings = rows]
        /\ pc'[p] = "getHistory"
    BY <1>0, <1>9 DEF GetMatches
  <2>2. /\ mail'[p].warnings = rows
        /\ mail'[p].urls = mail[p].urls /\ mail'[p].bypasses = mail[p].bypasses
    BY <1>0, <2>1 DEF Mails
  <2>3. mail[p].joined = JoinedWarnings
    BY <1>9 DEF GetMatches, AloneInv, Reading
  <2>4. ASSUME NEW r \in rows PROVE \E w \in warnings : w.by = r
    <3>1. PICK u \in urls : r = u.url /\ \E w \in warnings : w.urlId = u.rowid
      BY <2>3, <2>4 DEF JoinedWarnings
    <3>2. PICK w \in warnings : w.urlId = u.rowid
      BY <3>1
    <3>3. PICK v \in urls : v.rowid = w.urlId /\ v.url = w.by
      BY DEF AloneInv, WarningsLeadHome
    <3>4. v = u
      BY <3>2, <3>3 DEF AloneInv, UniqueIds
    <3> QED
      BY <3>1, <3>3, <3>4
  <2>5. Contents(mail'[p]) \subseteq Stored
    <3>1. \A r \in mail'[p].warnings : \E w \in warnings : w.by = r
      BY <2>2, <2>4
    <3> QED
      BY <1>6, <2>2, <3>1, ListsStored
  <2>6. ASSUME NEW w \in warnings, <<"warning", w.by>> \notin delivered PROVE w.by \in rows
    <3>1. PICK u \in urls : u.rowid = w.urlId /\ u.url = w.by
      BY DEF AloneInv, WarningsLeadHome
    <3>2. PICK m \in matches : m.urlId = w.urlId
      BY <1>2, <2>6 DEF AloneInv, HasKeyword
    <3>3. <<u.rowid, u.url>> \in mail[p].joined
      BY <2>3, <3>1 DEF JoinedWarnings
    <3> QED
      BY <3>1, <3>2, <3>3
  <2>7. WarningsRead(p)'
    BY <1>1, <2>2, <2>6 DEF WarningsRead
  <2>8. BypassesRead(p)'
    BY <1>1, <1>9, <2>2 DEF GetMatches, AloneInv, Reading, BypassesRead
  <2> QED
    BY <1>4, <2>1, <2>5, <2>7, <2>8 DEF Reading, AfterSend
<1>10. CASE GetHistory(p)
  <2> DEFINE rows == {row.url : row \in urls}
  <2>1. /\ mail'[p] = [mail[p] EXCEPT !.urls = rows]
        /\ pc'[p] = "send"
    BY <1>0, <1>10 DEF GetHistory
  <2>2. /\ mail'[p].urls = rows
        /\ mail'[p].warnings = mail[p].warnings /\ mail'[p].bypasses = mail[p].bypasses
    BY <1>0, <2>1 DEF Mails
  <2>3. Contents(mail'[p]) \subseteq Stored
    BY <1>6, <2>2, ListsStored
  <2>4. UrlsRead(p)'
    BY <1>1, <2>2 DEF UrlsRead
  <2>5. BypassesRead(p)' /\ WarningsRead(p)'
    BY <1>1, <1>10, <2>2 DEF GetHistory, AloneInv, Reading, BypassesRead, WarningsRead
  <2> QED
    BY <1>4, <2>1, <2>3, <2>4, <2>5 DEF Reading, AfterSend
<1> QED
  BY <1>7, <1>8, <1>9, <1>10

\* The mail that is accepted lists all that the tables hold, unless it is a test.
LEMMA SendMessageAlone ==
    ASSUME Alone, AloneInv, TypeInv', NEW p \in Reporters, SendMessage(p)
    PROVE  AloneInv'
<1> USE DEF tables
<1>1. /\ delivered' = delivered \cup Contents(mail[p]) /\ pc'[p] = "sent" /\ pc[p] = "send"
      /\ UNCHANGED <<tables, logging, type, mail, logged>>
  BY DEF SendMessage, Goto, AloneInv, TypeInv, TypeOK
<1>2. sniffer.pc = "idle" /\ UNCHANGED <<todo, sniffer>>
  BY <1>1 DEF AloneInv, OneAtATime, logging
<1>3. Stored' = Stored /\ Contents(mail[p]) \subseteq Stored
  BY <1>1 DEF AloneInv, Reading, AfterSend, Stored
<1>4. OnlyIncludedDeleted'
  BY <1>1, <1>3 DEF AloneInv, OnlyIncludedDeleted
<1>5. Honest'
  <2>1. \A r \in Requests : <<"warning", r>> \in Stored => r \in Flagged
    BY StoredIs DEF AloneInv, Honest
  <2> QED
    BY <1>1, <1>3, <2>1 DEF AloneInv, Honest, MailAccusesFlagged
<1>6. WarningsLeadHome' /\ UniqueIds' /\ InFlight' /\ HasKeyword' /\ StillToLog'
  BY <1>1, <1>2 DEF AloneInv, WarningsLeadHome, UniqueIds, InFlight, HasKeyword, StillToLog
<1>7. ASSUME type[p] # "TEST" PROVE Stored \subseteq delivered'
  <2>1. BypassesRead(p) /\ WarningsRead(p) /\ UrlsRead(p)
    BY <1>1, <1>7 DEF AloneInv, Reading
  <2>2. /\ \A u \in urls : <<"url", u.url>> \in delivered'
        /\ \A w \in warnings : <<"warning", w.by>> \in delivered'
        /\ \A b \in bypasses : <<"bypass", b.by>> \in delivered'
    BY <1>1, <2>1, ContentsIs DEF BypassesRead, WarningsRead, UrlsRead
  <2> QED
    BY <2>2 DEF Stored
<1>8. Reading(p)'
  BY <1>1, <1>3, <1>7 DEF Reading, AfterSend
<1>9. OneAtATime' /\ NoInstall' /\ \A q \in Reporters : Reading(q)'
  BY <1>1, <1>2, <1>8 DEF Alone, AloneInv, OneAtATime, NoInstall
<1> QED
  BY <1>4, <1>5, <1>6, <1>9 DEF AloneInv

\* The rest of a report deletes nothing but what was delivered.
LEMMA FinishAlone ==
    ASSUME Alone, AloneInv, TypeInv', NEW p \in Reporters,
           \/ Sending(p) \/ SelectTime(p) \/ LogReportFinish(p)
           \/ SendNoAddress(p) \/ SendFails(p) \/ RotateFails(p) \/ Crash(p)
    PROVE  AloneInv'
<1> USE DEF tables, history, Goto
<1>0. type \in [Reporters -> Types] /\ pc \in [Reporters -> Labels]
  BY DEF AloneInv, TypeInv, TypeOK
<1>1. /\ UNCHANGED <<urls, warnings, matches, bypasses, logging, type, mail, logged, delivered>>
      /\ pc[p] # "idle"
  BY SendingIs DEF SelectTime, LogReportFinish, SendNoAddress, SendFails, RotateFails, Crash
<1>2. sniffer.pc = "idle" /\ type'[p] # "INSTALL"
  BY <1>1 DEF AloneInv, OneAtATime, NoInstall
<1>3. Stored' = Stored /\ JoinedWarnings' = JoinedWarnings
  BY <1>1 DEF Stored, JoinedWarnings
<1>4. SUFFICES Reading(p)'
  BY <1>1, <1>2, QuietStep
<1>5. CASE pc'[p] = "idle"
  BY <1>5 DEF Reading, AfterSend
<1>6. CASE Sending(p) /\ pc[p] # "sleep" /\ pc'[p] # "idle"
  <2>1. /\ pc[p] \in {"sent", "improve", "request"}
        /\ pc'[p] \in {"improve", "request", "selectTime"}
        /\ pc'[p] = "selectTime" => type[p] # "TEST"
    BY <1>0, <1>6
       DEF Sending, SendAgain, CloseSession, ReadImprovementData, RequestReturns, AfterSending
  <2>2. type[p] # "TEST" => Stored \subseteq delivered
    BY <2>1 DEF AloneInv, Reading, AfterSend
  <2> QED
    BY <1>1, <1>3, <2>1, <2>2 DEF Reading, AfterSend
<1>7. CASE SelectTime(p) \/ RotateFails(p)
  <2>1. Stored \subseteq delivered
    BY <1>7 DEF SelectTime, RotateFails, AloneInv, Reading, AfterSend
  <2>2. pc'[p] \in {"selectTime", "deleteMatches"}
    BY <1>0, <1>7 DEF SelectTime, RotateFails, Alone
  <2> QED
    BY <1>1, <1>3, <2>1, <2>2 DEF Reading, AfterSend
<1>8. CASE pc[p] \in {"send", "sleep"} /\ pc'[p] \in {"send", "sleep"}
  <2>1. Reading(p)
    BY DEF AloneInv
  <2> QED
    BY <1>1, <1>3, <1>8, <2>1
       DEF Reading, AfterSend, BypassesRead, WarningsRead, UrlsRead
<1>9. CASE SendNoAddress(p) \/ (Sending(p) /\ pc[p] = "sleep")
  <2>1. /\ pc[p] \in {"send", "sleep"}
        /\ pc'[p] \in {"send", "sleep", "idle"}
    BY <1>0, <1>9
       DEF SendNoAddress, Sending, SendAgain, CloseSession, ReadImprovementData, RequestReturns
  <2> QED
    BY <1>5, <1>8, <2>1
<1>10. CASE LogReportFinish(p) \/ SendFails(p) \/ Crash(p)
  BY <1>0, <1>5, <1>10 DEF LogReportFinish, SendFails, Crash
<1> QED
  BY <1>5, <1>6, <1>7, <1>9, <1>10

\* What a step of the rotation deletes was delivered, and it leaves no warning
\* without its URL.
LEMMA RotateAlone ==
    ASSUME Alone, AloneInv, TypeInv', NEW p \in Reporters,
           \/ DeleteMatches(p) \/ DeleteWarnings(p) \/ DeleteUrls(p) \/ DeleteBypasses(p)
    PROVE  AloneInv'
<1> DEFINE Rotating == {"deleteMatches", "deleteWarnings", "deleteUrls", "deleteBypasses"}
<1>0. type \in [Reporters -> Types] /\ pc \in [Reporters -> Labels]
  BY DEF AloneInv, TypeInv, TypeOK
<1>1. /\ urls' \subseteq urls /\ warnings' \subseteq warnings /\ bypasses' \subseteq bypasses
      /\ UNCHANGED <<logging, type, mail, datetime, logged, delivered>>
      /\ pc[p] \in Rotating
  BY DEF DeleteMatches, DeleteWarnings, DeleteUrls, DeleteBypasses, Delete, history
<1>2. pc'[p] \in {"deleteWarnings", "deleteUrls", "deleteBypasses", "logReportFinish"}
  BY <1>0 DEF DeleteMatches, DeleteWarnings, DeleteUrls, DeleteBypasses, Delete, Goto
<1>3. sniffer.pc = "idle" /\ UNCHANGED <<todo, sniffer>>
  BY <1>1 DEF AloneInv, OneAtATime, logging
<1>4. Stored \subseteq delivered /\ Stored' \subseteq Stored
  BY <1>1 DEF AloneInv, Reading, AfterSend, Stored
<1>5. OnlyIncludedDeleted' /\ Honest'
  BY <1>1, <1>4 DEF AloneInv, OnlyIncludedDeleted, Honest, MailAccusesFlagged
<1>6. WarningsLeadHome'
  <2>1. CASE DeleteUrls(p)
    <3>1. urls' = urls \ OldUrls(p) /\ warnings' = warnings /\ pc[p] = "deleteUrls"
      BY <2>1 DEF DeleteUrls, Delete
    <3>2. \A w \in warnings : w.urlId \notin OldRowIds(p)
      BY <3>1 DEF AloneInv, Reading
    <3> QED
      BY <3>1, <3>2 DEF AloneInv, WarningsLeadHome, OldRowIds
  <2>2. CASE ~DeleteUrls(p)
    <3>1. urls' = urls
      BY <2>2 DEF DeleteMatches, DeleteWarnings, DeleteBypasses
    <3> QED
      BY <1>1, <3>1 DEF AloneInv, WarningsLeadHome
  <2> QED
    BY <2>1, <2>2
<1>7. UniqueIds' /\ InFlight' /\ StillToLog'
  BY <1>1, <1>3 DEF AloneInv, UniqueIds, InFlight, StillToLog
<1>8. HasKeyword'
  <2>1. \A w \in warnings : <<"warning", w.by>> \in delivered
    BY <1>4, StoredIs
  <2> QED
    BY <1>1, <2>1 DEF HasKeyword
<1>9. Reading(p)'
  <2>1. CASE pc'[p] = "deleteUrls"
    <3>1. DeleteWarnings(p)
      BY <1>0, <2>1 DEF DeleteMatches, DeleteWarnings, DeleteUrls, DeleteBypasses, Delete, Goto
    <3>2. OldRowIds(p)' = OldRowIds(p)
      BY <1>1, <3>1 DEF DeleteWarnings, OldRowIds, OldUrls
    <3>3. \A w \in warnings' : w.urlId \notin OldRowIds(p)
      BY <3>1 DEF DeleteWarnings
    <3> QED
      BY <1>1, <1>2, <1>4, <3>2, <3>3 DEF Reading, AfterSend
  <2>2. CASE pc'[p] # "deleteUrls"
    BY <1>1, <1>2, <1>4, <2>2 DEF Reading, AfterSend
  <2> QED
    BY <2>1, <2>2
<1>10. OneAtATime' /\ NoInstall' /\ \A q \in Reporters : Reading(q)'
  BY <1>1, <1>3, <1>9 DEF Alone, AloneInv, OneAtATime, NoInstall
<1> QED
  BY <1>5, <1>6, <1>7, <1>8, <1>10 DEF AloneInv

\* Every step of the process keeps what its reports rest on.
LEMMA AloneStep == Alone /\ AloneInv /\ [Next]_vars => AloneInv'
<1> SUFFICES ASSUME Alone, AloneInv, [Next]_vars PROVE AloneInv'
  OBVIOUS
<1>0. TypeInv'
  BY TypeStep DEF AloneInv
<1>1. CASE Tick \/ NetworkChanges \/ UNCHANGED vars
  BY <1>0, <1>1, SameAlone DEF Tick, NetworkChanges, vars
<1>2. CASE SnifferStep
  BY <1>0, <1>2, StampUrlAlone, InsertUrlAlone, InsertWarningAlone, InsertMatchAlone
     DEF SnifferStep
<1>3. CASE SnifferDies
  BY <1>3 DEF SnifferDies, Alone
<1>4. CASE \E b \in Incidents : LogBypass(b)
  BY <1>0, <1>4, LogBypassAlone
<1>5. ASSUME NEW p \in Reporters, Progress(p) PROVE AloneInv'
  BY <1>0, <1>5, StartAlone, ReadAlone, SendMessageAlone, FinishAlone, RotateAlone
     DEF Progress, Sending
<1>6. ASSUME NEW p \in Reporters, Failure(p) PROVE AloneInv'
  <2>1. CASE IsReportTimeFails(p) \/ LogReportStartFails(p)
    BY <1>0, <2>1, FailsAlone DEF IsReportTimeFails, LogReportStartFails
  <2>2. CASE GetBypassesFails(p) \/ GetWarningsFails(p)
    BY <1>0, <2>2, FailsAlone DEF GetBypassesFails, GetWarningsFails
  <2>3. CASE GetMatchesFails(p) \/ GetHistoryFails(p)
    BY <1>0, <2>3, FailsAlone DEF GetMatchesFails, GetHistoryFails
  <2>4. CASE LogReportFinishFails(p)
    BY <1>0, <2>4, FailsAlone DEF LogReportFinishFails
  <2>5. CASE SendNoAddress(p) \/ SendFails(p) \/ RotateFails(p)
    BY <1>0, <2>5, FinishAlone
  <2>6. CASE ReadImprovementDataFails(p)
    BY <1>0, <2>6, FailsAlone DEF ReadImprovementDataFails
  <2> QED
    BY <1>6, <2>1, <2>2, <2>3, <2>4, <2>5, <2>6 DEF Failure
<1>7. ASSUME NEW p \in Reporters,
             Crash(p) \/ \E t \in Types \ {"SCHEDULED"} : Initialize(p, t)
      PROVE  AloneInv'
  BY <1>0, <1>7, FinishAlone, StartAlone
<1> QED
  BY <1>1, <1>2, <1>3, <1>4, <1>5, <1>6, <1>7 DEF Next

\* At first there is nothing that could be lost.
LEMMA AloneInit == Init => AloneInv
<1> SUFFICES ASSUME Init PROVE AloneInv
  OBVIOUS
<1>1. Stored = {} /\ sniffer.pc = "idle"
  BY DEF Init, Stored, NotLogging
<1>2. Contents(EmptyMail) = {}
  BY DEF Contents, EmptyMail
<1>3. OnlyIncludedDeleted /\ WarningsLeadHome /\ OneAtATime /\ NoInstall /\ UniqueIds
  BY <1>1 DEF Init, OnlyIncludedDeleted, WarningsLeadHome, OneAtATime, NoInstall, UniqueIds
<1>4. InFlight /\ HasKeyword /\ StillToLog /\ Honest
  BY <1>1 DEF Init, InFlight, HasKeyword, StillToLog, Honest, MailAccusesFlagged
<1>5. \A p \in Reporters : Reading(p)
  BY <1>2 DEF Init, Reading, AfterSend
<1> QED
  BY <1>3, <1>4, <1>5, InitType DEF AloneInv

\* What the reports of one process rest on holds throughout.
LEMMA AlwaysAlone == Alone /\ Spec => []AloneInv
<1>1. ASSUME Alone PROVE Spec => []AloneInv
  <2>1. AloneInv /\ [Next]_vars => AloneInv'
    BY <1>1, AloneStep
  <2> QED
    BY <2>1, AloneInit, PTL DEF Spec
<1> QED
  BY <1>1

\* "Only entries older than the time for the report ... will be deleted"
\* (Database.h:148-150), and those have been included: a process that reports and
\* then sniffs loses nothing, wherever it dies and however often it starts again.
THEOREM NothingLost == Alone /\ Spec => []OnlyIncludedDeleted
<1>1. AloneInv => OnlyIncludedDeleted
  BY DEF AloneInv, Honest
<1> QED
  BY <1>1, AlwaysAlone, PTL

\* Its warnings lead to the URL they were raised for, as long as they are stored.
THEOREM WarningsCorrect == Alone /\ Spec => []WarningsLeadHome
<1>1. AloneInv => WarningsLeadHome
  BY DEF AloneInv, Honest
<1> QED
  BY <1>1, AlwaysAlone, PTL

\* Its reports accuse nobody of a request that the filter did not flag.
THEOREM MailCorrect == Alone /\ Spec => []MailAccusesFlagged
<1>1. AloneInv => MailAccusesFlagged
  BY DEF AloneInv, Honest
<1> QED
  BY <1>1, AlwaysAlone, PTL

-----------------------------------------------------------------------------
(***************************************************************************)
(* One process implements ReportDelivery.                                  *)
(***************************************************************************)
\* Every insert logs an entry that was not logged before.
LEMMA LogsOnce ==
    ASSUME AloneInv, InsertUrl \/ InsertWarning \/ \E b \in Incidents : LogBypass(b)
    PROVE  Delivery!Log
<1>1. CASE InsertUrl
  <2>1. /\ logged' = logged \cup {<<"url", sniffer.request>>}
        /\ <<"url", sniffer.request>> \in Entries \ logged
        /\ delivered' = delivered
    BY <1>1 DEF InsertUrl, AloneInv, TypeInv, StillToLog, Entries
  <2> QED
    BY <1>1, <2>1, StoresUrl DEF Delivery!Log
<1>2. CASE InsertWarning
  <2>1. /\ logged' = logged \cup {<<"warning", sniffer.request>>}
        /\ <<"warning", sniffer.request>> \in Entries \ logged
        /\ delivered' = delivered
    BY <1>2 DEF InsertWarning, AloneInv, TypeInv, StillToLog, Entries
  <2> QED
    BY <1>2, <2>1, StoresWarning DEF Delivery!Log
<1>3. ASSUME NEW b \in Incidents, LogBypass(b) PROVE Delivery!Log
  <2>1. /\ logged' = logged \cup {<<"bypass", b>>}
        /\ <<"bypass", b>> \in Entries \ logged
        /\ delivered' = delivered
    BY <1>3 DEF LogBypass, AloneInv, StillToLog, Entries
  <2> QED
    BY <1>3, <2>1, StoresBypass DEF Delivery!Log
<1> QED
  BY <1>1, <1>2, <1>3

\* The mail server accepts entries that are stored.
LEMMA DeliversStored ==
    ASSUME AloneInv, NEW p \in Reporters, SendMessage(p)
    PROVE  Delivery!Deliver
<1>1. Contents(mail[p]) \subseteq Stored
  BY DEF SendMessage, AloneInv, Reading, AfterSend
<1>2. delivered' = delivered \cup Contents(mail[p]) /\ UNCHANGED <<logged, Stored>>
  BY DEF SendMessage, Stored, tables
<1> QED
  BY <1>1, <1>2 DEF Delivery!Deliver

\* The rotation deletes entries that were delivered.
LEMMA RotatesDelivered ==
    ASSUME AloneInv, NEW p \in Reporters,
           \/ DeleteMatches(p) \/ DeleteWarnings(p) \/ DeleteUrls(p) \/ DeleteBypasses(p)
    PROVE  Delivery!Rotate
<1>1. Stored \subseteq delivered
  BY DEF DeleteMatches, DeleteWarnings, DeleteUrls, DeleteBypasses, Delete, AloneInv, Reading,
         AfterSend
<1>2. urls' \subseteq urls /\ warnings' \subseteq warnings /\ bypasses' \subseteq bypasses
  BY DEF DeleteMatches, DeleteWarnings, DeleteUrls, DeleteBypasses, Delete
<1>3. Stored' \subseteq Stored
  BY <1>2 DEF Stored
<1>4. UNCHANGED <<logged, delivered>>
  BY DEF DeleteMatches, DeleteWarnings, DeleteUrls, DeleteBypasses, Delete, history
<1>5. Stored \ Stored' \subseteq Stored \cap delivered /\ Stored' = Stored \ (Stored \ Stored')
  BY <1>1, <1>3
<1> QED
  BY <1>4, <1>5 DEF Delivery!Rotate

\* Whatever else happens is nothing to ReportDelivery.
LEMMA Stutters ==
    ASSUME AloneInv,
           \/ Tick \/ NetworkChanges \/ (\E r \in Requests : StampUrl(r)) \/ InsertMatch
           \/ SnifferDies \/ UNCHANGED vars
           \/ \E p \in Reporters :
                 \/ SetScheduledReport(p) \/ LogReportStart(p)
                 \/ GetBypasses(p) \/ GetWarnings(p) \/ GetMatches(p) \/ GetHistory(p)
                 \/ Sending(p) \/ SelectTime(p) \/ LogReportFinish(p)
                 \/ Failure(p) \/ Crash(p)
                 \/ \E t \in Types \ {"SCHEDULED"} : Initialize(p, t)
    PROVE  UNCHANGED Delivery!vars
<1> USE DEF tables, history
<1>1. UNCHANGED <<urls, warnings, bypasses, logged, delivered>>
  <2>1. CASE Tick \/ NetworkChanges \/ (\E r \in Requests : StampUrl(r)) \/ InsertMatch
             \/ SnifferDies \/ UNCHANGED vars
    BY <2>1 DEF Tick, NetworkChanges, StampUrl, InsertMatch, SnifferDies, vars
  <2>2. ASSUME NEW p \in Reporters,
               \/ SetScheduledReport(p) \/ LogReportStart(p)
               \/ GetBypasses(p) \/ GetWarnings(p) \/ GetMatches(p) \/ GetHistory(p)
               \/ Sending(p) \/ SelectTime(p) \/ LogReportFinish(p) \/ Crash(p)
        PROVE  UNCHANGED <<urls, warnings, bypasses, logged, delivered>>
    BY <2>2, SendingIs
       DEF SetScheduledReport, LogReportStart, GetBypasses, GetWarnings, GetMatches, GetHistory,
           Read, SelectTime, LogReportFinish, Crash
  <2>3. ASSUME NEW p \in Reporters, Failure(p)
        PROVE  UNCHANGED <<urls, warnings, bypasses, logged, delivered>>
    BY <2>3 DEF Failure, IsReportTimeFails, LogReportStartFails, GetBypassesFails,
                GetWarningsFails, GetMatchesFails, GetHistoryFails, SendNoAddress, SendFails,
                ReadImprovementDataFails, RotateFails, LogReportFinishFails, Fails
  <2>4. ASSUME NEW p \in Reporters, NEW t \in Types, Initialize(p, t)
        PROVE  UNCHANGED <<urls, warnings, bypasses, logged, delivered>>
    BY <2>4 DEF Initialize
  <2> QED
    BY <2>1, <2>2, <2>3, <2>4
<1>2. Stored' = Stored
  BY <1>1 DEF Stored
<1> QED
  BY <1>1, <1>2 DEF Delivery!vars

\* What one process does to the log, the mail and the tables, statement by
\* statement and crash by crash, is what ReportDelivery allows: entries are logged
\* once, mailed while they are stored, and deleted after they were mailed.
THEOREM DeliveryImplemented == Alone /\ Spec => ImplementsDelivery
<1>1. Init => Delivery!Init
  BY DEF Init, Delivery!Init, Stored
<1>2. AloneInv /\ [Next]_vars => [Delivery!Next]_(Delivery!vars)
  BY LogsOnce, DeliversStored, RotatesDelivered, Stutters
     DEF Next, SnifferStep, Progress, Sending, Delivery!Next
<1> QED
  BY <1>1, <1>2, AlwaysAlone, PTL DEF Spec, ImplementsDelivery, Delivery!Spec

-----------------------------------------------------------------------------
(***************************************************************************)
(* Scheduled reports keep their distance if one process sends them.        *)
(***************************************************************************)
OneReporter == \A p, q \in Reporters : p = q

\* A report that was completed when a scheduled one started is Frequency older.
Spaced ==
    \A m, n \in 1..Len(reports) :
        m < n /\ reports[n].scheduled /\ reports[m].completed
        => reports[m].time + Frequency <= reports[n].time

\* The report under way is the last one, and it is scheduled only if it may be.
InTurn(p) ==
    /\ pc[p] \notin Before => reportId[p] = Len(reports)
    /\ pc[p] = "isReportTime" => type[p] # "SCHEDULED"
    /\ pc[p] = "logReportStart" /\ type[p] = "SCHEDULED" => IsReportTime

\* ScheduledOncePerPeriod is not inductive: a report is completed long after its
\* start, but before the next one starts.
ScheduleInv == TypeInv /\ Spaced /\ \A p \in Reporters : InTurn(p)

\* What was long enough ago stays so.
LEMMA TimePasses == TypeInv /\ IsReportTime /\ now' \in {now, now + 1} /\ UNCHANGED reports
                    => IsReportTime'
<1> SUFFICES ASSUME TypeInv, IsReportTime, now' \in {now, now + 1}, UNCHANGED reports
             PROVE  IsReportTime'
  OBVIOUS
<1>1. now \in Nat /\ Frequency \in Nat
  BY ReportCycleAssumption DEF TypeInv, TypeOK
<1>2. ASSUME NEW n \in 1..Len(reports) PROVE reports[n].time \in Nat
  <2> DEFINE Row == [time : 0..MaxTime, scheduled : BOOLEAN, completed : BOOLEAN]
  <2>1. reports \in Seq(Row)
    BY DEF TypeInv, TypeOK
  <2>2. reports[n] \in Row
    <3> HIDE DEF Row
    <3> QED
      BY <1>2, <2>1
  <2> QED
    BY <2>2
<1> QED
  BY <1>1, <1>2 DEF IsReportTime

\* A step that leaves the reports alone and moves at most one reporter on.
LEMMA TurnKept ==
    ASSUME ScheduleInv, TypeInv', UNCHANGED <<reports, reportId>>, now' \in {now, now + 1},
           \A p \in Reporters :
              \/ UNCHANGED <<pc[p], type[p]>>
              \/ pc'[p] = "idle"
              \/ pc'[p] \notin Before /\ pc[p] \notin Before
              \/ pc'[p] = "isReportTime" /\ type'[p] # "SCHEDULED"
              \/ pc'[p] = "logReportStart" /\ (type'[p] = "SCHEDULED" => IsReportTime)
    PROVE  ScheduleInv'
<1>1. Spaced'
  BY DEF ScheduleInv, Spaced
<1>2. IsReportTime => IsReportTime'
  BY TimePasses DEF ScheduleInv
<1>3. ASSUME NEW p \in Reporters PROVE InTurn(p)'
  <2>1. InTurn(p)
    BY DEF ScheduleInv
  <2> QED
    BY <1>2, <2>1 DEF InTurn, Before
<1> QED
  BY <1>1, <1>3 DEF ScheduleInv

\* A statement that fails makes no report scheduled.
LEMMA FailsInTurn ==
    ASSUME ScheduleInv, TypeInv', NEW p \in Reporters, NEW l, NEW onward, Fails(p, l, onward),
           \/ onward = "idle"
           \/ onward \notin Before /\ l \notin Before
           \/ onward = "logReportStart" /\ type[p] # "SCHEDULED"
    PROVE  ScheduleInv'
<1>1. pc \in [Reporters -> Labels]
  BY DEF ScheduleInv, TypeInv, TypeOK
<1> QED
  BY <1>1, TurnKept DEF Fails, Goto, world, tables

\* Only the record and the completion of a report need OneReporter.
LEMMA ScheduleStep == OneReporter /\ ScheduleInv /\ [Next]_vars => ScheduleInv'
<1> SUFFICES ASSUME OneReporter, ScheduleInv, [Next]_vars PROVE ScheduleInv'
  OBVIOUS
<1> USE DEF world, tables
<1>0. /\ TypeInv' /\ pc \in [Reporters -> Labels] /\ type \in [Reporters -> Types]
      /\ reportId \in [Reporters -> 0..Len(reports)]
  BY TypeStep DEF ScheduleInv, TypeInv, TypeOK
<1>1. CASE Tick \/ NetworkChanges \/ SnifferStep \/ SnifferDies
           \/ (\E b \in Incidents : LogBypass(b)) \/ UNCHANGED vars
  BY <1>0, <1>1, TurnKept
     DEF Tick, NetworkChanges, SnifferStep, StampUrl, InsertUrl, InsertWarning, InsertMatch,
         SnifferDies, LogBypass, vars, reporterVars
<1>2. ASSUME NEW p \in Reporters, SetScheduledReport(p) PROVE ScheduleInv'
  <2>1. type[p] # "SCHEDULED"
    BY <1>2 DEF SetScheduledReport, ScheduleInv, InTurn
  <2> QED
    BY <1>0, <1>2, <2>1, TurnKept DEF SetScheduledReport, Goto
<1>3. ASSUME NEW p \in Reporters, LogReportStart(p) PROVE ScheduleInv'
  <2> DEFINE Row == [time : 0..MaxTime, scheduled : BOOLEAN, completed : BOOLEAN]
             row == [time |-> now, scheduled |-> type[p] = "SCHEDULED", completed |-> FALSE]
  <2>1. reports \in Seq(Row) /\ row \in Row /\ reports' = Append(reports, row)
    BY <1>3 DEF LogReportStart, ScheduleInv, TypeInv, TypeOK
  <2>2. /\ Len(reports') = Len(reports) + 1 /\ Len(reports) \in Nat
        /\ \A n \in 1..Len(reports) : reports'[n] = reports[n]
        /\ reports'[Len(reports) + 1] = row
    <3> HIDE DEF Row, row
    <3> QED
      BY <2>1
  <2>3. type[p] = "SCHEDULED" => IsReportTime
    BY <1>3 DEF LogReportStart, ScheduleInv, InTurn
  <2>4. Spaced'
    <3> SUFFICES ASSUME NEW m \in 1..Len(reports'), NEW n \in 1..Len(reports'), m < n,
                        reports'[n].scheduled, reports'[m].completed
                 PROVE  reports'[m].time + Frequency <= reports'[n].time
      BY DEF Spaced
    <3>1. m \in 1..Len(reports) /\ reports'[m] = reports[m]
      BY <2>2
    <3>2. CASE n \in 1..Len(reports)
      BY <2>2, <3>1, <3>2 DEF ScheduleInv, Spaced
    <3>3. CASE n = Len(reports) + 1
      <4>1. reports'[n] = row
        BY <2>2, <3>3
      <4>2. row.scheduled = (type[p] = "SCHEDULED") /\ row.time = now
        OBVIOUS
      <4> HIDE DEF row
      <4>3. type[p] = "SCHEDULED"
        BY <4>1, <4>2
      <4> QED
        BY <2>3, <3>1, <4>1, <4>2, <4>3 DEF IsReportTime
    <3> QED
      BY <2>2, <3>2, <3>3
  <2>5. InTurn(p)'
    BY <1>0, <1>3, <2>2 DEF LogReportStart, Goto, InTurn, Before
  <2> QED
    BY <1>0, <2>4, <2>5 DEF ScheduleInv, OneReporter
<1>4. ASSUME NEW p \in Reporters, LogReportFinish(p) PROVE ScheduleInv'
  <2>1. reportId[p] = Len(reports) /\ Len(reports) \in Nat
    <3>1. reportId[p] = Len(reports)
      BY <1>4 DEF LogReportFinish, ScheduleInv, InTurn, Before
    <3>2. Len(reports) \in Nat
      BY DEF ScheduleInv, TypeInv, TypeOK
    <3> QED
      BY <3>1, <3>2
  <2>2. /\ Len(reports') = Len(reports)
        /\ \A n \in 1..Len(reports) : n < Len(reports) => reports'[n] = reports[n]
        /\ \A n \in 1..Len(reports) : /\ reports'[n].scheduled = reports[n].scheduled
                                      /\ reports'[n].time = reports[n].time
    <3> DEFINE Row == [time : 0..MaxTime, scheduled : BOOLEAN, completed : BOOLEAN]
               row == [reports[reportId[p]] EXCEPT !.completed = TRUE]
    <3>1. reports \in Seq(Row)
      BY DEF ScheduleInv, TypeInv, TypeOK
    <3>2. reports' = [reports EXCEPT ![reportId[p]] = row]
      BY <1>4 DEF LogReportFinish
    <3>3. reportId[p] \in 1..Len(reports)
      BY <1>4 DEF LogReportFinish, ScheduleInv, TypeInv, Recorded, Before
    <3>4. reports[reportId[p]] \in Row
      <4> HIDE DEF Row
      <4> QED
        BY <3>1, <3>3
    <3>5. row.scheduled = reports[reportId[p]].scheduled /\ row.time = reports[reportId[p]].time
      BY <3>4
    <3> HIDE DEF Row, row
    <3> QED
      BY <2>1, <3>1, <3>2, <3>3, <3>5
  <2>3. Spaced'
    BY <2>1, <2>2 DEF ScheduleInv, Spaced
  <2>4. InTurn(p)'
    BY <1>0, <1>4 DEF LogReportFinish, Goto, InTurn, Before
  <2> QED
    BY <1>0, <2>3, <2>4 DEF ScheduleInv, OneReporter
<1>5. ASSUME NEW p \in Reporters,
             \/ GetBypasses(p) \/ GetWarnings(p) \/ GetMatches(p) \/ GetHistory(p)
      PROVE  ScheduleInv'
  BY <1>0, <1>5, TurnKept
     DEF GetBypasses, GetWarnings, GetMatches, GetHistory, Read, Goto, Before
<1>6. ASSUME NEW p \in Reporters, SendMessage(p) \/ Sending(p) \/ SelectTime(p)
      PROVE  ScheduleInv'
  BY <1>0, <1>6, TurnKept, SendingIs DEF SendMessage, SelectTime, Goto, Before
<1>7. ASSUME NEW p \in Reporters,
             DeleteMatches(p) \/ DeleteWarnings(p) \/ DeleteUrls(p) \/ DeleteBypasses(p)
      PROVE  ScheduleInv'
  BY <1>0, <1>7, TurnKept
     DEF DeleteMatches, DeleteWarnings, DeleteUrls, DeleteBypasses, Delete, Goto, Before
<1>8. ASSUME NEW p \in Reporters, Failure(p) PROVE ScheduleInv'
  <2>1. CASE IsReportTimeFails(p)
    <3>1. type[p] # "SCHEDULED"
      BY <2>1 DEF IsReportTimeFails, Fails, ScheduleInv, InTurn
    <3> QED
      BY <1>0, <2>1, <3>1, FailsInTurn DEF IsReportTimeFails
  <2>2. CASE LogReportStartFails(p) \/ LogReportFinishFails(p)
    BY <1>0, <2>2, FailsInTurn DEF LogReportStartFails, LogReportFinishFails
  <2>3. CASE GetBypassesFails(p) \/ GetWarningsFails(p)
    BY <1>0, <2>3, FailsInTurn DEF GetBypassesFails, GetWarningsFails, Before
  <2>4. CASE GetMatchesFails(p) \/ GetHistoryFails(p)
    BY <1>0, <2>4, FailsInTurn DEF GetMatchesFails, GetHistoryFails, Before
  <2>5. CASE SendNoAddress(p) \/ SendFails(p)
    BY <1>0, <2>5, TurnKept DEF SendNoAddress, SendFails, Goto, Before
  <2>6. CASE RotateFails(p)
    BY <1>0, <2>6, TurnKept DEF RotateFails, Goto, Before
  <2>7. CASE ReadImprovementDataFails(p)
    <3>1. AfterSending(p) \in {"idle", "selectTime"}
      BY DEF AfterSending
    <3> QED
      BY <1>0, <2>7, <3>1, FailsInTurn DEF ReadImprovementDataFails, Before
  <2> QED
    BY <1>8, <2>1, <2>2, <2>3, <2>4, <2>5, <2>6, <2>7 DEF Failure
<1>9. ASSUME NEW p \in Reporters, Crash(p) PROVE ScheduleInv'
  BY <1>0, <1>9, TurnKept DEF Crash, Goto
<1>10. ASSUME NEW p \in Reporters, NEW t \in Types \ {"SCHEDULED"}, Initialize(p, t)
       PROVE  ScheduleInv'
  BY <1>0, <1>10, TurnKept DEF Initialize, Goto
<1> QED
  BY <1>1, <1>2, <1>3, <1>4, <1>5, <1>6, <1>7, <1>8, <1>9, <1>10 DEF Next, Progress, Sending

\* With one reporter the report under way is always the last one.
LEMMA AlwaysInTurn == OneReporter /\ Spec => []ScheduleInv
<1>1. ASSUME OneReporter PROVE Spec => []ScheduleInv
  <2>1. Init => ScheduleInv
    <3>1. Init => /\ TypeInv /\ reports = <<>>
                  /\ pc = [p \in Reporters |-> "idle"]
      BY InitType DEF Init
    <3> QED
      BY <3>1 DEF ScheduleInv, Spaced, InTurn, Before
  <2>2. ScheduleInv /\ [Next]_vars => ScheduleInv'
    BY <1>1, ScheduleStep
  <2> QED
    BY <2>1, <2>2, PTL DEF Spec
<1> QED
  BY <1>1

\* "Returns the number of days between scheduled reports" (Options.h:163): as long
\* as one process reports, whatever it meets, two scheduled reports that were
\* completed are Frequency apart.
THEOREM ScheduleCorrect == OneReporter /\ Spec => []ScheduledOncePerPeriod
<1>1. ScheduleInv => ScheduledOncePerPeriod
  BY DEF ScheduleInv, Spaced, ScheduledOncePerPeriod
<1> QED
  BY <1>1, AlwaysInTurn, PTL

=============================================================================
