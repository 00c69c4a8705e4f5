---------------------------- MODULE ReportProofs ----------------------------
(***************************************************************************)
(* Proofs about Report, for any requests, incidents, options, days and     *)
(* reports, and any number of processes that report at once.               *)
(***************************************************************************)
EXTENDS Report, FiniteSetTheorems, SequenceTheorems, TLAPS

Labels == {"idle", "listDirectory", "send", "rotate"} \cup Reading \cup Saving
Circumstances == {"split", "overlap", "unsaved", "rotated", "orphaned"}
Rowids == 1..Cardinality(Requests)

UrlRow     == [rowid : Rowids, request : Requests]
WarningRow == [urlId : Rowids, match : Requests]
MatchRow   == [urlId : Rowids, keyword : Words]
SectionRow == [urlId : Rowids, url : Requests, match : Requests, keywords : SUBSET Words]
File == [date : 0..MaxDay, number : 0..MaxReports, zip : BOOLEAN, by : 1..MaxReports,
         content : SUBSET Items]
Job == [report : (0..MaxReports) \cup {None}, old : SUBSET (Requests \cup Incidents),
        rows : Seq(SectionRow), index : Nat,
        domains : SUBSET Range(Domain), domain : Range(Domain) \cup {None},
        hosts : SUBSET Hosts, listed : SUBSET Items,
        body : SUBSET Items, attached : SUBSET Items,
        date : 0..MaxDay, number : 0..MaxReports, names : SUBSET Names,
        attachment : SUBSET Names]

\* TypeOK, and what the numbers of rows and reports need.
TablesType ==
    /\ urls \subseteq UrlRow /\ warnings \subseteq WarningRow
    /\ matches \subseteq MatchRow /\ bypasses \subseteq Incidents
    /\ todo \subseteq Requests \cup Incidents
    /\ sniffer \in [pc : {"idle", "insertWarning", "insertMatches"},
                    request : Requests \cup {None}, lastRowId : 0..Cardinality(Requests)]
    /\ sniffer.pc # "idle" => sniffer.request \in Requests /\ sniffer.lastRowId \in Rowids
    /\ \A u \in urls : u.rowid <= Cardinality(Requests \ todo)

ReportersType ==
    /\ pc \in [Reporters -> Labels]
    /\ job \in [Reporters -> Job]
    /\ \A p \in Reporters : pc[p] # "idle" => job[p].report \in 1..reports
    /\ \A p \in Reporters : pc[p] = "getMatches" => job[p].index \in 1..Len(job[p].rows)
    /\ \A p \in Reporters : pc[p] = "getHistory" => job[p].domain \in Range(Domain) /\ job[p].hosts # {}

TypeInv ==
    /\ options \in Configurations
    /\ day \in 0..MaxDay
    /\ TablesType
    /\ files \subseteq File
    /\ \A f \in files : f.by <= reports
    /\ ReportersType
    /\ reports \in 0..MaxReports
    /\ mailed \subseteq Items
    /\ deleted \subseteq Requests \cup Incidents
    /\ mishaps \subseteq Circumstances

\* The reports whose file is still to be written.
Pending == {p \in Reporters : pc[p] \in Reading \cup {"listDirectory", "visitEntry"}}

\* Of the reports started so many have a file or none, so that no file has a
\* higher number.
Filed == reports - Cardinality(Pending)

NumberInv ==
    /\ IsFiniteSet(Pending)
    /\ Cardinality(Pending) <= reports
    /\ \A f \in files : f.number <= Filed
    /\ \A p \in Pending :
          job[p].number <= Filed /\ \A name \in job[p].names : name.number <= Filed

-----------------------------------------------------------------------------
\* What the tables say of a request is about that request.
TablesInv ==
    /\ \A w \in warnings : \E u \in urls : u.rowid = w.urlId /\ u.request = w.match
    /\ \A m \in matches : \E u \in urls : u.rowid = m.urlId /\ m.keyword \in Keywords[u.request]
    /\ sniffer.pc # "idle" =>
          \E u \in urls : u.rowid = sniffer.lastRowId /\ u.request = sniffer.request

\* The rows of urls are told apart by their rowids, and by their requests.
KeysInv ==
    /\ \A u, v \in urls : u.rowid = v.rowid => u = v
    /\ \A u, v \in urls : u.request = v.request => u = v
    /\ \A u \in urls : u.request \notin todo

Just(item) ==
    /\ item[1] = "warning" =>
          /\ item[3] = item[4]
          /\ item[2] \in Keywords[item[3]]
          /\ item[3] \notin Whitelisted
          /\ Strength[item[3]] >= options.threshold
    /\ item[1] = "whitelist" => item[2] \in Whitelisted
    /\ item[1] = "path" => <<Host[item[3]], item[2]>> \in EndsIn
    /\ item[1] = "host" => <<item[3], item[2]>> \in EndsIn

JustRow(row) ==
    /\ row.match = row.url
    /\ row.match \notin Whitelisted
    /\ Strength[row.match] >= options.threshold
    /\ row.keywords \subseteq Keywords[row.url]
    /\ \E u \in urls : u.rowid = row.urlId /\ u.request = row.url

JustJob(p) == LET j == job[p] IN
    /\ \A item \in j.body \cup j.attached \cup j.listed : Just(item)
    /\ pc[p] = "getMatches" => \A n \in 1..Len(j.rows) : JustRow(j.rows[n])
    /\ pc[p] = "getHistory" => \A h \in j.hosts : <<h, j.domain>> \in EndsIn

JustParts ==
    /\ TablesInv
    /\ \A item \in mailed : Just(item)
    /\ \A f \in files : \A item \in f.content : Just(item)
    /\ \A p \in Reporters : JustJob(p)

JustInv == {"rotated", "orphaned"} \cap mishaps = {} => JustParts

-----------------------------------------------------------------------------
\* Files are told apart by their names, and none is of a day to come.
NamesInv ==
    /\ \A f, g \in files : Name(f) = Name(g) => f = g
    /\ \A f \in files : f.date <= day
    /\ \A p \in Reporters : pc[p] \in Saving =>
          job[p].date <= day /\ \A name \in job[p].names : name.date <= job[p].date

\* While a report is saved, no other file of that day has a name it may choose.
SavingInv(p) == LET j == job[p] IN
    /\ pc[p] = "visitEntry" => \A f \in files :
          f.date = j.date => Name(f) \in j.names \/ f.number <= j.number
    /\ pc[p] = "attachFile" => \A f \in files :
          f.date = j.date => f.number <= j.number /\ (f.number = j.number => f.by = j.report)

\* The process that saves will not choose the name of a file that waits.
Apart(name, q) == pc[q] \in Saving /\ name.date = job[q].date =>
    IF pc[q] = "visitEntry" THEN name \in job[q].names \/ name.number <= job[q].number
    ELSE name.number < job[q].number

\* A file that waits to be mailed is the report's own, or was removed on a day
\* that came after.
Waits(p, name) ==
    /\ job[p].attachment = {name}
    /\ name.date <= day
    /\ name.date = day => \E f \in files : Name(f) = name
    /\ \A f \in files : Name(f) = name => f.by = job[p].report
    /\ \A q \in Reporters : Apart(name, q)

\* One process saves at a time, and no file is taken for that of another report.
OneSaves == \A p, q \in Reporters : pc[p] \in Saving /\ pc[q] \in Saving => p = q

FilesApart ==
    /\ OneSaves
    /\ \A p \in Reporters : SavingInv(p)
    /\ \A p \in Reporters : pc[p] = "send" => \E name \in Names : Waits(p, name)

MailInv ==
    {"overlap", "unsaved"} \cap mishaps = {} =>
        FilesApart /\ \A mail \in accepted : mail.enclosed = {mail.report}

-----------------------------------------------------------------------------
\* The numbers are well-ordered.
LEMMA LeastNumber == \A S \in SUBSET Nat : S # {} => \E m \in S : \A n \in S : m <= n
<1> TAKE S \in SUBSET Nat
<1> HAVE S # {}
<1> DEFINE Less == {pair \in Nat \X Nat : pair[1] < pair[2]}
<1>1. IsWellFoundedOn(Less, Nat)
  BY NatLessThanWellFounded, Zenon DEF OpToRel
<1>2. \A m, n \in Nat : m < n => <<m, n>> \in Less
  OBVIOUS
<1> HIDE DEF Less
<1>3. PICK m \in S : \A n \in S : <<n, m>> \notin Less
  BY <1>1, WFMin
<1>4. \A n \in S : n \in Nat /\ m \in Nat /\ ~(n < m)
  BY <1>2, <1>3
<1>5. \A n \in S : m <= n
  BY <1>4
<1> QED BY <1>5

\* A set of numbers that is bounded has a largest one.
LEMMA MaxIsMax ==
    \A S \in SUBSET Nat, bound \in Nat :
        S # {} /\ (\A n \in S : n <= bound) => Max(S) \in S /\ \A n \in S : n <= Max(S)
<1> TAKE S \in SUBSET Nat, bound \in Nat
<1> HAVE S # {} /\ \A n \in S : n <= bound
<1> DEFINE Gaps == {bound - n : n \in S}
<1>1. Gaps \in SUBSET Nat /\ Gaps # {}
  OBVIOUS
<1>2. PICK gap \in Gaps : \A other \in Gaps : gap <= other
  <2> HIDE DEF Gaps
  <2> QED BY <1>1, LeastNumber
<1>3. PICK m \in S : gap = bound - m
  OBVIOUS
<1>4. \A n \in S : m >= n
  <2> TAKE n \in S
  <2>1. bound - n \in Gaps
    OBVIOUS
  <2>2. bound - m <= bound - n
    BY <1>2, <1>3, <2>1
  <2> QED BY <2>2
<1> QED BY <1>4 DEF Max

\* The larger of two numbers.
LEMMA MaxOfTwo ==
    \A m, n \in Nat : Max({m, n}) \in {m, n} /\ m <= Max({m, n}) /\ n <= Max({m, n})
<1> TAKE m, n \in Nat
<1>1. \E max \in {m, n} : \A other \in {m, n} : max >= other
  <2>1. CASE m >= n
    BY <2>1
  <2>2. CASE ~(m >= n)
    BY <2>2
  <2> QED BY <2>1, <2>2
<1>2. Max({m, n}) \in {m, n} /\ \A other \in {m, n} : Max({m, n}) >= other
  BY <1>1 DEF Max
<1> QED BY <1>2

\* A finite set put in some order has each of its elements.
LEMMA SetToSeqIs ==
    ASSUME NEW S, IsFiniteSet(S)
    PROVE  /\ SetToSeq(S) \in Seq(S)
           /\ Len(SetToSeq(S)) = Cardinality(S)
           /\ \A n \in 1..Len(SetToSeq(S)) : SetToSeq(S)[n] \in S
           /\ \A x \in S : \E n \in 1..Len(SetToSeq(S)) : SetToSeq(S)[n] = x
<1> DEFINE D == 1..Cardinality(S)
<1>1. Cardinality(S) \in Nat /\ ExistsBijection(D, S)
  BY FS_CardinalityType
<1>2. \E f \in [D -> S] : IsInjective(f)
  BY <1>1 DEF ExistsBijection, Bijection, Injection
<1>3. SetToSeq(S) \in [D -> S] /\ IsInjective(SetToSeq(S))
  BY <1>2 DEF SetToSeq
<1>4. SetToSeq(S) \in Seq(S) /\ Len(SetToSeq(S)) = Cardinality(S)
  BY <1>1, <1>3
<1>5. IsFiniteSet(D) /\ Cardinality(D) = Cardinality(S)
  BY <1>1, FS_Interval
<1>6. SetToSeq(S) \in Injection(D, S)
  BY <1>3 DEF Injection
<1>7. SetToSeq(S) \in Surjection(D, S)
  BY <1>5, <1>6, FS_Injection
<1>8. \A x \in S : \E n \in D : SetToSeq(S)[n] = x
  BY <1>7 DEF Surjection
<1> QED BY <1>3, <1>4, <1>8

-----------------------------------------------------------------------------
\* What the constants are.
LEMMA ConstantsAre ==
    /\ IsFiniteSet(Requests)
    /\ Cardinality(Requests) \in Nat
    /\ MaxDay \in Nat /\ MaxReports \in Nat
    /\ \A r \in Requests : Host[r] \in Hosts /\ Strength[r] \in Nat
    /\ \A r \in Requests : Keywords[r] \subseteq Words
    /\ \A h \in Hosts : Domain[h] \in Range(Domain) /\ <<h, Domain[h]>> \in EndsIn
<1>1. IsFiniteSet(Requests) /\ Cardinality(Requests) \in Nat
  BY ReportAssumption, FS_CardinalityType
<1>2. \A h \in Hosts : Domain[h] \in Range(Domain)
  BY ReportAssumption DEF Range
<1> QED BY <1>1, <1>2, ReportAssumption DEF Hosts, Words

\* The items of a report.
LEMMA ItemsAre ==
    /\ \A b \in Incidents : <<"bypass", b>> \in Items
    /\ \A k \in Words, r \in Requests, s \in Requests : <<"warning", k, r, s>> \in Items
    /\ \A r \in Requests : <<"whitelist", r>> \in Items
    /\ \A d \in Range(Domain), r \in Requests : <<"path", d, r>> \in Items
    /\ \A d \in Range(Domain), h \in Hosts : <<"host", d, h>> \in Items
<1>1. \A b \in Incidents : <<"bypass", b>> \in {"bypass"} \X Incidents
  OBVIOUS
<1>2. \A k \in Words, r \in Requests, s \in Requests :
         <<"warning", k, r, s>> \in {"warning"} \X Words \X Requests \X Requests
  OBVIOUS
<1>3. \A r \in Requests : <<"whitelist", r>> \in {"whitelist"} \X Requests
  OBVIOUS
<1>4. \A d \in Range(Domain), r \in Requests : <<"path", d, r>> \in {"path"} \X Range(Domain) \X Requests
  OBVIOUS
<1>5. \A d \in Range(Domain), h \in Hosts : <<"host", d, h>> \in {"host"} \X Range(Domain) \X Hosts
  OBVIOUS
<1>6. /\ {"bypass"} \X Incidents \subseteq Items
      /\ {"warning"} \X Words \X Requests \X Requests \subseteq Items
      /\ {"whitelist"} \X Requests \subseteq Items
      /\ {"path"} \X Range(Domain) \X Requests \subseteq Items
      /\ {"host"} \X Range(Domain) \X Hosts \subseteq Items
  BY Zenon DEF Items
<1>7. \A b \in Incidents : <<"bypass", b>> \in Items
  BY <1>1, <1>6, Zenon
<1>8. \A k \in Words, r \in Requests, s \in Requests : <<"warning", k, r, s>> \in Items
  BY <1>2, <1>6, Zenon
<1>9. \A r \in Requests : <<"whitelist", r>> \in Items
  BY <1>3, <1>6, Zenon
<1>10. \A d \in Range(Domain), r \in Requests : <<"path", d, r>> \in Items
  BY <1>4, <1>6, Zenon
<1>11. \A d \in Range(Domain), h \in Hosts : <<"host", d, h>> \in Items
  BY <1>5, <1>6, Zenon
<1> QED BY <1>7, <1>8, <1>9, <1>10, <1>11

\* The options that are in force.
LEMMA OptionsAre ==
    ASSUME options \in Configurations
    PROVE  /\ options.body \subseteq Parts /\ options.attached \subseteq Parts
           /\ options.threshold \in Nat /\ options.compress \in BOOLEAN
<1>1. options \in [body : SUBSET Parts, attached : SUBSET Parts, threshold : Nat, compress : BOOLEAN]
  BY ReportAssumption
<1> QED BY <1>1

\* The fields of a report that are not about its contents.
SameReport(j, old) ==
    /\ j.report = old.report /\ j.old = old.old /\ j.attachment = old.attachment
    /\ j.number = old.number /\ j.names = old.names /\ j.date = old.date

\* A section is put into the body, into the file, both or neither.
LEMMA WithSectionIs ==
    ASSUME NEW j \in Job, NEW part, NEW items \in SUBSET Items
    PROVE  /\ WithSection(j, part, items) \in Job
           /\ SameReport(WithSection(j, part, items), j)
           /\ WithSection(j, part, items).body =
                IF part \in options.body THEN j.body \cup items ELSE j.body
           /\ WithSection(j, part, items).attached =
                IF part \in options.attached THEN j.attached \cup items ELSE j.attached
           /\ WithSection(j, part, items).listed = j.listed
           /\ WithSection(j, part, items).hosts = j.hosts
           /\ WithSection(j, part, items).domains = j.domains
           /\ WithSection(j, part, items).domain = j.domain
BY DEF WithSection, Job, SameReport

\* The rows of a report, and the index of its cursor.
WithRows(j, rows, index) == [j EXCEPT !.rows = rows, !.index = index]

LEMMA WithRowsIs ==
    ASSUME NEW j \in Job, NEW rows \in Seq(SectionRow), NEW index \in Nat
    PROVE  LET new == WithRows(j, rows, index) IN
           /\ new \in Job
           /\ SameReport(new, j)
           /\ new.rows = rows /\ new.index = index
           /\ new.body = j.body /\ new.attached = j.attached /\ new.listed = j.listed
           /\ new.hosts = j.hosts /\ new.domains = j.domains /\ new.domain = j.domain
BY DEF Job, SameReport, WithRows

\* The job that a reporter starts with.
LEMMA NoJobIs ==
    /\ NoJob \in Job
    /\ \A report \in 0..MaxReports, old \in SUBSET (Requests \cup Incidents) :
          LET j == [NoJob EXCEPT !.report = report, !.old = old] IN
          /\ j \in Job
          /\ j.report = report
          /\ j.old = old
          /\ j.number = 0 /\ j.names = {} /\ j.attachment = {}
          /\ j.body = {} /\ j.attached = {} /\ j.listed = {}
<1>1. <<>> \in Seq(SectionRow)
  OBVIOUS
<1>2. 0 \in 0..MaxDay /\ 0 \in 0..MaxReports
  BY ConstantsAre
<1> QED BY <1>1, <1>2, ZenonT(60) DEF NoJob, Job

\* A step of a reporter changes what that reporter has.
LEMMA StepIs ==
    ASSUME TypeInv, NEW p \in Reporters, NEW label, NEW onward \in Labels, NEW j \in Job,
           Step(p, label, onward, j)
    PROVE  /\ pc[p] = label
           /\ pc' \in [Reporters -> Labels]
           /\ job' \in [Reporters -> Job]
           /\ pc'[p] = onward /\ job'[p] = j
           /\ \A q \in Reporters : q # p => pc'[q] = pc[q] /\ job'[q] = job[q]
BY DEF TypeInv, ReportersType, Step

\* The reporters stay in their types.
LEMMA ReporterType ==
    ASSUME TypeInv, NEW p \in Reporters, NEW label, NEW onward \in Labels, NEW j \in Job,
           Step(p, label, onward, j), reports' \in 0..MaxReports, reports <= reports',
           onward # "idle" => j.report \in 1..reports',
           onward = "getMatches" => j.index \in 1..Len(j.rows),
           onward = "getHistory" => j.domain \in Range(Domain) /\ j.hosts # {}
    PROVE  ReportersType'
<1>1. /\ pc' \in [Reporters -> Labels] /\ job' \in [Reporters -> Job]
      /\ pc'[p] = onward /\ job'[p] = j
      /\ \A q \in Reporters : q # p => pc'[q] = pc[q] /\ job'[q] = job[q]
  BY StepIs, ZenonT(60)
<1>2. reports \in Nat /\ reports' \in Nat
  BY ConstantsAre DEF TypeInv
<1>3. ASSUME NEW q \in Reporters, pc'[q] # "idle" PROVE job'[q].report \in 1..reports'
  <2>1. CASE q = p
    BY <1>1, <1>3, <2>1
  <2>2. CASE q # p
    <3>1. job[q].report \in 1..reports
      BY <1>1, <1>3, <2>2 DEF TypeInv, ReportersType
    <3> QED BY <1>1, <1>2, <2>2, <3>1
  <2> QED BY <2>1, <2>2
<1>4. ASSUME NEW q \in Reporters, pc'[q] = "getMatches" PROVE job'[q].index \in 1..Len(job'[q].rows)
  <2>1. CASE q = p
    BY <1>1, <1>4, <2>1
  <2>2. CASE q # p
    BY <1>1, <1>4, <2>2 DEF TypeInv, ReportersType
  <2> QED BY <2>1, <2>2
<1>5. ASSUME NEW q \in Reporters, pc'[q] = "getHistory"
      PROVE  job'[q].domain \in Range(Domain) /\ job'[q].hosts # {}
  <2>1. CASE q = p
    BY <1>1, <1>5, <2>1
  <2>2. CASE q # p
    BY <1>1, <1>5, <2>2 DEF TypeInv, ReportersType
  <2> QED BY <2>1, <2>2
<1> QED BY <1>1, <1>3, <1>4, <1>5 DEF ReportersType

\* The tables and the sniffer do when nothing is logged or deleted.
LEMMA TablesSame ==
    ASSUME TypeInv, UNCHANGED <<urls, warnings, matches, bypasses, todo, sniffer>>
    PROVE  TablesType'
BY DEF TypeInv, TablesType

\* A reporter that reads goes on with its report.
LEMMA ReadType ==
    ASSUME TypeInv, NEW p \in Reporters, NEW label \in Labels \ {"idle"},
           NEW onward \in Labels, NEW j \in Job,
           Read(p, label, onward, j), j.report = job[p].report,
           onward = "getMatches" => j.index \in 1..Len(j.rows),
           onward = "getHistory" => j.domain \in Range(Domain) /\ j.hosts # {}
    PROVE  TypeInv'
<1>1. /\ Step(p, label, onward, j)
      /\ UNCHANGED <<options, day, urls, warnings, matches, bypasses, files, todo, sniffer,
                     reports, accepted, mailed, deleted, mishaps>>
  BY DEF Read, world, tables, logging, history
<1>2. pc[p] # "idle" /\ j.report \in 1..reports
  BY <1>1 DEF Step, TypeInv, ReportersType
<1>3. reports \in 0..MaxReports /\ reports <= reports
  BY ConstantsAre DEF TypeInv
<1>4. ReportersType'
  BY <1>1, <1>2, <1>3, ReporterType
<1>5. TablesType'
  BY <1>1, TablesSame
<1> QED BY <1>1, <1>4, <1>5 DEF TypeInv

-----------------------------------------------------------------------------
\* The tables are finite, and so are the sections.
LEMMA TablesFinite ==
    ASSUME TypeInv
    PROVE  IsFiniteSet(urls) /\ IsFiniteSet(warnings)
<1>1. IsFiniteSet(Rowids) /\ IsFiniteSet(Requests)
  BY ConstantsAre, FS_Interval DEF Rowids
<1>2. IsFiniteSet(Rowids \X Requests)
  BY <1>1, FS_Product
<1>3. IsFiniteSet(UrlRow)
  <2> DEFINE f == [u \in UrlRow |-> <<u.rowid, u.request>>]
  <2>1. f \in Injection(UrlRow, Rowids \X Requests)
    BY DEF Injection, IsInjective, UrlRow
  <2> HIDE DEF f
  <2> QED BY <1>2, <2>1, FS_Injection
<1>4. IsFiniteSet(WarningRow)
  <2> DEFINE f == [w \in WarningRow |-> <<w.urlId, w.match>>]
  <2>1. f \in Injection(WarningRow, Rowids \X Requests)
    BY DEF Injection, IsInjective, WarningRow
  <2> HIDE DEF f
  <2> QED BY <1>2, <2>1, FS_Injection
<1> QED BY <1>3, <1>4, FS_Subset DEF TypeInv, TablesType

\* A row of the join stems from a warning and the URL it leads to.
LEMMA JoinedIs ==
    ASSUME TypeInv, NEW whitelist \in BOOLEAN
    PROVE  /\ Joined(whitelist) \subseteq SectionRow
           /\ IsFiniteSet(Joined(whitelist))
           /\ \A row \in Joined(whitelist) : \E w \in warnings, u \in urls :
                 /\ w.urlId = u.rowid
                 /\ (w.match \in Whitelisted) = whitelist
                 /\ row = [urlId |-> u.rowid, url |-> u.request, match |-> w.match, keywords |-> {}]
           /\ \A w \in warnings, u \in urls :
                 w.urlId = u.rowid /\ (w.match \in Whitelisted) = whitelist =>
                 [urlId |-> u.rowid, url |-> u.request, match |-> w.match, keywords |-> {}]
                 \in Joined(whitelist)
<1> DEFINE RowOf(pair) == [urlId |-> pair[2].rowid, url |-> pair[2].request,
                           match |-> pair[1].match, keywords |-> {}]
<1>1. Joined(whitelist) = {RowOf(pair) : pair \in Matching(whitelist)}
  BY DEF Joined
<1>2. Matching(whitelist) \subseteq warnings \X urls
  BY DEF Matching
<1>3. \A row \in Joined(whitelist) : \E w \in warnings, u \in urls :
                 /\ w.urlId = u.rowid
                 /\ (w.match \in Whitelisted) = whitelist
                 /\ row = [urlId |-> u.rowid, url |-> u.request, match |-> w.match, keywords |-> {}]
  <2> TAKE row \in Joined(whitelist)
  <2>1. PICK pair \in Matching(whitelist) : row = RowOf(pair)
    BY <1>1
  <2>2. pair[1] \in warnings /\ pair[2] \in urls
    BY <1>2
  <2>3. pair[1].urlId = pair[2].rowid /\ (pair[1].match \in Whitelisted) = whitelist
    BY DEF Matching
  <2> QED BY <2>1, <2>2, <2>3
<1>4. \A w \in warnings, u \in urls :
         w.urlId = u.rowid /\ (w.match \in Whitelisted) = whitelist =>
         [urlId |-> u.rowid, url |-> u.request, match |-> w.match, keywords |-> {}] \in Joined(whitelist)
  <2> TAKE w \in warnings, u \in urls
  <2> HAVE w.urlId = u.rowid /\ (w.match \in Whitelisted) = whitelist
  <2>1. <<w, u>> \in Matching(whitelist)
    BY DEF Matching
  <2>2. RowOf(<<w, u>>) = [urlId |-> u.rowid, url |-> u.request, match |-> w.match, keywords |-> {}]
    OBVIOUS
  <2>3. RowOf(<<w, u>>) \in Joined(whitelist)
    BY <1>1, <2>1
  <2> QED BY <2>2, <2>3
<1>5. Joined(whitelist) \subseteq SectionRow
  <2> SUFFICES ASSUME NEW row \in Joined(whitelist) PROVE row \in SectionRow
    OBVIOUS
  <2>1. PICK w \in warnings, u \in urls :
           row = [urlId |-> u.rowid, url |-> u.request, match |-> w.match, keywords |-> {}]
    BY <1>3
  <2>2. w \in WarningRow /\ u \in UrlRow
    BY DEF TypeInv, TablesType
  <2> QED BY <2>1, <2>2 DEF WarningRow, UrlRow, SectionRow
<1>6. IsFiniteSet(Matching(whitelist))
  <2>1. IsFiniteSet(warnings \X urls)
    BY TablesFinite, FS_Product
  <2> QED BY <1>2, <2>1, FS_Subset
<1>7. IsFiniteSet(Joined(whitelist))
  <2> DEFINE f == [pair \in Matching(whitelist) |-> RowOf(pair)]
  <2>1. f \in Surjection(Matching(whitelist), Joined(whitelist))
    BY <1>1 DEF Surjection
  <2> HIDE DEF f
  <2> QED BY <1>6, <2>1, FS_Surjection
<1> QED BY <1>3, <1>4, <1>5, <1>7

\* The rows of the section on warnings, in some order.
LEMMA FlaggedAre ==
    ASSUME TypeInv
    PROVE  /\ FlaggedRows \subseteq SectionRow
           /\ SetToSeq(FlaggedRows) \in Seq(SectionRow)
           /\ FlaggedRows # {} => 1 \in 1..Len(SetToSeq(FlaggedRows))
           /\ \A n \in 1..Len(SetToSeq(FlaggedRows)) : SetToSeq(FlaggedRows)[n] \in FlaggedRows
           /\ \A row \in FlaggedRows :
                 \E n \in 1..Len(SetToSeq(FlaggedRows)) : SetToSeq(FlaggedRows)[n] = row
<1>1. FlaggedRows \subseteq Joined(FALSE)
  BY DEF FlaggedRows
<1>2. FlaggedRows \subseteq SectionRow /\ IsFiniteSet(FlaggedRows)
  BY <1>1, JoinedIs, FS_Subset
<1> DEFINE s == SetToSeq(FlaggedRows)
<1>3. /\ s \in Seq(FlaggedRows)
      /\ \A n \in 1..Len(s) : s[n] \in FlaggedRows
      /\ \A x \in FlaggedRows : \E n \in 1..Len(s) : s[n] = x
  BY <1>2, SetToSeqIs
<1>4. Len(s) \in Nat
  BY <1>3
<1> HIDE DEF s
<1>5. s \in Seq(SectionRow)
  BY <1>2, <1>3, SeqMonotonic
<1>6. FlaggedRows # {} => 1 \in 1..Len(s)
  BY <1>3, <1>4
<1> QED BY <1>2, <1>3, <1>5, <1>6 DEF s

\* The items of the section on warnings.
LEMMA WarningItemsAre ==
    ASSUME NEW rows \in Seq(SectionRow)
    PROVE  /\ WarningItems(rows) \subseteq Items
           /\ \A item \in WarningItems(rows) : \E n \in 1..Len(rows), k \in Words :
                 k \in rows[n].keywords /\ item = <<"warning", k, rows[n].url, rows[n].match>>
           /\ \A n \in 1..Len(rows) : \A k \in rows[n].keywords :
                 <<"warning", k, rows[n].url, rows[n].match>> \in WarningItems(rows)
<1> DEFINE Found == UNION {rows[n].keywords : n \in 1..Len(rows)}
           Under(k) == {<<"warning", k, rows[n].url, rows[n].match>> : n \in Tree(rows, k)}
<1>1. WarningItems(rows) = UNION {Under(k) : k \in Found}
  BY DEF WarningItems
<1>2. \A n \in 1..Len(rows) : /\ rows[n].url \in Requests /\ rows[n].match \in Requests
                              /\ rows[n].keywords \subseteq Words
  <2> TAKE n \in 1..Len(rows)
  <2>1. rows[n] \in SectionRow
    OBVIOUS
  <2> QED BY <2>1 DEF SectionRow
<1>3. \A item \in WarningItems(rows) : \E n \in 1..Len(rows), k \in Words :
         k \in rows[n].keywords /\ item = <<"warning", k, rows[n].url, rows[n].match>>
  <2> TAKE item \in WarningItems(rows)
  <2>1. PICK k \in Found : item \in Under(k)
    BY <1>1
  <2>2. PICK n \in Tree(rows, k) : item = <<"warning", k, rows[n].url, rows[n].match>>
    BY <2>1
  <2>3. n \in 1..Len(rows) /\ k \in rows[n].keywords
    BY <2>2 DEF Tree
  <2>4. k \in Words
    BY <1>2, <2>3
  <2> QED BY <2>2, <2>3, <2>4
<1>4. \A n \in 1..Len(rows) : \A k \in rows[n].keywords :
         <<"warning", k, rows[n].url, rows[n].match>> \in WarningItems(rows)
  <2> TAKE n \in 1..Len(rows)
  <2> TAKE k \in rows[n].keywords
  <2>1. k \in Found /\ n \in Tree(rows, k)
    BY DEF Tree
  <2>2. <<"warning", k, rows[n].url, rows[n].match>> \in Under(k)
    BY <2>1
  <2> QED BY <1>1, <2>1, <2>2
<1>5. WarningItems(rows) \subseteq Items
  BY <1>2, <1>3, ItemsAre
<1> QED BY <1>3, <1>4, <1>5

-----------------------------------------------------------------------------
\* Everything starts in its type.
LEMMA TypeInit == Init => TypeInv
<1> SUFFICES ASSUME Init PROVE TypeInv
  OBVIOUS
<1>1. /\ urls = {} /\ warnings = {} /\ matches = {} /\ bypasses = {}
      /\ todo = Requests \cup Incidents
      /\ sniffer = [pc |-> "idle", request |-> None, lastRowId |-> 0]
  BY DEF Init
<1>2. TablesType
  BY <1>1, ConstantsAre DEF TablesType
<1>3. /\ pc \in [Reporters -> Labels] /\ job \in [Reporters -> Job]
      /\ \A p \in Reporters : pc[p] = "idle"
  BY NoJobIs DEF Init, Labels
<1>4. ReportersType
  BY <1>3 DEF ReportersType
<1> QED BY <1>2, <1>4, ConstantsAre DEF Init, TypeInv

\* A new rowid is in its range, and is one that no URL has.
LEMMA NextRowIdIs ==
    ASSUME TypeInv, NEW r \in Requests, r \in todo
    PROVE  /\ NextRowId \in Rowids
           /\ NextRowId <= Cardinality(Requests \ (todo \ {r}))
           /\ \A u \in urls : u.rowid < NextRowId
           /\ Cardinality(Requests \ todo) <= Cardinality(Requests \ (todo \ {r}))
<1>1. Requests \ (todo \ {r}) = (Requests \ todo) \cup {r}
  OBVIOUS
<1>2. IsFiniteSet(Requests) /\ Cardinality(Requests) \in Nat
  BY ConstantsAre
<1>3. IsFiniteSet(Requests \ todo) /\ Cardinality(Requests \ todo) \in Nat
  BY <1>2, FS_Subset, FS_CardinalityType
<1>4. Cardinality(Requests \ (todo \ {r})) = Cardinality(Requests \ todo) + 1
  BY <1>1, <1>3, FS_AddElement
<1>5. Cardinality(Requests \ (todo \ {r})) <= Cardinality(Requests)
  BY <1>2, FS_Subset
<1> DEFINE S == {u.rowid : u \in urls}
<1>6. S \in SUBSET Nat /\ \A n \in S : n <= Cardinality(Requests \ todo)
  <2>1. \A u \in urls : u.rowid \in Nat
    BY <1>2 DEF TypeInv, TablesType, UrlRow, Rowids
  <2>2. \A u \in urls : u.rowid <= Cardinality(Requests \ todo)
    BY DEF TypeInv, TablesType
  <2> QED BY <2>1, <2>2
<1>7. CASE urls = {}
  BY <1>2, <1>3, <1>4, <1>5, <1>7 DEF NextRowId, Rowids
<1>8. CASE urls # {}
  <2>1. S # {}
    BY <1>8
  <2>2. NextRowId = 1 + Max(S)
    BY <1>8 DEF NextRowId
  <2>3. \A u \in urls : u.rowid \in S
    OBVIOUS
  <2> HIDE DEF S
  <2>4. Max(S) \in S /\ \A n \in S : n <= Max(S)
    BY <1>3, <1>6, <2>1, MaxIsMax
  <2>5. Max(S) \in Nat /\ Max(S) <= Cardinality(Requests \ todo)
    BY <1>6, <2>4
  <2>6. NextRowId \in Nat /\ NextRowId >= 1 /\ NextRowId <= Cardinality(Requests \ todo) + 1
    BY <1>3, <2>2, <2>5
  <2>7. NextRowId \in Rowids /\ NextRowId <= Cardinality(Requests \ (todo \ {r}))
    BY <1>2, <1>3, <1>4, <1>5, <2>6 DEF Rowids
  <2>8. \A u \in urls : u.rowid < NextRowId
    <3>1. \A u \in urls : u.rowid \in Nat /\ u.rowid <= Max(S)
      BY <1>6, <2>3, <2>4
    <3> QED BY <2>2, <2>5, <3>1
  <2> QED BY <1>3, <1>4, <2>7, <2>8
<1> QED BY <1>7, <1>8

\* The sniffer keeps the tables in their types.
LEMMA SnifferType ==
    ASSUME TypeInv,
           (\E r \in Requests : InsertUrl(r)) \/ InsertWarning \/ InsertMatches
           \/ (\E b \in Incidents : LogBypass(b)) \/ Midnight
    PROVE  TypeInv'
<1>1. /\ UNCHANGED <<options, files, pc, job, reports, mailed, deleted, mishaps>>
      /\ day' \in 0..MaxDay
  BY ConstantsAre DEF InsertUrl, InsertWarning, InsertMatches, LogBypass, Midnight, world, tables,
                      history, TypeInv
<1>2. ReportersType'
  BY <1>1 DEF TypeInv, ReportersType
<1>3. TablesType'
  <2>1. ASSUME NEW r \in Requests, InsertUrl(r) PROVE TablesType'
    <3>1. /\ r \in todo /\ todo' = todo \ {r}
          /\ urls' = urls \cup {[rowid |-> NextRowId, request |-> r]}
          /\ sniffer' = [pc |-> IF Keywords[r] # {} THEN "insertWarning" ELSE "idle",
                         request |-> r, lastRowId |-> NextRowId]
          /\ UNCHANGED <<warnings, matches, bypasses>>
      BY <2>1 DEF InsertUrl
    <3>2. /\ NextRowId \in Rowids
          /\ NextRowId <= Cardinality(Requests \ todo')
          /\ Cardinality(Requests \ todo) <= Cardinality(Requests \ todo')
      BY <3>1, NextRowIdIs
    <3>3. [rowid |-> NextRowId, request |-> r] \in UrlRow
      BY <3>2 DEF UrlRow
    <3>4. /\ Cardinality(Requests \ todo) \in Nat /\ Cardinality(Requests \ todo') \in Nat
          /\ Cardinality(Requests) \in Nat
      BY ConstantsAre, FS_Subset, FS_CardinalityType
    <3>5. /\ urls' \subseteq UrlRow
          /\ \A u \in urls' : u.rowid <= Cardinality(Requests \ todo')
      <4>1. \A u \in urls : u.rowid \in Nat /\ u.rowid <= Cardinality(Requests \ todo)
        BY DEF TypeInv, TablesType, UrlRow, Rowids
      <4> QED BY <3>1, <3>2, <3>3, <3>4, <4>1 DEF TypeInv, TablesType
    <3>6. /\ sniffer' \in [pc : {"idle", "insertWarning", "insertMatches"},
                           request : Requests \cup {None}, lastRowId : 0..Cardinality(Requests)]
          /\ sniffer'.request \in Requests /\ sniffer'.lastRowId \in Rowids
      BY <3>1, <3>2, <3>4 DEF Rowids
    <3> QED BY <3>1, <3>5, <3>6 DEF TypeInv, TablesType
  <2>2. CASE InsertWarning
    <3>1. sniffer.request \in Requests /\ sniffer.lastRowId \in Rowids
      BY <2>2 DEF InsertWarning, TypeInv, TablesType
    <3>2. /\ warnings' = warnings \cup {[urlId |-> sniffer.lastRowId, match |-> sniffer.request]}
          /\ sniffer' = [sniffer EXCEPT !.pc = "insertMatches"]
          /\ UNCHANGED <<urls, matches, bypasses, todo>>
      BY <2>2 DEF InsertWarning
    <3>3. warnings' \subseteq WarningRow
      BY <3>1, <3>2 DEF TypeInv, TablesType, WarningRow
    <3> QED BY <3>1, <3>2, <3>3 DEF TypeInv, TablesType
  <2>3. CASE InsertMatches
    <3>1. sniffer.request \in Requests /\ sniffer.lastRowId \in Rowids
      BY <2>3 DEF InsertMatches, TypeInv, TablesType
    <3>2. /\ matches' = matches \cup {[urlId |-> sniffer.lastRowId, keyword |-> k] :
                                      k \in Keywords[sniffer.request]}
          /\ sniffer' = [sniffer EXCEPT !.pc = "idle"]
          /\ UNCHANGED <<urls, warnings, bypasses, todo>>
      BY <2>3 DEF InsertMatches
    <3>3. Keywords[sniffer.request] \subseteq Words
      BY <3>1, ConstantsAre
    <3>4. matches' \subseteq MatchRow
      BY <3>1, <3>2, <3>3 DEF TypeInv, TablesType, MatchRow
    <3>5. sniffer'.pc = "idle" /\ sniffer' \in [pc : {"idle", "insertWarning", "insertMatches"},
                           request : Requests \cup {None}, lastRowId : 0..Cardinality(Requests)]
      BY <3>2 DEF TypeInv, TablesType
    <3> QED BY <3>2, <3>4, <3>5 DEF TypeInv, TablesType
  <2>4. ASSUME NEW b \in Incidents, LogBypass(b) PROVE TablesType'
    <3>1. /\ todo' = todo \ {b} /\ bypasses' = bypasses \cup {b}
          /\ UNCHANGED <<urls, warnings, matches, sniffer>>
      BY <2>4 DEF LogBypass
    <3>2. Requests \ todo' = Requests \ todo
      BY <3>1, ReportAssumption
    <3> QED BY <3>1, <3>2 DEF TypeInv, TablesType
  <2>5. CASE Midnight
    BY <2>5, TablesSame DEF Midnight, tables, logging
  <2> QED BY <2>1, <2>2, <2>3, <2>4, <2>5
<1> QED BY <1>1, <1>2, <1>3 DEF TypeInv

-----------------------------------------------------------------------------
\* A step of Report::generate: the report goes on from a label to the next one,
\* and is the same report.
ReadsOn(p, label, onward, j) ==
    /\ label \in Reading
    /\ onward \in Reading \cup {"listDirectory"}
    /\ j \in Job
    /\ Read(p, label, onward, j)
    /\ onward = "getMatches" => j.index \in 1..Len(j.rows)
    /\ onward = "getHistory" => j.domain \in Range(Domain) /\ j.hosts # {}
    /\ SameReport(j, job[p])

BypassItems    == {<<"bypass", b>> : b \in bypasses}
WhitelistItems == {<<"whitelist", row.url>> : row \in Joined(TRUE)}

\* The sections that are made by one statement.
LEMMA SectionReads ==
    ASSUME TypeInv, NEW p \in Reporters
    PROVE  /\ BypassItems \in SUBSET Items /\ WhitelistItems \in SUBSET Items
           /\ GetBypasses(p) =>
                ReadsOn(p, "getBypasses", "getWarnings", WithSection(job[p], "bypasses", BypassItems))
           /\ GetWhitelist(p) =>
                ReadsOn(p, "getWhitelist", "getHostnames", WithSection(job[p], "whitelist", WhitelistItems))
<1>1. job[p] \in Job
  BY DEF TypeInv, ReportersType
<1>2. BypassItems \in SUBSET Items
  BY ItemsAre DEF TypeInv, TablesType, BypassItems
<1>3. WhitelistItems \in SUBSET Items
  <2>1. \A row \in Joined(TRUE) : row.url \in Requests
    BY JoinedIs DEF SectionRow
  <2> QED BY <2>1, ItemsAre DEF WhitelistItems
<1>4. \A part, items : items \in SUBSET Items =>
         WithSection(job[p], part, items) \in Job /\ SameReport(WithSection(job[p], part, items), job[p])
  BY <1>1, WithSectionIs
<1>5. ASSUME GetBypasses(p)
      PROVE  ReadsOn(p, "getBypasses", "getWarnings", WithSection(job[p], "bypasses", BypassItems))
  <2>1. Read(p, "getBypasses", "getWarnings", WithSection(job[p], "bypasses", BypassItems))
    BY <1>5 DEF GetBypasses, BypassItems
  <2> QED BY <1>2, <1>4, <2>1 DEF ReadsOn, Reading
<1>6. ASSUME GetWhitelist(p)
      PROVE  ReadsOn(p, "getWhitelist", "getHostnames", WithSection(job[p], "whitelist", WhitelistItems))
  <2>1. Read(p, "getWhitelist", "getHostnames", WithSection(job[p], "whitelist", WhitelistItems))
    BY <1>6 DEF GetWhitelist, WhitelistItems
  <2> QED BY <1>3, <1>4, <2>1 DEF ReadsOn, Reading
<1> QED BY <1>2, <1>3, <1>5, <1>6

\* The rows of the warnings.
WarningsRead(p) ==
    ReadsOn(p, "getWarnings", IF FlaggedRows = {} THEN "getWhitelist" ELSE "getMatches",
            WithRows(job[p], SetToSeq(FlaggedRows), 1))

LEMMA WarningsReads ==
    ASSUME TypeInv, NEW p \in Reporters, GetWarnings(p)
    PROVE  WarningsRead(p)
<1> DEFINE onward == IF FlaggedRows = {} THEN "getWhitelist" ELSE "getMatches"
           j == WithRows(job[p], SetToSeq(FlaggedRows), 1)
<1>1. job[p] \in Job
  BY DEF TypeInv, ReportersType
<1>2. SetToSeq(FlaggedRows) \in Seq(SectionRow)
  BY FlaggedAre
<1>3. FlaggedRows # {} => 1 \in 1..Len(SetToSeq(FlaggedRows))
  BY FlaggedAre
<1>4. j \in Job /\ SameReport(j, job[p]) /\ j.rows = SetToSeq(FlaggedRows) /\ j.index = 1
  BY <1>1, <1>2, WithRowsIs
<1>5. Read(p, "getWarnings", onward, j)
  BY DEF GetWarnings, WithRows
<1>6. /\ onward \in Reading /\ onward # "getHistory"
      /\ onward = "getMatches" => FlaggedRows # {}
  BY DEF Reading
<1>7. WarningsRead(p) <=> ReadsOn(p, "getWarnings", onward, j)
  BY DEF WarningsRead
<1> HIDE DEF j, onward
<1> QED BY <1>3, <1>4, <1>5, <1>6, <1>7 DEF ReadsOn, Reading

\* The keywords of the row at the index, and the rows with them.
Found(p) == {m.keyword : m \in {m \in matches : m.urlId = job[p].rows[job[p].index].urlId}}
RowsWith(p) == [job[p].rows EXCEPT ![job[p].index].keywords = Found(p)]

LEMMA RowsWithAre ==
    ASSUME TypeInv, NEW p \in Reporters, pc[p] = "getMatches"
    PROVE  LET j == job[p] IN
           /\ RowsWith(p) \in Seq(SectionRow) /\ Len(RowsWith(p)) = Len(j.rows)
           /\ j.rows \in Seq(SectionRow) /\ j.index \in 1..Len(j.rows)
           /\ \A n \in 1..Len(j.rows) : RowsWith(p)[n] =
                 IF n = j.index THEN [j.rows[n] EXCEPT !.keywords = Found(p)] ELSE j.rows[n]
<1> DEFINE rows == job[p].rows
           index == job[p].index
<1>1. rows \in Seq(SectionRow) /\ index \in 1..Len(rows)
  BY DEF TypeInv, ReportersType, Job
<1>2. Found(p) \subseteq Words
  BY DEF Found, TypeInv, TablesType, MatchRow
<1>3. rows[index] \in SectionRow
  BY <1>1
<1>4. RowsWith(p) = [rows EXCEPT ![index] = [rows[index] EXCEPT !.keywords = Found(p)]]
  BY DEF RowsWith
<1> HIDE DEF rows, index
<1>5. [rows[index] EXCEPT !.keywords = Found(p)] \in SectionRow
  BY <1>2, <1>3 DEF SectionRow
<1>6. RowsWith(p) \in Seq(SectionRow) /\ Len(RowsWith(p)) = Len(rows)
  BY <1>1, <1>4, <1>5
<1>7. \A n \in 1..Len(rows) : RowsWith(p)[n] =
         IF n = index THEN [rows[n] EXCEPT !.keywords = Found(p)] ELSE rows[n]
  BY <1>1, <1>4
<1> QED BY <1>1, <1>6, <1>7 DEF rows, index

\* The matches of one row, and after the last one the section on warnings.
MatchesRead(p) == LET j == job[p] IN
    IF j.index < Len(j.rows)
    THEN ReadsOn(p, "getMatches", "getMatches", WithRows(j, RowsWith(p), j.index + 1))
    ELSE ReadsOn(p, "getMatches", "getWhitelist",
                 WithRows(WithSection(j, "warnings", WarningItems(RowsWith(p))), <<>>, 0))

LEMMA MatchesReads ==
    ASSUME TypeInv, NEW p \in Reporters, GetMatches(p)
    PROVE  MatchesRead(p)
<1>1. job[p] \in Job /\ pc[p] = "getMatches"
  BY DEF TypeInv, ReportersType, GetMatches
<1>2. /\ RowsWith(p) \in Seq(SectionRow) /\ Len(RowsWith(p)) = Len(job[p].rows)
      /\ job[p].index \in 1..Len(job[p].rows)
      /\ Len(job[p].rows) \in Nat
  BY <1>1, RowsWithAre
<1>3. CASE job[p].index < Len(job[p].rows)
  <2> DEFINE j == WithRows(job[p], RowsWith(p), job[p].index + 1)
  <2>1. job[p].index + 1 \in Nat
    BY <1>2
  <2>2. j \in Job /\ SameReport(j, job[p]) /\ j.rows = RowsWith(p) /\ j.index = job[p].index + 1
    BY <1>1, <1>2, <2>1, WithRowsIs, ZenonT(60)
  <2>3. Read(p, "getMatches", "getMatches", j)
    BY <1>3 DEF GetMatches, RowsWith, Found, WithRows
  <2>4. job[p].index + 1 \in 1..Len(RowsWith(p))
    BY <1>2, <1>3
  <2>5. MatchesRead(p) <=> ReadsOn(p, "getMatches", "getMatches", j)
    BY <1>3 DEF MatchesRead
  <2> HIDE DEF j
  <2>6. ReadsOn(p, "getMatches", "getMatches", j)
    BY <2>2, <2>3, <2>4 DEF ReadsOn, Reading
  <2> QED BY <2>5, <2>6
<1>4. CASE ~(job[p].index < Len(job[p].rows))
  <2> DEFINE w == WithSection(job[p], "warnings", WarningItems(RowsWith(p)))
             j == WithRows(w, <<>>, 0)
  <2>1. WarningItems(RowsWith(p)) \in SUBSET Items
    BY <1>2, WarningItemsAre
  <2>2. w \in Job /\ SameReport(w, job[p])
    BY <1>1, <2>1, WithSectionIs
  <2>3. Read(p, "getMatches", "getWhitelist", j)
    BY <1>4 DEF GetMatches, RowsWith, Found, WithRows
  <2>4. MatchesRead(p) <=> ReadsOn(p, "getMatches", "getWhitelist", j)
    BY <1>4 DEF MatchesRead
  <2> HIDE DEF w
  <2>5. <<>> \in Seq(SectionRow) /\ 0 \in Nat
    OBVIOUS
  <2>6. j \in Job /\ SameReport(j, w)
    BY <2>2, <2>5, WithRowsIs
  <2> HIDE DEF j
  <2>7. SameReport(j, job[p])
    BY <2>2, <2>6 DEF SameReport
  <2> QED BY <2>3, <2>4, <2>6, <2>7 DEF ReadsOn, Reading
<1> QED BY <1>3, <1>4

\* The history: the domains of the tables, the next domain and its hostnames, and
\* the next hostname and its URLs.
UrlDomains    == {Domain[Host[u.request]] : u \in urls}
NextDomain(p) == CHOOSE d \in job[p].domains : TRUE
HostsIn(d)    == {h \in {Host[u.request] : u \in urls} : <<h, d>> \in EndsIn}
NextHost(p)   == CHOOSE h \in job[p].hosts : TRUE
PathsOf(h)    == {u.request : u \in {u \in urls : Host[u.request] = h}}

HostItems(d)    == {<<"host", d, h>> : h \in HostsIn(d)}
PathItems(d, h) == {<<"path", d, r>> : r \in PathsOf(h)}

WithDomains(j, domains)   == [j EXCEPT !.domains = domains]
WithDomain(j, d, hosts)   == [[j EXCEPT !.domains = @ \ {d}] EXCEPT !.domain = d, !.hosts = hosts]
WithHostnames(j, d, items) == [[j EXCEPT !.domains = @ \ {d}] EXCEPT !.listed = @ \cup items]
WithPaths(j, h, items)    == [j EXCEPT !.hosts = @ \ {h}, !.listed = @ \cup items]
WithHistory(j) ==
    [j EXCEPT !.attached = IF DoSaveHistory THEN @ \cup j.listed ELSE @, !.listed = {}, !.domain = None]

LEMMA WithDomainsIs ==
    ASSUME NEW j \in Job, NEW domains \in SUBSET Range(Domain)
    PROVE  LET new == WithDomains(j, domains) IN
           /\ new \in Job /\ SameReport(new, j)
           /\ new.domains = domains
           /\ new.body = j.body /\ new.attached = j.attached /\ new.listed = j.listed
BY DEF Job, SameReport, WithDomains

LEMMA WithDomainIs ==
    ASSUME NEW j \in Job, NEW d \in Range(Domain), NEW hosts \in SUBSET Hosts
    PROVE  LET new == WithDomain(j, d, hosts) IN
           /\ new \in Job /\ SameReport(new, j)
           /\ new.domains = j.domains \ {d} /\ new.domain = d /\ new.hosts = hosts
           /\ new.body = j.body /\ new.attached = j.attached /\ new.listed = j.listed
BY DEF Job, SameReport, WithDomain

LEMMA WithHostnamesIs ==
    ASSUME NEW j \in Job, NEW d \in Range(Domain), NEW items \in SUBSET Items
    PROVE  LET new == WithHostnames(j, d, items) IN
           /\ new \in Job /\ SameReport(new, j)
           /\ new.domains = j.domains \ {d} /\ new.listed = j.listed \cup items
           /\ new.body = j.body /\ new.attached = j.attached
BY DEF Job, SameReport, WithHostnames

LEMMA WithPathsIs ==
    ASSUME NEW j \in Job, NEW h, NEW items \in SUBSET Items
    PROVE  LET new == WithPaths(j, h, items) IN
           /\ new \in Job /\ SameReport(new, j)
           /\ new.domains = j.domains /\ new.domain = j.domain /\ new.hosts = j.hosts \ {h}
           /\ new.listed = j.listed \cup items
           /\ new.body = j.body /\ new.attached = j.attached
BY DEF Job, SameReport, WithPaths

LEMMA WithHistoryIs ==
    ASSUME NEW j \in Job
    PROVE  LET new == WithHistory(j) IN
           /\ new \in Job /\ SameReport(new, j)
           /\ new.body = j.body /\ new.listed = {}
           /\ new.attached = IF DoSaveHistory THEN j.attached \cup j.listed ELSE j.attached
BY DEF Job, SameReport, WithHistory

\* What is read for the history, and where the report goes on.
DomainsRead(p) ==
    ReadsOn(p, "getHostnames", "getDomainHostnames", WithDomains(job[p], UrlDomains))

HostnamesRead(p) == LET d == NextDomain(p) IN
    /\ d \in job[p].domains
    /\ IF DoIncludePaths /\ HostsIn(d) # {}
       THEN ReadsOn(p, "getDomainHostnames", "getHistory", WithDomain(job[p], d, HostsIn(d)))
       ELSE ReadsOn(p, "getDomainHostnames", "getDomainHostnames", WithHostnames(job[p], d, HostItems(d)))

PathsRead(p) == LET h == NextHost(p) IN
    /\ h \in job[p].hosts
    /\ ReadsOn(p, "getHistory", IF job[p].hosts = {h} THEN "getDomainHostnames" ELSE "getHistory",
               WithPaths(job[p], h, PathItems(job[p].domain, h)))

HistoryRead(p) ==
    /\ job[p].domains = {}
    /\ ReadsOn(p, "getDomainHostnames", "listDirectory", WithHistory(job[p]))

LEMMA HistoryItemsAre ==
    ASSUME TypeInv, NEW d \in Range(Domain)
    PROVE  /\ UrlDomains \in SUBSET Range(Domain)
           /\ HostsIn(d) \in SUBSET Hosts
           /\ HostItems(d) \in SUBSET Items
           /\ \A h : PathItems(d, h) \in SUBSET Items
<1>1. \A u \in urls : u.request \in Requests
  BY DEF TypeInv, TablesType, UrlRow
<1>2. \A u \in urls : Host[u.request] \in Hosts /\ Domain[Host[u.request]] \in Range(Domain)
  BY <1>1, ConstantsAre
<1>3. UrlDomains \in SUBSET Range(Domain)
  BY <1>2 DEF UrlDomains
<1>4. HostsIn(d) \in SUBSET Hosts
  BY <1>2 DEF HostsIn
<1>5. HostItems(d) \in SUBSET Items
  BY <1>4, ItemsAre DEF HostItems
<1>6. \A h : PathsOf(h) \in SUBSET Requests
  BY <1>1 DEF PathsOf
<1>7. \A h : PathItems(d, h) \in SUBSET Items
  BY <1>6, ItemsAre DEF PathItems
<1> QED BY <1>3, <1>4, <1>5, <1>7

LEMMA HistoryReads ==
    ASSUME TypeInv, NEW p \in Reporters
    PROVE  /\ GetHostnames(p) => DomainsRead(p)
           /\ GetDomainHostnames(p) => HostnamesRead(p)
           /\ GetHistory(p) => PathsRead(p)
           /\ MakeHistory(p) => HistoryRead(p)
<1>1. job[p] \in Job /\ job[p].domains \subseteq Range(Domain)
  BY DEF TypeInv, ReportersType, Job
<1>2. ASSUME GetHostnames(p) PROVE DomainsRead(p)
  <2>1. Read(p, "getHostnames", "getDomainHostnames", WithDomains(job[p], UrlDomains))
    BY <1>2 DEF GetHostnames, WithDomains, UrlDomains
  <2>2. UrlDomains \in SUBSET Range(Domain)
    <3>1. \A u \in urls : u.request \in Requests
      BY DEF TypeInv, TablesType, UrlRow
    <3> QED BY <3>1, ConstantsAre DEF UrlDomains
  <2>3. WithDomains(job[p], UrlDomains) \in Job /\ SameReport(WithDomains(job[p], UrlDomains), job[p])
    BY <1>1, <2>2, WithDomainsIs
  <2> QED BY <2>1, <2>3 DEF DomainsRead, ReadsOn, Reading
<1>3. ASSUME GetDomainHostnames(p) PROVE HostnamesRead(p)
  <2> DEFINE d == NextDomain(p)
  <2>1. job[p].domains # {}
    BY <1>3 DEF GetDomainHostnames
  <2>2. d \in job[p].domains /\ d \in Range(Domain)
    BY <1>1, <2>1 DEF NextDomain
  <2>3. IF DoIncludePaths /\ HostsIn(d) # {}
        THEN Read(p, "getDomainHostnames", "getHistory", WithDomain(job[p], d, HostsIn(d)))
        ELSE Read(p, "getDomainHostnames", "getDomainHostnames", WithHostnames(job[p], d, HostItems(d)))
    BY <1>3 DEF GetDomainHostnames, NextDomain, HostsIn, HostItems, WithDomain, WithHostnames
  <2> HIDE DEF d
  <2>4. HostsIn(d) \in SUBSET Hosts /\ HostItems(d) \in SUBSET Items
    BY <2>2, HistoryItemsAre
  <2>5. /\ WithDomain(job[p], d, HostsIn(d)) \in Job
        /\ SameReport(WithDomain(job[p], d, HostsIn(d)), job[p])
        /\ WithDomain(job[p], d, HostsIn(d)).domain = d
        /\ WithDomain(job[p], d, HostsIn(d)).hosts = HostsIn(d)
        /\ WithHostnames(job[p], d, HostItems(d)) \in Job
        /\ SameReport(WithHostnames(job[p], d, HostItems(d)), job[p])
    BY <1>1, <2>2, <2>4, WithDomainIs, WithHostnamesIs
  <2>6. CASE DoIncludePaths /\ HostsIn(d) # {}
    <3>1. ReadsOn(p, "getDomainHostnames", "getHistory", WithDomain(job[p], d, HostsIn(d)))
      BY <2>2, <2>3, <2>5, <2>6 DEF ReadsOn, Reading
    <3> QED BY <2>2, <2>6, <3>1 DEF HostnamesRead, d
  <2>7. CASE ~(DoIncludePaths /\ HostsIn(d) # {})
    <3>1. ReadsOn(p, "getDomainHostnames", "getDomainHostnames", WithHostnames(job[p], d, HostItems(d)))
      BY <2>3, <2>5, <2>7 DEF ReadsOn, Reading
    <3> QED BY <2>2, <2>7, <3>1 DEF HostnamesRead, d
  <2> QED BY <2>6, <2>7
<1>4. ASSUME GetHistory(p) PROVE PathsRead(p)
  <2> DEFINE h == NextHost(p)
             j == WithPaths(job[p], h, PathItems(job[p].domain, h))
             onward == IF job[p].hosts = {h} THEN "getDomainHostnames" ELSE "getHistory"
  <2>1. Read(p, "getHistory", onward, j)
    BY <1>4 DEF GetHistory, NextHost, PathItems, PathsOf, WithPaths
  <2>2. pc[p] = "getHistory"
    BY <2>1 DEF Read, Step
  <2>3. job[p].domain \in Range(Domain) /\ job[p].hosts # {}
    BY <2>2 DEF TypeInv, ReportersType
  <2>4. h \in job[p].hosts
    BY <2>3 DEF NextHost
  <2>5. PathsRead(p) <=> h \in job[p].hosts /\ ReadsOn(p, "getHistory", onward, j)
    BY DEF PathsRead
  <2> HIDE DEF h
  <2>6. PathItems(job[p].domain, h) \in SUBSET Items
    BY <2>3, HistoryItemsAre
  <2>7. /\ j \in Job /\ SameReport(j, job[p])
        /\ j.domain = job[p].domain /\ j.hosts = job[p].hosts \ {h}
    BY <1>1, <2>6, WithPathsIs
  <2>8. /\ onward \in {"getDomainHostnames", "getHistory"}
        /\ onward = "getHistory" => job[p].hosts \ {h} # {}
    BY <2>4
  <2> HIDE DEF j, onward
  <2> QED BY <2>1, <2>3, <2>4, <2>5, <2>7, <2>8 DEF ReadsOn, Reading
<1>5. ASSUME MakeHistory(p) PROVE HistoryRead(p)
  <2>1. Read(p, "getDomainHostnames", "listDirectory", WithHistory(job[p])) /\ job[p].domains = {}
    BY <1>5 DEF MakeHistory, WithHistory
  <2>2. WithHistory(job[p]) \in Job /\ SameReport(WithHistory(job[p]), job[p])
    BY <1>1, WithHistoryIs
  <2> QED BY <2>1, <2>2 DEF HistoryRead, ReadsOn, Reading
<1> QED BY <1>2, <1>3, <1>4, <1>5

\* Whatever is read, the report goes on.
LEMMA GenerateIs ==
    ASSUME TypeInv, NEW p \in Reporters, Generate(p)
    PROVE  \E label, onward, j : ReadsOn(p, label, onward, j)
<1>1. CASE GetBypasses(p) \/ GetWhitelist(p)
  BY <1>1, SectionReads, Zenon
<1>2. CASE GetWarnings(p)
  BY <1>2, WarningsReads, Zenon DEF WarningsRead
<1>3. CASE GetMatches(p)
  BY <1>3, MatchesReads, Zenon DEF MatchesRead
<1>4. CASE GetHostnames(p) \/ GetDomainHostnames(p) \/ GetHistory(p) \/ MakeHistory(p)
  BY <1>4, HistoryReads, Zenon DEF DomainsRead, HostnamesRead, PathsRead, HistoryRead
<1> QED BY <1>1, <1>2, <1>3, <1>4 DEF Generate

LEMMA GenerateType ==
    ASSUME TypeInv, NEW p \in Reporters, Generate(p)
    PROVE  TypeInv'
<1>1. PICK label, onward, j : ReadsOn(p, label, onward, j)
  BY GenerateIs
<1>2. /\ label \in Labels \ {"idle"} /\ onward \in Labels /\ j \in Job
      /\ Read(p, label, onward, j) /\ j.report = job[p].report
      /\ onward = "getMatches" => j.index \in 1..Len(j.rows)
      /\ onward = "getHistory" => j.domain \in Range(Domain) /\ j.hosts # {}
  BY <1>1 DEF ReadsOn, SameReport, Labels, Reading
<1> QED BY <1>2, ReadType

-----------------------------------------------------------------------------
\* The report that is saved: its name is looked for, its file written and
\* attached.
Listing(j)        == [j EXCEPT !.date = day, !.names = {Name(f) : f \in files}]
Without(j, name)  == [j EXCEPT !.names = @ \ {name}]
Counted(j, name)  == [[j EXCEPT !.names = @ \ {name}] EXCEPT !.number = Max({@, name.number})]
Numbered(j)       == [[j EXCEPT !.number = @ + 1] EXCEPT !.attached = {}]
WithFile(j, name) == [j EXCEPT !.attachment = {name}, !.date = 0, !.number = 0]
WithoutFile(j)    == [j EXCEPT !.attached = {}, !.names = {}, !.date = 0, !.number = 0]

\* The same report, with nothing in it that was not there.
SameOwner(new, j) == /\ new.report = j.report /\ new.old = j.old /\ new.body = j.body
                     /\ new.listed = j.listed /\ new.attached \subseteq j.attached

LEMMA ListingIs ==
    ASSUME NEW j \in Job, day \in 0..MaxDay, {Name(f) : f \in files} \subseteq Names
    PROVE  /\ Listing(j) \in Job /\ SameOwner(Listing(j), j)
           /\ Listing(j).date = day /\ Listing(j).names = {Name(f) : f \in files}
           /\ Listing(j).attached = j.attached /\ Listing(j).attachment = j.attachment
           /\ Listing(j).number = j.number
BY DEF Job, Listing, SameOwner

LEMMA CountedIs ==
    ASSUME NEW j \in Job, NEW name \in Names
    PROVE  /\ Without(j, name) \in Job /\ SameOwner(Without(j, name), j)
           /\ Without(j, name).number = j.number
           /\ Counted(j, name) \in Job /\ SameOwner(Counted(j, name), j)
           /\ Counted(j, name).number \in {j.number, name.number}
           /\ j.number <= Counted(j, name).number /\ name.number <= Counted(j, name).number
           /\ \A new \in {Without(j, name), Counted(j, name)} :
                 /\ new.date = j.date /\ new.names = j.names \ {name}
                 /\ new.attached = j.attached /\ new.attachment = j.attachment
<1> DEFINE max == Max({j.number, name.number})
<1>1. j.number \in 0..MaxReports /\ name.number \in 0..MaxReports
  BY DEF Job, Names
<1>2. max \in {j.number, name.number} /\ j.number <= max /\ name.number <= max
  BY <1>1, MaxOfTwo
<1>3. Counted(j, name) = [[j EXCEPT !.names = @ \ {name}] EXCEPT !.number = max]
  BY DEF Counted, Job
<1> HIDE DEF max
<1>4. /\ Counted(j, name) \in Job /\ SameOwner(Counted(j, name), j)
      /\ Counted(j, name).number = max
      /\ Counted(j, name).date = j.date /\ Counted(j, name).names = j.names \ {name}
      /\ Counted(j, name).attached = j.attached /\ Counted(j, name).attachment = j.attachment
  BY <1>1, <1>2, <1>3, ZenonT(60) DEF Job, SameOwner
<1>5. /\ Without(j, name) \in Job /\ SameOwner(Without(j, name), j)
      /\ Without(j, name).number = j.number
      /\ Without(j, name).date = j.date /\ Without(j, name).names = j.names \ {name}
      /\ Without(j, name).attached = j.attached /\ Without(j, name).attachment = j.attachment
  BY DEF Without, Job, SameOwner
<1> QED BY <1>2, <1>4, <1>5

LEMMA NumberedIs ==
    ASSUME NEW j \in Job, j.number + 1 \in 0..MaxReports
    PROVE  /\ Numbered(j) \in Job /\ SameOwner(Numbered(j), j)
           /\ Numbered(j).number = j.number + 1
           /\ Numbered(j).date = j.date /\ Numbered(j).names = j.names
           /\ Numbered(j).attached = {} /\ Numbered(j).attachment = j.attachment
BY DEF Numbered, Job, SameOwner

LEMMA WithFileIs ==
    ASSUME NEW j \in Job, NEW name \in Names
    PROVE  /\ WithFile(j, name) \in Job /\ SameOwner(WithFile(j, name), j)
           /\ WithFile(j, name).attachment = {name} /\ WithFile(j, name).names = j.names
           /\ WithFile(j, name).number = 0
<1>1. 0 \in 0..MaxDay /\ 0 \in 0..MaxReports
  BY ConstantsAre
<1> QED BY <1>1 DEF WithFile, Job, SameOwner

LEMMA WithoutFileIs ==
    ASSUME NEW j \in Job
    PROVE  /\ WithoutFile(j) \in Job /\ SameOwner(WithoutFile(j), j)
           /\ WithoutFile(j).attachment = j.attachment /\ WithoutFile(j).names = {}
           /\ WithoutFile(j).number = 0
<1>1. 0 \in 0..MaxDay /\ 0 \in 0..MaxReports
  BY ConstantsAre
<1> QED BY <1>1 DEF WithoutFile, Job, SameOwner

\* The name of a file is a name.
LEMMA NameIs ==
    ASSUME NEW f \in File
    PROVE  Name(f) \in Names /\ Name(f).date = f.date /\ Name(f).number = f.number /\ Name(f).zip = f.zip
BY DEF Name, File, Names

\* A step of Report::saveAttachedReport: from a label on to the next one, with the
\* same report, while files come to be other ones.
SavesOn(p, label, onward, j) ==
    /\ label \in {"listDirectory", "visitEntry", "attachFile"}
    /\ onward \in {"visitEntry", "attachFile", "send"}
    /\ j \in Job
    /\ Step(p, label, onward, j)
    /\ SameOwner(j, job[p])
    /\ UNCHANGED <<options, day, urls, warnings, matches, bypasses, todo, sniffer, reports,
                   accepted, mailed, deleted>>
    /\ mishaps \subseteq mishaps' /\ mishaps' \subseteq mishaps \cup {"overlap", "unsaved"}

LEMMA SaveIs ==
    ASSUME NEW p \in Reporters, NEW label \in {"listDirectory", "visitEntry", "attachFile"},
           NEW onward \in {"visitEntry", "attachFile", "send"}, NEW j \in Job,
           Save(p, label, onward, j), SameOwner(j, job[p]),
           mishaps' = mishaps \/ Occur({"unsaved"}) \/ Occur({}) \/ Occur({"overlap"})
    PROVE  SavesOn(p, label, onward, j)
BY DEF Save, SavesOn, Occur, world, tables, logging

\* What each of the steps does.
ListedDirectory(p) ==
    /\ SavesOn(p, "listDirectory", "visitEntry", Listing(job[p]))
    /\ "overlap" \in mishaps' \/ \A q \in Reporters : pc[q] \notin Saving
    /\ UNCHANGED files

VisitedEntry(p, name) ==
    /\ name \in job[p].names
    /\ IF name.date = job[p].date
       THEN /\ SavesOn(p, "visitEntry", "visitEntry", Counted(job[p], name))
            /\ UNCHANGED files
       ELSE /\ SavesOn(p, "visitEntry", "visitEntry", Without(job[p], name))
            /\ files' = {f \in files : Name(f) # name}
    /\ UNCHANGED mishaps

NewFile(j) == [date |-> j.date, number |-> j.number + 1, zip |-> FALSE, by |-> j.report,
               content |-> j.attached]

WroteFile(p) ==
    /\ job[p].names = {}
    /\ SavesOn(p, "visitEntry", "attachFile", Numbered(job[p]))
    /\ files' = Written(NewFile(job[p]))
    /\ UNCHANGED mishaps

Zipped(f) == [f EXCEPT !.zip = options.compress]

AttachedFile(p, f) ==
    /\ f \in files
    /\ f.date = job[p].date /\ f.number = job[p].number /\ f.zip = FALSE
    /\ SavesOn(p, "attachFile", "send", WithFile(job[p], Name(Zipped(f))))
    /\ files' = Written(Zipped(f))
    /\ UNCHANGED mishaps

FailedToSave(p) ==
    /\ \E label \in {"visitEntry", "attachFile"} : SavesOn(p, label, "send", WithoutFile(job[p]))
    /\ "unsaved" \in mishaps'
    /\ UNCHANGED files

LEMMA ZippedIs ==
    ASSUME TypeInv, NEW f \in File
    PROVE  /\ Zipped(f) \in File
           /\ Zipped(f).date = f.date /\ Zipped(f).number = f.number
           /\ Zipped(f).by = f.by /\ Zipped(f).content = f.content
<1>1. options.compress \in BOOLEAN
  BY OptionsAre DEF TypeInv
<1> QED BY <1>1 DEF Zipped, File

LEMMA WrittenIs ==
    ASSUME NEW f
    PROVE  /\ \A g \in Written(f) : g = f \/ (g \in files /\ Name(g) # Name(f))
           /\ f \in Written(f)
           /\ \A g \in files : Name(g) # Name(f) => g \in Written(f)
<1>1. \A g : g \in Written(f) <=> g = f \/ (g \in files /\ Name(g) # Name(f))
  BY Zenon DEF Written
<1> QED BY <1>1

\* A step that saves is one of these; NumberInv has it that there is a number left.
LEMMA SavingIs ==
    ASSUME TypeInv, NumberInv, NEW p \in Reporters, SaveAttachedReport(p)
    PROVE  \/ ListedDirectory(p)
           \/ \E name \in Names : VisitedEntry(p, name)
           \/ WroteFile(p)
           \/ \E f \in File : AttachedFile(p, f)
           \/ FailedToSave(p)
<1>1. job[p] \in Job /\ job[p].names \subseteq Names
  BY DEF TypeInv, ReportersType, Job
<1>2. files \subseteq File /\ {Name(f) : f \in files} \subseteq Names /\ day \in 0..MaxDay
  BY NameIs DEF TypeInv
<1>3. CASE ListDirectory(p)
  <2>1. Save(p, "listDirectory", "visitEntry", Listing(job[p])) /\ UNCHANGED files
    BY <1>3 DEF ListDirectory, Listing
  <2>2. \/ Occur({}) /\ \A q \in Reporters : pc[q] \notin Saving
        \/ Occur({"overlap"})
    BY <1>3 DEF ListDirectory
  <2>3. Listing(job[p]) \in Job /\ SameOwner(Listing(job[p]), job[p])
    BY <1>1, <1>2, ListingIs
  <2>4. SavesOn(p, "listDirectory", "visitEntry", Listing(job[p]))
    BY <2>1, <2>2, <2>3, SaveIs
  <2> QED BY <2>1, <2>2, <2>4 DEF ListedDirectory, Occur
<1>4. CASE VisitEntry(p)
  <2>1. PICK name \in job[p].names :
           /\ IF name.date = job[p].date
              THEN Save(p, "visitEntry", "visitEntry", Counted(job[p], name)) /\ UNCHANGED files
              ELSE /\ Save(p, "visitEntry", "visitEntry", Without(job[p], name))
                   /\ files' = {f \in files : Name(f) # name}
           /\ UNCHANGED mishaps
    <3>1. PICK name \in job[p].names : LET j == [job[p] EXCEPT !.names = @ \ {name}] IN
             /\ IF name.date = j.date
                THEN /\ Save(p, "visitEntry", "visitEntry", [j EXCEPT !.number = Max({@, name.number})])
                     /\ UNCHANGED files
                ELSE /\ name \in {Name(f) : f \in files}
                     /\ Save(p, "visitEntry", "visitEntry", j)
                     /\ files' = {f \in files : Name(f) # name}
             /\ UNCHANGED mishaps
      BY <1>4, Zenon DEF VisitEntry
    <3>2. [job[p] EXCEPT !.names = @ \ {name}].date = job[p].date
      BY <1>1 DEF Job
    <3> QED BY <3>1, <3>2 DEF Counted, Without
  <2>2. name \in Names
    BY <1>1
  <2>3. /\ Counted(job[p], name) \in Job /\ SameOwner(Counted(job[p], name), job[p])
        /\ Without(job[p], name) \in Job /\ SameOwner(Without(job[p], name), job[p])
    BY <1>1, <2>2, CountedIs
  <2>4. CASE name.date = job[p].date
    <3>1. SavesOn(p, "visitEntry", "visitEntry", Counted(job[p], name))
      BY <2>1, <2>3, <2>4, SaveIs
    <3>2. VisitedEntry(p, name)
      BY <2>1, <2>4, <3>1 DEF VisitedEntry
    <3> QED BY <2>2, <3>2
  <2>5. CASE name.date # job[p].date
    <3>1. SavesOn(p, "visitEntry", "visitEntry", Without(job[p], name))
      BY <2>1, <2>3, <2>5, SaveIs
    <3>2. VisitedEntry(p, name)
      BY <2>1, <2>5, <3>1 DEF VisitedEntry
    <3> QED BY <2>2, <3>2
  <2> QED BY <2>4, <2>5
<1>5. CASE WriteFile(p)
  <2>1. /\ job[p].names = {}
        /\ Save(p, "visitEntry", "attachFile", Numbered(job[p]))
        /\ files' = Written(NewFile(job[p]))
        /\ UNCHANGED mishaps
    <3> DEFINE j == [job[p] EXCEPT !.number = @ + 1]
    <3>1. /\ j.names = {}
          /\ Save(p, "visitEntry", "attachFile", [j EXCEPT !.attached = {}])
          /\ files' = Written([date |-> j.date, number |-> j.number, zip |-> FALSE,
                               by |-> j.report, content |-> j.attached])
          /\ UNCHANGED mishaps
      BY <1>5 DEF WriteFile
    <3>2. /\ j.names = job[p].names /\ j.date = job[p].date /\ j.number = job[p].number + 1
          /\ j.report = job[p].report /\ j.attached = job[p].attached
      BY <1>1 DEF Job
    <3>3. [j EXCEPT !.attached = {}] = Numbered(job[p])
      BY DEF Numbered
    <3> HIDE DEF j
    <3> QED BY <3>1, <3>2, <3>3 DEF NewFile
  <2>2. pc[p] = "visitEntry"
    BY <2>1 DEF Save, Step
  <2>3. job[p].number + 1 \in 0..MaxReports
    <3>1. p \in Pending
      BY <2>2 DEF Pending
    <3>2. /\ IsFiniteSet(Pending)
          /\ job[p].number <= reports - Cardinality(Pending)
      BY <3>1 DEF NumberInv, Filed
    <3>3. Cardinality(Pending) \in Nat /\ Cardinality(Pending) # 0
      BY <3>1, <3>2, FS_CardinalityType, FS_EmptySet
    <3>4. reports \in 0..MaxReports /\ job[p].number \in 0..MaxReports /\ MaxReports \in Nat
      BY <1>1, ConstantsAre DEF TypeInv, Job
    <3> QED BY <3>2, <3>3, <3>4
  <2>4. Numbered(job[p]) \in Job /\ SameOwner(Numbered(job[p]), job[p])
    BY <1>1, <2>3, NumberedIs
  <2>5. SavesOn(p, "visitEntry", "attachFile", Numbered(job[p]))
    BY <2>1, <2>4, SaveIs
  <2> QED BY <2>1, <2>5 DEF WroteFile
<1>6. CASE AttachFile(p)
  <2>1. PICK f \in files :
           /\ Name(f) = [date |-> job[p].date, number |-> job[p].number, zip |-> FALSE]
           /\ Save(p, "attachFile", "send", WithFile(job[p], Name(Zipped(f))))
           /\ files' = Written(Zipped(f))
           /\ UNCHANGED mishaps
    BY <1>6 DEF AttachFile, WithFile, Zipped
  <2>2. f \in File
    BY <1>2
  <2>3. Zipped(f) \in File /\ Name(Zipped(f)) \in Names
    BY <2>2, ZippedIs, NameIs
  <2>4. WithFile(job[p], Name(Zipped(f))) \in Job /\ SameOwner(WithFile(job[p], Name(Zipped(f))), job[p])
    BY <1>1, <2>3, WithFileIs
  <2>5. SavesOn(p, "attachFile", "send", WithFile(job[p], Name(Zipped(f))))
    BY <2>1, <2>4, SaveIs
  <2>6. f.date = job[p].date /\ f.number = job[p].number /\ f.zip = FALSE
    BY <2>1 DEF Name
  <2>7. AttachedFile(p, f)
    BY <2>1, <2>5, <2>6 DEF AttachedFile
  <2> QED BY <2>2, <2>7
<1>7. CASE SaveFails(p)
  <2>1. PICK label \in {"visitEntry", "attachFile"} :
           Save(p, label, "send", WithoutFile(job[p])) /\ Occur({"unsaved"}) /\ UNCHANGED files
    BY <1>7 DEF SaveFails, WithoutFile
  <2>2. WithoutFile(job[p]) \in Job /\ SameOwner(WithoutFile(job[p]), job[p])
    BY <1>1, WithoutFileIs
  <2>3. SavesOn(p, label, "send", WithoutFile(job[p]))
    BY <2>1, <2>2, SaveIs
  <2> QED BY <2>1, <2>3 DEF FailedToSave, Occur
<1> QED BY <1>3, <1>4, <1>5, <1>6, <1>7 DEF SaveAttachedReport

\* A step that saves keeps the types.
LEMMA SavesOnType ==
    ASSUME TypeInv, NEW p \in Reporters, NEW label, NEW onward, NEW j, SavesOn(p, label, onward, j),
           files' \subseteq File, \A f \in files' : f.by <= reports
    PROVE  TypeInv'
<1>1. /\ label \in Labels \ {"idle"} /\ onward \in Labels /\ onward \notin {"idle", "getMatches", "getHistory"}
      /\ j \in Job /\ Step(p, label, onward, j) /\ j.report = job[p].report
      /\ UNCHANGED <<options, day, urls, warnings, matches, bypasses, todo, sniffer, reports,
                     accepted, mailed, deleted>>
      /\ mishaps' \subseteq mishaps \cup {"overlap", "unsaved"}
  BY DEF SavesOn, SameOwner, Labels, Saving
<1>2. pc[p] # "idle" /\ j.report \in 1..reports
  BY <1>1 DEF Step, TypeInv, ReportersType
<1>3. reports \in 0..MaxReports /\ reports <= reports
  BY ConstantsAre DEF TypeInv
<1>4. ReportersType'
  BY <1>1, <1>2, <1>3, ReporterType
<1>5. TablesType'
  BY <1>1, TablesSame
<1>6. mishaps' \subseteq Circumstances
  BY <1>1 DEF TypeInv, Circumstances
<1> QED BY <1>1, <1>4, <1>5, <1>6 DEF TypeInv

\* What becomes of the files is of their type, and of reports that have started.
LEMMA SavingFiles ==
    ASSUME TypeInv, NumberInv, NEW p \in Reporters, SaveAttachedReport(p)
    PROVE  /\ \E label, onward, j : SavesOn(p, label, onward, j)
           /\ files' \subseteq File
           /\ \A f \in files' : f.by <= reports
<1>1. files \subseteq File /\ \A f \in files : f.by <= reports
  BY DEF TypeInv
<1>2. job[p] \in Job
  BY DEF TypeInv, ReportersType
<1>3. CASE ListedDirectory(p)
  BY <1>1, <1>3, Zenon DEF ListedDirectory
<1>4. ASSUME NEW name \in Names, VisitedEntry(p, name)
      PROVE  /\ \E label, onward, j : SavesOn(p, label, onward, j)
             /\ files' \subseteq files
  <2>1. \E label, onward, j : SavesOn(p, label, onward, j)
    BY <1>4, Zenon DEF VisitedEntry
  <2>2. files' \subseteq files
    BY <1>4 DEF VisitedEntry
  <2> QED BY <2>1, <2>2
<1>5. CASE WroteFile(p)
  <2>1. \E label, onward, j : SavesOn(p, label, onward, j)
    BY <1>5, Zenon DEF WroteFile
  <2>2. /\ SavesOn(p, "visitEntry", "attachFile", Numbered(job[p]))
        /\ files' = Written(NewFile(job[p]))
    BY <1>5 DEF WroteFile
  <2>3. /\ pc[p] = "visitEntry" /\ Numbered(job[p]) \in Job
    BY <2>2 DEF SavesOn, Step
  <2>4. job[p].report \in 1..reports
    BY <2>3 DEF TypeInv, ReportersType
  <2>5. job[p].number + 1 \in 0..MaxReports
    BY <1>2, <2>3 DEF Numbered, Job
  <2>6. reports \in 0..MaxReports /\ MaxReports \in Nat
    BY ConstantsAre DEF TypeInv
  <2>7. NewFile(job[p]) \in File /\ NewFile(job[p]).by <= reports
    BY <1>2, <2>4, <2>5, <2>6 DEF NewFile, File, Job
  <2>8. \A g \in files' : g \in files \/ g = NewFile(job[p])
    BY <2>2, WrittenIs
  <2> QED BY <1>1, <2>1, <2>7, <2>8
<1>6. ASSUME NEW f \in File, AttachedFile(p, f)
      PROVE  /\ \E label, onward, j : SavesOn(p, label, onward, j)
             /\ files' \subseteq File
             /\ \A g \in files' : g.by <= reports
  <2>1. \E label, onward, j : SavesOn(p, label, onward, j)
    BY <1>6, Zenon DEF AttachedFile
  <2>2. f \in files /\ files' = Written(Zipped(f))
    BY <1>6 DEF AttachedFile
  <2>3. \A g \in files' : g \in files \/ g = Zipped(f)
    BY <2>2, WrittenIs
  <2>4. Zipped(f) \in File /\ Zipped(f).by = f.by
    BY ZippedIs
  <2> QED BY <1>1, <2>1, <2>2, <2>3, <2>4
<1>7. CASE FailedToSave(p)
  BY <1>1, <1>7, Zenon DEF FailedToSave
<1> QED BY <1>1, <1>3, <1>4, <1>5, <1>6, <1>7, SavingIs

LEMMA SavingType ==
    ASSUME TypeInv, NumberInv, NEW p \in Reporters, SaveAttachedReport(p)
    PROVE  TypeInv'
<1>1. PICK label, onward, j : SavesOn(p, label, onward, j)
  BY SavingFiles, Zenon
<1> QED BY <1>1, SavingFiles, SavesOnType

-----------------------------------------------------------------------------
\* What the start of a report, its mail and its end do.
Started(p) ==
    /\ Step(p, "idle", "getBypasses",
            [NoJob EXCEPT !.report = reports + 1, !.old = (Requests \cup Incidents) \ todo])
    /\ reports < MaxReports /\ reports' = reports + 1
    /\ mishaps \subseteq mishaps'
    /\ mishaps' \subseteq mishaps \cup {"split"}
    /\ "split" \in mishaps' \/ sniffer.pc = "idle"
    /\ UNCHANGED <<options, day, urls, warnings, matches, bypasses, files, todo, sniffer,
                   accepted, mailed, deleted>>

Mail(p) == [report |-> job[p].report, enclosed |-> {f.by : f \in Enclosed(p)}]
Contents(p) == job[p].body \cup UNION {f.content : f \in Enclosed(p)}

Mailed(p) ==
    /\ Step(p, "send", "rotate", [NoJob EXCEPT !.report = job[p].report, !.old = job[p].old])
    /\ Cardinality(Enclosed(p)) = Cardinality(job[p].attachment)
    /\ accepted' = accepted \cup {Mail(p)}
    /\ mailed' = mailed \cup Contents(p)
    /\ UNCHANGED <<options, day, urls, warnings, matches, bypasses, files, todo, sniffer,
                   reports, deleted, mishaps>>

GaveUp(p) ==
    /\ Step(p, "send", "idle", NoJob)
    /\ UNCHANGED <<options, day, urls, warnings, matches, bypasses, files, todo, sniffer,
                   reports, accepted, mailed, deleted, mishaps>>

OldUrls(p) == {u \in urls : u.request \in job[p].old}

Rotated(p) ==
    /\ Step(p, "rotate", "idle", NoJob)
    /\ matches' = {m \in matches : \A u \in OldUrls(p) : m.urlId # u.rowid}
    /\ warnings' = {w \in warnings : \A u \in OldUrls(p) : w.urlId # u.rowid}
    /\ urls' = urls \ OldUrls(p)
    /\ bypasses' = bypasses \ job[p].old
    /\ deleted' = deleted \cup {u.request : u \in OldUrls(p)} \cup (bypasses \cap job[p].old)
    /\ mishaps \subseteq mishaps'
    /\ mishaps' \subseteq mishaps \cup {"rotated", "orphaned"}
    /\ "rotated" \in mishaps' \/ \A q \in Reporters : pc[q] \notin Reading
    /\ "orphaned" \in mishaps' \/ sniffer.pc = "idle" \/ sniffer.request \notin job[p].old
    /\ UNCHANGED <<options, day, files, todo, sniffer, reports, accepted, mailed>>

LEMMA EndsAre ==
    ASSUME NEW p \in Reporters
    PROVE  /\ LogReportStart(p) => Started(p)
           /\ SendMessage(p) => Mailed(p)
           /\ SendFails(p) => GaveUp(p)
           /\ Rotate(p) => Rotated(p)
<1>1. ASSUME LogReportStart(p) PROVE Started(p)
  BY <1>1 DEF LogReportStart, Started, Occur, world, tables, logging
<1>2. ASSUME SendMessage(p) PROVE Mailed(p)
  <2>1. mailed \cup job[p].body \cup UNION {f.content : f \in Enclosed(p)} = mailed \cup Contents(p)
    BY Zenon DEF Contents
  <2> QED BY <1>2, <2>1 DEF SendMessage, Mailed, Mail, world, tables, logging
<1>3. ASSUME SendFails(p) PROVE GaveUp(p)
  BY <1>3 DEF SendFails, GaveUp, world, tables, logging, history
<1>4. ASSUME Rotate(p) PROVE Rotated(p)
  BY <1>4 DEF Rotate, Rotated, OldUrls, Occur, world, logging
<1> QED BY <1>1, <1>2, <1>3, <1>4

LEMMA EndsType ==
    ASSUME TypeInv, NEW p \in Reporters, Started(p) \/ Mailed(p) \/ GaveUp(p) \/ Rotated(p)
    PROVE  TypeInv'
<1>1. reports \in 0..MaxReports /\ MaxReports \in Nat /\ job[p] \in Job /\ NoJob \in Job
  BY ConstantsAre, NoJobIs DEF TypeInv, ReportersType
<1>2. "getBypasses" \in Labels /\ "rotate" \in Labels /\ "idle" \in Labels
  BY DEF Labels, Reading
<1>3. CASE Started(p)
  <2> DEFINE j == [NoJob EXCEPT !.report = reports + 1, !.old = (Requests \cup Incidents) \ todo]
  <2>1. /\ Step(p, "idle", "getBypasses", j) /\ reports' = reports + 1 /\ reports < MaxReports
        /\ UNCHANGED <<options, day, urls, warnings, matches, bypasses, files, todo, sniffer,
                       accepted, mailed, deleted>>
        /\ mishaps' \subseteq mishaps \cup {"split"}
    BY <1>3 DEF Started
  <2>2. reports' \in 0..MaxReports /\ reports <= reports' /\ reports + 1 \in 1..reports'
    BY <1>1, <2>1
  <2>3. reports + 1 \in 0..MaxReports /\ (Requests \cup Incidents) \ todo \in SUBSET (Requests \cup Incidents)
    BY <1>1, <2>1
  <2>4. j \in Job /\ j.report = reports + 1
    BY <2>3, NoJobIs
  <2> HIDE DEF j
  <2>5. ReportersType'
    BY <1>2, <2>1, <2>2, <2>4, ReporterType
  <2>6. TablesType'
    BY <2>1, TablesSame
  <2>7. \A f \in files' : f.by <= reports'
    <3>1. \A f \in files : f.by <= reports /\ f.by \in Nat
      BY <1>1 DEF TypeInv, File
    <3> QED BY <1>1, <2>1, <3>1
  <2>8. mishaps' \subseteq Circumstances
    BY <2>1 DEF TypeInv, Circumstances
  <2> QED BY <2>1, <2>2, <2>5, <2>6, <2>7, <2>8 DEF TypeInv
<1>4. CASE Mailed(p)
  <2> DEFINE j == [NoJob EXCEPT !.report = job[p].report, !.old = job[p].old]
  <2>1. /\ Step(p, "send", "rotate", j)
        /\ mailed' = mailed \cup Contents(p)
        /\ UNCHANGED <<options, day, urls, warnings, matches, bypasses, files, todo, sniffer,
                       reports, deleted, mishaps>>
    BY <1>4 DEF Mailed
  <2>2. job[p].report \in 1..reports
    BY <2>1 DEF Step, TypeInv, ReportersType
  <2>3. job[p].report \in 0..MaxReports /\ job[p].old \in SUBSET (Requests \cup Incidents)
    BY <1>1, <2>2 DEF Job
  <2>4. j \in Job /\ j.report = job[p].report
    BY <2>3, NoJobIs
  <2> HIDE DEF j
  <2>5. ReportersType'
    <3>1. reports' \in 0..MaxReports /\ reports <= reports' /\ job[p].report \in 1..reports'
      BY <1>1, <2>1, <2>2
    <3> QED BY <1>2, <2>1, <2>4, <3>1, ReporterType
  <2>6. TablesType'
    BY <2>1, TablesSame
  <2>7. Contents(p) \subseteq Items
    <3>1. \A f \in Enclosed(p) : f \in File
      BY DEF Enclosed, TypeInv
    <3>2. \A f \in Enclosed(p) : f.content \subseteq Items
      BY <3>1 DEF File
    <3>3. job[p].body \subseteq Items
      BY <1>1 DEF Job
    <3> QED BY <3>2, <3>3 DEF Contents
  <2> QED BY <2>1, <2>5, <2>6, <2>7 DEF TypeInv
<1>5. CASE GaveUp(p)
  <2>1. /\ Step(p, "send", "idle", NoJob)
        /\ UNCHANGED <<options, day, urls, warnings, matches, bypasses, files, todo, sniffer,
                       reports, mailed, deleted, mishaps>>
    BY <1>5 DEF GaveUp
  <2>2. reports' \in 0..MaxReports /\ reports <= reports'
    BY <1>1, <2>1
  <2>3. ReportersType'
    BY <1>1, <1>2, <2>1, <2>2, ReporterType
  <2>4. TablesType'
    BY <2>1, TablesSame
  <2> QED BY <2>1, <2>3, <2>4 DEF TypeInv
<1>6. CASE Rotated(p)
  <2>1. /\ Step(p, "rotate", "idle", NoJob)
        /\ matches' \subseteq matches /\ warnings' \subseteq warnings /\ urls' \subseteq urls
        /\ bypasses' \subseteq bypasses
        /\ UNCHANGED <<options, day, files, todo, sniffer, reports, mailed>>
    BY <1>6 DEF Rotated
  <2>2. reports' \in 0..MaxReports /\ reports <= reports'
    BY <1>1, <2>1
  <2>3. ReportersType'
    BY <1>1, <1>2, <2>1, <2>2, ReporterType
  <2>4. TablesType'
    BY <2>1 DEF TypeInv, TablesType
  <2>5. deleted' \subseteq Requests \cup Incidents
    <3>1. \A u \in OldUrls(p) : u.request \in Requests
      BY DEF OldUrls, TypeInv, TablesType, UrlRow
    <3>2. deleted' = deleted \cup {u.request : u \in OldUrls(p)} \cup (bypasses \cap job[p].old)
      BY <1>6 DEF Rotated
    <3> QED BY <3>1, <3>2 DEF TypeInv, TablesType
  <2>6. mishaps' \subseteq Circumstances
    BY <1>6 DEF Rotated, TypeInv, Circumstances
  <2> QED BY <2>1, <2>3, <2>4, <2>5, <2>6 DEF TypeInv
<1> QED BY <1>3, <1>4, <1>5, <1>6

\* The steps, each with what it does.
StepsOf(p) == Generate(p) \/ SaveAttachedReport(p) \/ Started(p) \/ Mailed(p) \/ GaveUp(p) \/ Rotated(p)

Logs == \/ \E r \in Requests : InsertUrl(r)
        \/ InsertWarning \/ InsertMatches
        \/ \E b \in Incidents : LogBypass(b)

LEMMA NextIs ==
    ASSUME [Next]_vars
    PROVE  \/ Logs
           \/ Midnight
           \/ \E p \in Reporters : StepsOf(p)
           \/ UNCHANGED vars
<1>1. ASSUME NEW p \in Reporters, LogReportStart(p) \/ Generate(p) \/ SaveAttachedReport(p)
                                  \/ SendMessage(p) \/ SendFails(p) \/ Rotate(p)
      PROVE  StepsOf(p)
  BY <1>1, EndsAre, Zenon DEF StepsOf
<1> QED BY <1>1, Zenon DEF Next, Logs

\* What no step changes when nothing happens.
LEMMA Same ==
    ASSUME UNCHANGED vars
    PROVE  UNCHANGED <<options, day, urls, warnings, matches, bypasses, files, todo, sniffer, pc, job,
                       reports, accepted, mailed, deleted, mishaps>>
BY DEF vars, world, tables, logging, history

\* Every step keeps the types, as long as there is a number for each file.
LEMMA TypeStep == TypeInv /\ NumberInv /\ [Next]_vars => TypeInv'
<1> SUFFICES ASSUME TypeInv, NumberInv, [Next]_vars PROVE TypeInv'
  OBVIOUS
<1>1. CASE Logs \/ Midnight
  BY <1>1, SnifferType DEF Logs
<1>2. ASSUME NEW p \in Reporters, StepsOf(p) PROVE TypeInv'
  BY <1>2, GenerateType, SavingType, EndsType DEF StepsOf
<1>3. CASE UNCHANGED vars
  <2>1. UNCHANGED <<options, day, urls, warnings, matches, bypasses, files, todo, sniffer, pc, job,
                    reports, accepted, mailed, deleted, mishaps>>
    BY <1>3, Same
  <2>2. TablesType'
    BY <2>1, TablesSame
  <2>3. ReportersType'
    BY <2>1 DEF TypeInv, ReportersType
  <2> QED BY <2>1, <2>2, <2>3 DEF TypeInv
<1> QED BY <1>1, <1>2, <1>3, NextIs

-----------------------------------------------------------------------------
\* A reporter that stays where it is with the numbers, writes its file or gives
\* it up, or starts, counts as one that has its number or one that has not.
LEMMA FiledStep ==
    ASSUME TypeInv, NumberInv, NEW p \in Reporters,
           \A q \in Reporters : q # p => pc'[q] = pc[q],
           \/ reports' = reports /\ (p \in Pending <=> p \in Pending')
           \/ reports' = reports /\ p \in Pending /\ p \notin Pending'
           \/ reports' = reports + 1 /\ p \notin Pending /\ p \in Pending'
    PROVE  /\ IsFiniteSet(Pending') /\ Cardinality(Pending') <= reports'
           /\ Filed \in Nat /\ Filed' \in Nat /\ Filed <= Filed'
           /\ p \in Pending /\ p \notin Pending' => Filed' = Filed + 1
<1>1. \A q \in Reporters : q # p => (q \in Pending <=> q \in Pending')
  BY DEF Pending
<1>2. reports \in Nat /\ IsFiniteSet(Pending) /\ Cardinality(Pending) <= reports
  BY ConstantsAre DEF TypeInv, NumberInv
<1>3. Cardinality(Pending) \in Nat
  BY <1>2, FS_CardinalityType
<1>4. Pending \subseteq Reporters /\ Pending' \subseteq Reporters
  BY DEF Pending
<1>5. Filed = reports - Cardinality(Pending) /\ Filed' = reports' - Cardinality(Pending')
  BY DEF Filed
<1>6. CASE reports' = reports /\ (p \in Pending <=> p \in Pending')
  <2>1. Pending' = Pending
    BY <1>1, <1>4, <1>6
  <2> QED BY <1>2, <1>3, <1>5, <1>6, <2>1
<1>7. CASE reports' = reports /\ p \in Pending /\ p \notin Pending'
  <2>1. Pending' = Pending \ {p}
    BY <1>1, <1>4, <1>7
  <2>2. IsFiniteSet(Pending \ {p}) /\ Cardinality(Pending \ {p}) = Cardinality(Pending) - 1
    BY <1>2, <1>7, FS_RemoveElement
  <2> QED BY <1>2, <1>3, <1>5, <1>7, <2>1, <2>2
<1>8. CASE reports' = reports + 1 /\ p \notin Pending /\ p \in Pending'
  <2>1. Pending' = Pending \cup {p}
    BY <1>1, <1>4, <1>8
  <2>2. IsFiniteSet(Pending \cup {p}) /\ Cardinality(Pending \cup {p}) = Cardinality(Pending) + 1
    BY <1>2, <1>8, FS_AddElement
  <2> QED BY <1>2, <1>3, <1>5, <1>8, <2>1, <2>2
<1> QED BY <1>6, <1>7, <1>8

\* The numbers stay within what is filed, when those of one reporter and of the
\* files do.
LEMMA NumberKept ==
    ASSUME TypeInv, NumberInv, TypeInv', NEW p \in Reporters,
           \A q \in Reporters : q # p => pc'[q] = pc[q] /\ job'[q] = job[q],
           \/ reports' = reports /\ (p \in Pending <=> p \in Pending')
           \/ reports' = reports /\ p \in Pending /\ p \notin Pending'
           \/ reports' = reports + 1 /\ p \notin Pending /\ p \in Pending',
           \A f \in files' : f.number <= Filed',
           p \in Pending' =>
              job'[p].number <= Filed' /\ \A name \in job'[p].names : name.number <= Filed'
    PROVE  NumberInv'
<1>1. /\ IsFiniteSet(Pending') /\ Cardinality(Pending') <= reports'
      /\ Filed \in Nat /\ Filed' \in Nat /\ Filed <= Filed'
  BY FiledStep
<1>2. ASSUME NEW q \in Pending'
      PROVE  job'[q].number <= Filed' /\ \A name \in job'[q].names : name.number <= Filed'
  <2>1. CASE q = p
    BY <2>1, <1>2
  <2>2. CASE q # p
    <3>1. q \in Reporters /\ q \in Pending /\ job'[q] = job[q]
      BY <1>2, <2>2 DEF Pending
    <3>2. job[q].number <= Filed /\ \A name \in job[q].names : name.number <= Filed
      BY <3>1 DEF NumberInv
    <3>3. job[q] \in Job
      BY <3>1 DEF TypeInv, ReportersType
    <3>4. job[q].number \in 0..MaxReports /\ job[q].names \subseteq Names
      BY <3>3 DEF Job
    <3>5. \A name \in job[q].names : name.number \in 0..MaxReports
      BY <3>4 DEF Names
    <3>6. MaxReports \in Nat
      BY ConstantsAre
    <3> HIDE DEF Filed
    <3>7. job[q].number \in Nat /\ \A name \in job[q].names : name.number \in Nat
      BY <3>4, <3>5, <3>6
    <3>8. job[q].number <= Filed'
      BY <1>1, <3>2, <3>7
    <3>9. \A name \in job[q].names : name.number <= Filed'
      BY <1>1, <3>2, <3>7
    <3> QED BY <3>1, <3>8, <3>9
  <2> QED BY <2>1, <2>2
<1> QED BY <1>1, <1>2 DEF NumberInv

\* The start of everything.
LEMMA NumberInit == Init => NumberInv
<1> SUFFICES ASSUME Init PROVE NumberInv
  OBVIOUS
<1>1. Pending = {}
  BY DEF Init, Pending, Reading
<1>2. IsFiniteSet({}) /\ Cardinality({}) = 0
  BY FS_EmptySet
<1>3. reports = 0 /\ files = {}
  BY DEF Init
<1> QED BY <1>1, <1>2, <1>3 DEF NumberInv

\* Reading changes none of the numbers.
LEMMA ReadNumber ==
    ASSUME TypeInv, NumberInv, NEW p \in Reporters, Generate(p)
    PROVE  NumberInv'
<1>1. PICK label, onward, j : ReadsOn(p, label, onward, j)
  BY GenerateIs
<1>2. /\ label \in Reading /\ onward \in Reading \cup {"listDirectory"} /\ j \in Job
      /\ Read(p, label, onward, j) /\ SameReport(j, job[p])
  BY <1>1 DEF ReadsOn
<1>3. Step(p, label, onward, j) /\ UNCHANGED <<files, reports>>
  BY <1>2 DEF Read, history
<1>4. onward \in Labels
  BY <1>2 DEF Labels
<1>5. /\ pc[p] = label /\ pc'[p] = onward /\ job'[p] = j
      /\ \A q \in Reporters : q # p => pc'[q] = pc[q] /\ job'[q] = job[q]
  BY <1>2, <1>3, <1>4, StepIs, ZenonT(60)
<1>6. p \in Pending /\ p \in Pending'
  BY <1>2, <1>5 DEF Pending
<1>7. Filed' = Filed
  <2>1. \A q \in Reporters : q \in Pending <=> q \in Pending'
    BY <1>5, <1>6 DEF Pending
  <2>2. Pending' = Pending
    BY <2>1 DEF Pending
  <2> QED BY <1>3, <2>2 DEF Filed
<1>8. j.number = job[p].number /\ j.names = job[p].names
  BY <1>2 DEF SameReport
<1>9. /\ \A f \in files' : f.number <= Filed'
      /\ job'[p].number <= Filed' /\ \A name \in job'[p].names : name.number <= Filed'
  BY <1>3, <1>5, <1>6, <1>7, <1>8 DEF NumberInv
<1>10. TypeInv'
  BY GenerateType
<1> QED BY <1>3, <1>5, <1>6, <1>9, <1>10, NumberKept

\* What a saving step does to the reporters.
LEMMA SavesStep ==
    ASSUME TypeInv, NEW p \in Reporters, NEW label, NEW onward, NEW j, SavesOn(p, label, onward, j)
    PROVE  /\ pc[p] = label /\ pc'[p] = onward /\ job'[p] = j /\ j \in Job
           /\ \A q \in Reporters : q # p => pc'[q] = pc[q] /\ job'[q] = job[q]
           /\ onward \notin Reading \cup {"idle", "rotate"}
           /\ SameOwner(j, job[p])
           /\ UNCHANGED <<options, day, urls, warnings, matches, bypasses, todo, sniffer, reports,
                          accepted, mailed, deleted>>
           /\ mishaps \subseteq mishaps' /\ mishaps' \subseteq mishaps \cup {"overlap", "unsaved"}
<1>1. /\ onward \in {"visitEntry", "attachFile", "send"} /\ j \in Job
      /\ Step(p, label, onward, j) /\ SameOwner(j, job[p])
      /\ UNCHANGED <<options, day, urls, warnings, matches, bypasses, todo, sniffer, reports,
                     accepted, mailed, deleted>>
      /\ mishaps \subseteq mishaps' /\ mishaps' \subseteq mishaps \cup {"overlap", "unsaved"}
  BY DEF SavesOn
<1>2. onward \in Labels /\ onward \notin Reading \cup {"idle", "rotate"}
  BY <1>1 DEF Labels, Saving, Reading
<1>3. /\ pc[p] = label /\ pc'[p] = onward /\ job'[p] = j
      /\ \A q \in Reporters : q # p => pc'[q] = pc[q] /\ job'[q] = job[q]
  BY <1>1, <1>2, StepIs, ZenonT(60)
<1> QED BY <1>1, <1>2, <1>3

\* A file gets a number that is not above the files written by then.
LEMMA SavingNumber ==
    ASSUME TypeInv, NumberInv, NEW p \in Reporters, SaveAttachedReport(p)
    PROVE  NumberInv'
<1>1. TypeInv'
  BY SavingType
<1>2. job[p] \in Job /\ files \subseteq File /\ Filed \in Nat
  <2>1. Cardinality(Pending) \in Nat /\ reports \in Nat
    BY FS_CardinalityType, ConstantsAre DEF NumberInv, TypeInv
  <2> QED BY <2>1 DEF TypeInv, ReportersType, NumberInv, Filed
<1>3. \A f \in files : f.number <= Filed /\ f.number \in Nat
  BY <1>2, ConstantsAre DEF NumberInv, File
<1>4. p \in Pending => job[p].number <= Filed /\ \A name \in job[p].names : name.number <= Filed
  BY DEF NumberInv
<1>5. job[p].number \in Nat /\ job[p].names \subseteq Names
  BY <1>2, ConstantsAre DEF Job
<1>6. CASE ListedDirectory(p)
  <2>1. SavesOn(p, "listDirectory", "visitEntry", Listing(job[p])) /\ files' = files
    BY <1>6 DEF ListedDirectory
  <2>2. /\ pc[p] = "listDirectory" /\ pc'[p] = "visitEntry" /\ job'[p] = Listing(job[p])
        /\ reports' = reports
        /\ \A q \in Reporters : q # p => pc'[q] = pc[q] /\ job'[q] = job[q]
    BY <2>1, SavesStep
  <2>3. p \in Pending /\ p \in Pending'
    BY <2>2 DEF Pending
  <2>4. Filed' \in Nat /\ Filed <= Filed'
    BY <2>2, <2>3, FiledStep
  <2>5. {Name(f) : f \in files} \subseteq Names /\ \A f \in files : Name(f).number = f.number
    BY <1>2, NameIs
  <2>6. Listing(job[p]).number = job[p].number /\ Listing(job[p]).names = {Name(f) : f \in files}
    BY <1>2, <2>5, ListingIs DEF TypeInv
  <2> HIDE DEF Filed
  <2>7. \A f \in files' : f.number <= Filed'
    BY <1>2, <1>3, <2>1, <2>4
  <2>8. \A name \in job'[p].names : name.number <= Filed'
    BY <2>1, <2>2, <2>5, <2>6, <2>7
  <2>9. job'[p].number <= Filed'
    BY <1>2, <1>4, <1>5, <2>2, <2>3, <2>4, <2>6
  <2> QED BY <1>1, <2>2, <2>3, <2>7, <2>8, <2>9, NumberKept
<1>7. ASSUME NEW name \in Names, VisitedEntry(p, name) PROVE NumberInv'
  <2>1. /\ name \in job[p].names
        /\ \E new \in {Without(job[p], name), Counted(job[p], name)} :
              SavesOn(p, "visitEntry", "visitEntry", new)
        /\ files' \subseteq files
    BY <1>7 DEF VisitedEntry
  <2>2. PICK new \in {Without(job[p], name), Counted(job[p], name)} :
           SavesOn(p, "visitEntry", "visitEntry", new)
    BY <2>1
  <2>3. /\ pc[p] = "visitEntry" /\ pc'[p] = "visitEntry" /\ job'[p] = new
        /\ reports' = reports
        /\ \A q \in Reporters : q # p => pc'[q] = pc[q] /\ job'[q] = job[q]
    BY <2>2, SavesStep
  <2>4. p \in Pending /\ p \in Pending'
    BY <2>3 DEF Pending
  <2>5. Filed' \in Nat /\ Filed <= Filed'
    BY <2>3, <2>4, FiledStep
  <2>6. new.number \in {job[p].number, name.number} /\ new.names = job[p].names \ {name}
    BY <1>2, <2>2, CountedIs
  <2> HIDE DEF Filed
  <2>7. \A f \in files' : f.number <= Filed'
    BY <1>2, <1>3, <2>1, <2>5
  <2>8. \A n \in job[p].names : n.number <= Filed /\ n.number \in Nat
    <3>1. \A n \in job[p].names : n.number \in 0..MaxReports
      BY <1>5 DEF Names
    <3> QED BY <1>4, <2>4, <3>1, ConstantsAre
  <2>9. job'[p].number <= Filed' /\ \A n \in job'[p].names : n.number <= Filed'
    BY <1>2, <1>4, <1>5, <2>1, <2>3, <2>4, <2>5, <2>6, <2>8
  <2> QED BY <1>1, <2>3, <2>4, <2>7, <2>9, NumberKept
<1>8. CASE WroteFile(p)
  <2>1. SavesOn(p, "visitEntry", "attachFile", Numbered(job[p])) /\ files' = Written(NewFile(job[p]))
    BY <1>8 DEF WroteFile
  <2>2. /\ pc[p] = "visitEntry" /\ pc'[p] = "attachFile" /\ reports' = reports
        /\ \A q \in Reporters : q # p => pc'[q] = pc[q] /\ job'[q] = job[q]
    BY <2>1, SavesStep
  <2>3. p \in Pending /\ p \notin Pending'
    BY <2>2 DEF Pending, Reading
  <2>4. Filed' \in Nat /\ Filed' = Filed + 1
    BY <2>2, <2>3, FiledStep
  <2>5. \A g \in files' : g \in files \/ g = NewFile(job[p])
    BY <2>1, WrittenIs
  <2>6. NewFile(job[p]).number = job[p].number + 1
    BY DEF NewFile
  <2> HIDE DEF Filed
  <2>7. \A f \in files' : f.number <= Filed'
    BY <1>2, <1>3, <1>4, <1>5, <2>3, <2>4, <2>5, <2>6
  <2> QED BY <1>1, <2>2, <2>3, <2>7, NumberKept
<1>9. ASSUME NEW f \in File, AttachedFile(p, f) PROVE NumberInv'
  <2>1. /\ f \in files /\ SavesOn(p, "attachFile", "send", WithFile(job[p], Name(Zipped(f))))
        /\ files' = Written(Zipped(f))
    BY <1>9 DEF AttachedFile
  <2>2. /\ pc[p] = "attachFile" /\ pc'[p] = "send" /\ reports' = reports
        /\ \A q \in Reporters : q # p => pc'[q] = pc[q] /\ job'[q] = job[q]
    BY <2>1, SavesStep
  <2>3. p \notin Pending /\ p \notin Pending'
    BY <2>2 DEF Pending, Reading
  <2>4. Filed' \in Nat /\ Filed <= Filed'
    BY <2>2, <2>3, FiledStep
  <2>5. \A g \in files' : g \in files \/ g = Zipped(f)
    BY <2>1, WrittenIs
  <2>6. Zipped(f).number = f.number
    BY ZippedIs
  <2> HIDE DEF Filed
  <2>7. \A g \in files' : g.number <= Filed'
    BY <1>2, <1>3, <2>1, <2>4, <2>5, <2>6
  <2> QED BY <1>1, <2>2, <2>3, <2>7, NumberKept
<1>10. CASE FailedToSave(p)
  <2>1. PICK label \in {"visitEntry", "attachFile"} : SavesOn(p, label, "send", WithoutFile(job[p]))
    BY <1>10, Zenon DEF FailedToSave
  <2>2. /\ pc'[p] = "send" /\ reports' = reports /\ files' = files
        /\ \A q \in Reporters : q # p => pc'[q] = pc[q] /\ job'[q] = job[q]
    BY <1>10, <2>1, SavesStep DEF FailedToSave
  <2>3. p \notin Pending'
    BY <2>2 DEF Pending, Reading
  <2>4. Filed' \in Nat /\ Filed <= Filed'
    BY <2>2, <2>3, FiledStep
  <2> HIDE DEF Filed
  <2>5. \A g \in files' : g.number <= Filed'
    BY <1>2, <1>3, <2>2, <2>4
  <2> QED BY <1>1, <2>2, <2>3, <2>5, NumberKept
<1> QED BY <1>6, <1>7, <1>8, <1>9, <1>10, SavingIs

\* The job of a report that has just started, or has been mailed.
Fresh(report, old) == [NoJob EXCEPT !.report = report, !.old = old]

LEMMA FreshIs ==
    ASSUME NEW report \in 0..MaxReports, NEW old \in SUBSET (Requests \cup Incidents)
    PROVE  LET j == Fresh(report, old) IN
           /\ j \in Job
           /\ j.report = report /\ j.old = old
           /\ j.number = 0 /\ j.names = {} /\ j.attachment = {}
           /\ j.body = {} /\ j.attached = {} /\ j.listed = {}
<1>1. NoJob \in Job
  BY NoJobIs
<1> QED BY <1>1 DEF Fresh, NoJob, Job

\* What the start, the mail and the end of a report do to the reporters.
EndsOn(p, label, onward, report) ==
    /\ pc[p] = label /\ pc'[p] = onward
    /\ job'[p] \in Job
    /\ job'[p].number = 0 /\ job'[p].names = {} /\ job'[p].attachment = {}
    /\ job'[p].body = {} /\ job'[p].attached = {} /\ job'[p].listed = {}
    /\ onward # "idle" => job'[p].report = report
    /\ \A q \in Reporters : q # p => pc'[q] = pc[q] /\ job'[q] = job[q]

LEMMA EndsStep ==
    ASSUME TypeInv, NEW p \in Reporters
    PROVE  /\ Started(p) => /\ EndsOn(p, "idle", "getBypasses", reports + 1)
                            /\ job'[p].old = (Requests \cup Incidents) \ todo
           /\ Mailed(p) => EndsOn(p, "send", "rotate", job[p].report) /\ job'[p].old = job[p].old
           /\ GaveUp(p) => EndsOn(p, "send", "idle", None) /\ job'[p].old = {}
           /\ Rotated(p) => EndsOn(p, "rotate", "idle", None) /\ job'[p].old = {}
<1>1. reports \in 0..MaxReports /\ MaxReports \in Nat /\ job[p] \in Job
  BY ConstantsAre DEF TypeInv, ReportersType
<1>2. "getBypasses" \in Labels /\ "rotate" \in Labels /\ "idle" \in Labels
  BY DEF Labels, Reading
<1>3. ASSUME Started(p)
      PROVE  EndsOn(p, "idle", "getBypasses", reports + 1) /\ job'[p].old = (Requests \cup Incidents) \ todo
  <2> DEFINE j == Fresh(reports + 1, (Requests \cup Incidents) \ todo)
  <2>1. Step(p, "idle", "getBypasses", j) /\ reports < MaxReports
    BY <1>3 DEF Started, Fresh
  <2>2. reports + 1 \in 0..MaxReports /\ (Requests \cup Incidents) \ todo \in SUBSET (Requests \cup Incidents)
    BY <1>1, <2>1
  <2>3. /\ j \in Job /\ j.report = reports + 1 /\ j.old = (Requests \cup Incidents) \ todo
        /\ j.number = 0 /\ j.names = {} /\ j.attachment = {}
        /\ j.body = {} /\ j.attached = {} /\ j.listed = {}
    BY <2>2, FreshIs
  <2> HIDE DEF j
  <2>4. /\ pc[p] = "idle" /\ pc'[p] = "getBypasses" /\ job'[p] = j
        /\ \A q \in Reporters : q # p => pc'[q] = pc[q] /\ job'[q] = job[q]
    BY <1>2, <2>1, <2>3 DEF Step, TypeInv, ReportersType
  <2> QED BY <2>3, <2>4 DEF EndsOn
<1>4. ASSUME Mailed(p)
      PROVE  EndsOn(p, "send", "rotate", job[p].report) /\ job'[p].old = job[p].old
  <2> DEFINE j == Fresh(job[p].report, job[p].old)
  <2>1. Step(p, "send", "rotate", j)
    BY <1>4 DEF Mailed, Fresh
  <2>2. job[p].report \in 1..reports
    BY <2>1 DEF Step, TypeInv, ReportersType
  <2>3. job[p].report \in 0..MaxReports /\ job[p].old \in SUBSET (Requests \cup Incidents)
    BY <1>1, <2>2 DEF Job
  <2>4. /\ j \in Job /\ j.report = job[p].report /\ j.old = job[p].old
        /\ j.number = 0 /\ j.names = {} /\ j.attachment = {}
        /\ j.body = {} /\ j.attached = {} /\ j.listed = {}
    BY <2>3, FreshIs
  <2> HIDE DEF j
  <2>5. /\ pc[p] = "send" /\ pc'[p] = "rotate" /\ job'[p] = j
        /\ \A q \in Reporters : q # p => pc'[q] = pc[q] /\ job'[q] = job[q]
    BY <1>2, <2>1, <2>4, StepIs, SMTT(30)
  <2> QED BY <2>4, <2>5 DEF EndsOn
<1>5. /\ NoJob \in Job /\ NoJob.old = {}
      /\ NoJob.number = 0 /\ NoJob.names = {} /\ NoJob.attachment = {}
      /\ NoJob.body = {} /\ NoJob.attached = {} /\ NoJob.listed = {}
  <2>1. NoJob \in Job
    BY NoJobIs
  <2> QED BY <2>1 DEF NoJob
<1>6. ASSUME NEW label, Step(p, label, "idle", NoJob)
      PROVE  EndsOn(p, label, "idle", None) /\ job'[p].old = {}
  <2>1. /\ pc[p] = label /\ pc'[p] = "idle" /\ job'[p] = NoJob
        /\ \A q \in Reporters : q # p => pc'[q] = pc[q] /\ job'[q] = job[q]
    BY <1>2, <1>5, <1>6 DEF Step, TypeInv, ReportersType
  <2> QED BY <1>5, <2>1 DEF EndsOn
<1>7. GaveUp(p) => Step(p, "send", "idle", NoJob)
  BY DEF GaveUp
<1>8. Rotated(p) => Step(p, "rotate", "idle", NoJob)
  BY DEF Rotated
<1> QED BY <1>3, <1>4, <1>6, <1>7, <1>8

\* A report that starts has no number yet, one that is mailed or over had its.
LEMMA EndsNumber ==
    ASSUME TypeInv, NumberInv, NEW p \in Reporters, Started(p) \/ Mailed(p) \/ GaveUp(p) \/ Rotated(p)
    PROVE  NumberInv'
<1>1. TypeInv' /\ files' = files
  BY EndsType DEF Started, Mailed, GaveUp, Rotated
<1>2. files \subseteq File /\ \A f \in files : f.number <= Filed
  BY DEF TypeInv, NumberInv
<1>3. \A f \in files : f.number \in Nat
  BY <1>2, ConstantsAre DEF File
<1>4. CASE Started(p)
  <2>1. /\ pc[p] = "idle" /\ pc'[p] = "getBypasses" /\ job'[p].number = 0 /\ job'[p].names = {}
        /\ reports' = reports + 1
        /\ \A q \in Reporters : q # p => pc'[q] = pc[q] /\ job'[q] = job[q]
    BY <1>4, EndsStep DEF EndsOn, Started
  <2>2. p \notin Pending /\ p \in Pending'
    BY <2>1 DEF Pending, Reading
  <2>3. Filed \in Nat /\ Filed' \in Nat /\ Filed <= Filed'
    BY <2>1, <2>2, FiledStep
  <2> HIDE DEF Filed
  <2>4. \A f \in files' : f.number <= Filed'
    BY <1>1, <1>2, <1>3, <2>3
  <2>5. job'[p].number <= Filed' /\ \A name \in job'[p].names : name.number <= Filed'
    BY <2>1, <2>3
  <2> QED BY <1>1, <2>1, <2>2, <2>4, <2>5, NumberKept
<1>5. CASE Mailed(p) \/ GaveUp(p) \/ Rotated(p)
  <2>1. PICK label \in {"send", "rotate"}, onward \in {"rotate", "idle"}, report \in {None, job[p].report} :
           EndsOn(p, label, onward, report)
    BY <1>5, EndsStep, Zenon
  <2>2. /\ pc[p] = label /\ pc'[p] = onward
        /\ \A q \in Reporters : q # p => pc'[q] = pc[q] /\ job'[q] = job[q]
    BY <2>1 DEF EndsOn
  <2>3. reports' = reports
    BY <1>5 DEF Mailed, GaveUp, Rotated
  <2>4. p \notin Pending /\ p \notin Pending'
    BY <2>2 DEF Pending, Reading
  <2>5. Filed \in Nat /\ Filed' \in Nat /\ Filed <= Filed'
    BY <2>2, <2>3, <2>4, FiledStep
  <2> HIDE DEF Filed
  <2>6. \A f \in files' : f.number <= Filed'
    BY <1>1, <1>2, <1>3, <2>5
  <2> QED BY <1>1, <2>2, <2>3, <2>4, <2>6, NumberKept
<1> QED BY <1>4, <1>5

\* Every step keeps the numbers.
LEMMA NumberStep == TypeInv /\ NumberInv /\ [Next]_vars => NumberInv'
<1> SUFFICES ASSUME TypeInv, NumberInv, [Next]_vars PROVE NumberInv'
  OBVIOUS
<1>1. CASE UNCHANGED <<files, pc, job, reports>>
  <2>1. Pending' = Pending
    BY <1>1 DEF Pending
  <2> QED BY <1>1, <2>1 DEF NumberInv, Filed
<1>2. Logs \/ Midnight => UNCHANGED <<files, pc, job, reports>>
  BY DEF Logs, InsertUrl, InsertWarning, InsertMatches, LogBypass, Midnight, history
<1>3. UNCHANGED vars => UNCHANGED <<files, pc, job, reports>>
  BY DEF vars, history
<1>4. ASSUME NEW p \in Reporters, StepsOf(p) PROVE NumberInv'
  BY <1>4, ReadNumber, SavingNumber, EndsNumber DEF StepsOf
<1> QED BY <1>1, <1>2, <1>3, <1>4, NextIs

\* Both hold in every state.
LEMMA TypeAlways == Spec => []TypeInv /\ []NumberInv
<1>1. Init => TypeInv /\ NumberInv
  BY TypeInit, NumberInit
<1>2. TypeInv /\ NumberInv /\ [Next]_vars => (TypeInv /\ NumberInv)'
  BY TypeStep, NumberStep
<1> QED BY <1>1, <1>2, PTL DEF Spec

\* Every variable of class Report and its cursors keeps its type; above all the
\* index of the cursor over the warnings is that of a row, and the number that
\* saveAttachedReport counts up never passes that of the reports started, however
\* many processes look for one at the same time.
THEOREM TypeCorrect == Spec => []TypeOK
<1>1. TypeInv => TypeOK
  <2> SUFFICES ASSUME TypeInv PROVE TypeOK
    OBVIOUS
  <2>1. /\ urls \subseteq [rowid : 1..Cardinality(Requests), request : Requests]
        /\ warnings \subseteq [urlId : 1..Cardinality(Requests), match : Requests]
        /\ matches \subseteq [urlId : 1..Cardinality(Requests), keyword : Words]
        /\ bypasses \subseteq Incidents /\ todo \subseteq Requests \cup Incidents
        /\ sniffer.pc \in {"idle", "insertWarning", "insertMatches"}
    BY DEF TypeInv, TablesType, UrlRow, WarningRow, MatchRow, Rowids
  <2>2. \A f \in files : Name(f) \in Names /\ f.by \in 1..reports /\ f.content \subseteq Items
    <3>1. reports \in Nat /\ MaxReports \in Nat
      BY ConstantsAre DEF TypeInv
    <3>2. \A f \in files : f \in File /\ f.by <= reports
      BY DEF TypeInv
    <3>3. \A f \in files : f.by \in 1..MaxReports /\ f.content \subseteq Items
      BY <3>2 DEF File
    <3> QED BY <3>1, <3>2, <3>3, NameIs
  <2>3. /\ pc \in [Reporters -> {"idle", "listDirectory", "send", "rotate"} \cup Reading \cup Saving]
        /\ \A p \in Reporters : pc[p] # "idle" => job[p].report \in 1..reports
        /\ \A p \in Reporters : pc[p] = "getMatches" => job[p].index \in 1..Len(job[p].rows)
    BY DEF TypeInv, ReportersType, Labels
  <2>4. \A p \in Reporters : /\ job[p].old \subseteq Requests \cup Incidents
                             /\ job[p].hosts \subseteq Hosts
                             /\ job[p].body \cup job[p].attached \cup job[p].listed \subseteq Items
                             /\ job[p].attachment \subseteq Names
    <3>1. \A p \in Reporters : job[p] \in Job
      BY DEF TypeInv, ReportersType
    <3> QED BY <3>1 DEF Job
  <2> QED BY <2>1, <2>2, <2>3, <2>4 DEF TypeOK, TypeInv
<1> QED BY <1>1, TypeAlways, PTL

-----------------------------------------------------------------------------
\* The names of files and the days they bear, when those of one reporter and of
\* the files are in order.
LEMMA NamesKept ==
    ASSUME NamesInv, NEW p \in Reporters, day' = day,
           \A q \in Reporters : q # p => pc'[q] = pc[q] /\ job'[q] = job[q],
           \A f, g \in files' : Name(f) = Name(g) => f = g,
           \A f \in files' : f.date <= day,
           pc'[p] \in Saving => /\ job'[p].date <= day
                                /\ \A name \in job'[p].names : name.date <= job'[p].date
    PROVE  NamesInv'
<1>1. ASSUME NEW q \in Reporters, pc'[q] \in Saving
      PROVE  job'[q].date <= day' /\ \A name \in job'[q].names : name.date <= job'[q].date
  <2>1. CASE q = p
    BY <1>1, <2>1
  <2>2. CASE q # p
    BY <1>1, <2>2 DEF NamesInv
  <2> QED BY <2>1, <2>2
<1>2. /\ \A f, g \in files' : Name(f)' = Name(g)' => f = g
      /\ \A f \in files' : f.date <= day'
  BY DEF Name
<1> QED BY <1>1, <1>2 DEF NamesInv

\* Writing a file leaves the names apart.
LEMMA WrittenNames ==
    ASSUME NamesInv, NEW f, f.date <= day
    PROVE  /\ \A g, h \in Written(f) : Name(g) = Name(h) => g = h
           /\ \A g \in Written(f) : g.date <= day
<1>1. \A g \in Written(f) : g = f \/ (g \in files /\ Name(g) # Name(f))
  BY WrittenIs
<1> QED BY <1>1 DEF NamesInv

LEMMA SavingNames ==
    ASSUME TypeInv, NumberInv, NamesInv, NEW p \in Reporters, SaveAttachedReport(p)
    PROVE  NamesInv'
<1>1. job[p] \in Job /\ files \subseteq File /\ day \in 0..MaxDay
  BY DEF TypeInv, ReportersType
<1>2. /\ \A f, g \in files : Name(f) = Name(g) => f = g
      /\ \A f \in files : f.date <= day
      /\ pc[p] \in Saving => job[p].date <= day /\ \A name \in job[p].names : name.date <= job[p].date
  BY DEF NamesInv
<1>3. CASE ListedDirectory(p)
  <2>1. SavesOn(p, "listDirectory", "visitEntry", Listing(job[p])) /\ files' = files
    BY <1>3 DEF ListedDirectory
  <2>2. /\ job'[p] = Listing(job[p]) /\ day' = day
        /\ \A q \in Reporters : q # p => pc'[q] = pc[q] /\ job'[q] = job[q]
    BY <2>1, SavesStep
  <2>3. {Name(f) : f \in files} \subseteq Names /\ \A f \in files : Name(f).date = f.date
    BY <1>1, NameIs
  <2>4. Listing(job[p]).date = day /\ Listing(job[p]).names = {Name(f) : f \in files}
    BY <1>1, <2>3, ListingIs
  <2>5. day <= day
    BY <1>1, ConstantsAre
  <2>6. job'[p].date <= day /\ \A name \in job'[p].names : name.date <= job'[p].date
    BY <1>2, <2>2, <2>3, <2>4, <2>5
  <2> QED BY <1>2, <2>1, <2>2, <2>6, NamesKept
<1>4. ASSUME NEW name \in Names, VisitedEntry(p, name) PROVE NamesInv'
  <2>1. /\ \E new \in {Without(job[p], name), Counted(job[p], name)} :
              SavesOn(p, "visitEntry", "visitEntry", new)
        /\ files' \subseteq files
    BY <1>4 DEF VisitedEntry
  <2>2. PICK new \in {Without(job[p], name), Counted(job[p], name)} :
           SavesOn(p, "visitEntry", "visitEntry", new)
    BY <2>1
  <2>3. /\ pc[p] = "visitEntry" /\ job'[p] = new /\ day' = day
        /\ \A q \in Reporters : q # p => pc'[q] = pc[q] /\ job'[q] = job[q]
    BY <2>2, SavesStep
  <2>4. new.date = job[p].date /\ new.names = job[p].names \ {name}
    BY <1>1, <2>2, CountedIs
  <2>5. job'[p].date <= day /\ \A n \in job'[p].names : n.date <= job'[p].date
    BY <1>2, <2>3, <2>4 DEF Saving
  <2> QED BY <1>2, <2>1, <2>3, <2>5, NamesKept
<1>5. CASE WroteFile(p)
  <2>1. /\ SavesOn(p, "visitEntry", "attachFile", Numbered(job[p]))
        /\ files' = Written(NewFile(job[p])) /\ job[p].names = {}
    BY <1>5 DEF WroteFile
  <2>2. /\ pc[p] = "visitEntry" /\ job'[p] = Numbered(job[p]) /\ day' = day /\ Numbered(job[p]) \in Job
        /\ \A q \in Reporters : q # p => pc'[q] = pc[q] /\ job'[q] = job[q]
    BY <2>1, SavesStep
  <2>3. job[p].date <= day
    BY <1>2, <2>2 DEF Saving
  <2>4. Numbered(job[p]).date = job[p].date /\ Numbered(job[p]).names = job[p].names
    BY <1>1 DEF Numbered, Job
  <2>5. NewFile(job[p]).date = job[p].date
    BY DEF NewFile
  <2>6. /\ \A g, h \in files' : Name(g) = Name(h) => g = h
        /\ \A g \in files' : g.date <= day
    BY <2>1, <2>3, <2>5, WrittenNames
  <2>7. job'[p].date <= day /\ \A n \in job'[p].names : n.date <= job'[p].date
    BY <2>1, <2>2, <2>3, <2>4
  <2> QED BY <2>2, <2>6, <2>7, NamesKept
<1>6. ASSUME NEW f \in File, AttachedFile(p, f) PROVE NamesInv'
  <2>1. /\ f \in files /\ SavesOn(p, "attachFile", "send", WithFile(job[p], Name(Zipped(f))))
        /\ files' = Written(Zipped(f))
    BY <1>6 DEF AttachedFile
  <2>2. /\ pc'[p] = "send" /\ day' = day
        /\ \A q \in Reporters : q # p => pc'[q] = pc[q] /\ job'[q] = job[q]
    BY <2>1, SavesStep
  <2>3. Zipped(f).date <= day
    BY <1>2, <2>1, ZippedIs
  <2>4. /\ \A g, h \in files' : Name(g) = Name(h) => g = h
        /\ \A g \in files' : g.date <= day
    BY <2>1, <2>3, WrittenNames
  <2>5. pc'[p] \notin Saving
    BY <2>2 DEF Saving
  <2> QED BY <2>2, <2>4, <2>5, NamesKept
<1>7. CASE FailedToSave(p)
  <2>1. PICK label \in {"visitEntry", "attachFile"} : SavesOn(p, label, "send", WithoutFile(job[p]))
    BY <1>7, Zenon DEF FailedToSave
  <2>2. /\ pc'[p] = "send" /\ day' = day /\ files' = files
        /\ \A q \in Reporters : q # p => pc'[q] = pc[q] /\ job'[q] = job[q]
    BY <1>7, <2>1, SavesStep DEF FailedToSave
  <2>3. pc'[p] \notin Saving
    BY <2>2 DEF Saving
  <2> QED BY <1>2, <2>2, <2>3, NamesKept
<1> QED BY <1>3, <1>4, <1>5, <1>6, <1>7, SavingIs

\* A step that neither saves nor touches the files: the reporter goes on
\* elsewhere.
Elsewhere(p) ==
    /\ pc'[p] \notin Saving \cup {"send"}
    /\ \A q \in Reporters : q # p => pc'[q] = pc[q] /\ job'[q] = job[q]
    /\ UNCHANGED <<options, day, files>>
    /\ mishaps \subseteq mishaps'

LEMMA ReadsStep ==
    ASSUME TypeInv, NEW p \in Reporters, NEW label, NEW onward, NEW j, ReadsOn(p, label, onward, j)
    PROVE  /\ pc[p] = label /\ pc'[p] = onward /\ job'[p] = j /\ j \in Job
           /\ label \in Reading /\ onward \in Reading \cup {"listDirectory"}
           /\ \A q \in Reporters : q # p => pc'[q] = pc[q] /\ job'[q] = job[q]
           /\ SameReport(j, job[p])
           /\ UNCHANGED <<options, day, urls, warnings, matches, bypasses, files, todo, sniffer, reports,
                          accepted, mailed, deleted, mishaps>>
<1>1. /\ label \in Reading /\ onward \in Reading \cup {"listDirectory"} /\ j \in Job
      /\ Read(p, label, onward, j) /\ SameReport(j, job[p])
  BY DEF ReadsOn
<1>2. /\ Step(p, label, onward, j)
      /\ UNCHANGED <<options, day, urls, warnings, matches, bypasses, files, todo, sniffer, reports,
                     accepted, mailed, deleted, mishaps>>
  BY <1>1 DEF Read, world, tables, logging, history
<1>3. onward \in Labels
  BY <1>1 DEF Labels
<1>4. /\ pc[p] = label /\ pc'[p] = onward /\ job'[p] = j
      /\ \A q \in Reporters : q # p => pc'[q] = pc[q] /\ job'[q] = job[q]
  BY <1>1, <1>2, <1>3, StepIs, ZenonT(60)
<1> QED BY <1>1, <1>2, <1>4

LEMMA ElsewhereIs ==
    ASSUME TypeInv, NEW p \in Reporters,
           Generate(p) \/ Started(p) \/ Mailed(p) \/ GaveUp(p) \/ Rotated(p)
    PROVE  Elsewhere(p)
<1>1. CASE Generate(p)
  <2>1. PICK label, onward, j : ReadsOn(p, label, onward, j)
    BY <1>1, GenerateIs
  <2>2. /\ pc'[p] = onward /\ onward \in Reading \cup {"listDirectory"}
        /\ \A q \in Reporters : q # p => pc'[q] = pc[q] /\ job'[q] = job[q]
        /\ UNCHANGED <<options, day, files, mishaps>>
    BY <2>1, ReadsStep
  <2> QED BY <2>2 DEF Elsewhere, Reading, Saving
<1>2. CASE Started(p) \/ Mailed(p) \/ GaveUp(p) \/ Rotated(p)
  <2>1. PICK label \in {"idle", "send", "rotate"}, onward \in {"getBypasses", "rotate", "idle"},
             report \in {reports + 1, None, job[p].report} : EndsOn(p, label, onward, report)
    BY <1>2, EndsStep, Zenon
  <2>2. /\ pc'[p] = onward
        /\ \A q \in Reporters : q # p => pc'[q] = pc[q] /\ job'[q] = job[q]
    BY <2>1 DEF EndsOn
  <2>3. UNCHANGED <<options, day, files>> /\ mishaps \subseteq mishaps'
    BY <1>2 DEF Started, Mailed, GaveUp, Rotated
  <2> QED BY <2>2, <2>3 DEF Elsewhere, Saving
<1> QED BY <1>1, <1>2

LEMMA NamesStep == TypeInv /\ NumberInv /\ NamesInv /\ [Next]_vars => NamesInv'
<1> SUFFICES ASSUME TypeInv, NumberInv, NamesInv, [Next]_vars PROVE NamesInv'
  OBVIOUS
<1>1. CASE UNCHANGED <<day, files, pc, job>>
  BY <1>1 DEF NamesInv, Name
<1>2. Logs => UNCHANGED <<day, files, pc, job>>
  BY DEF Logs, InsertUrl, InsertWarning, InsertMatches, LogBypass, world
<1>3. UNCHANGED vars => UNCHANGED <<day, files, pc, job>>
  BY DEF vars, world
<1>4. CASE Midnight
  <2>1. day' = day + 1 /\ UNCHANGED <<files, pc, job>>
    BY <1>4 DEF Midnight
  <2>2. day \in Nat /\ \A f \in files : f.date \in Nat
    BY ConstantsAre DEF TypeInv, File
  <2>3. \A p \in Reporters : job[p].date \in Nat
    BY ConstantsAre DEF TypeInv, ReportersType, Job
  <2>4. \A f \in files' : f.date <= day'
    BY <2>1, <2>2 DEF NamesInv
  <2>5. \A p \in Reporters : pc'[p] \in Saving =>
           job'[p].date <= day' /\ \A name \in job'[p].names : name.date <= job'[p].date
    BY <2>1, <2>2, <2>3 DEF NamesInv
  <2>6. \A f, g \in files' : Name(f)' = Name(g)' => f = g
    BY <2>1 DEF NamesInv, Name
  <2> QED BY <2>4, <2>5, <2>6 DEF NamesInv
<1>5. ASSUME NEW p \in Reporters, Elsewhere(p) PROVE NamesInv'
  <2>1. /\ pc'[p] \notin Saving /\ UNCHANGED <<day, files>>
        /\ \A q \in Reporters : q # p => pc'[q] = pc[q] /\ job'[q] = job[q]
    BY <1>5 DEF Elsewhere
  <2>2. /\ \A f, g \in files' : Name(f) = Name(g) => f = g
        /\ \A f \in files' : f.date <= day
    BY <2>1 DEF NamesInv
  <2> QED BY <2>1, <2>2, NamesKept
<1>6. ASSUME NEW p \in Reporters, StepsOf(p) PROVE NamesInv'
  BY <1>5, <1>6, ElsewhereIs, SavingNames DEF StepsOf
<1> QED BY <1>1, <1>2, <1>3, <1>4, <1>6, NextIs

-----------------------------------------------------------------------------
\* A file that waits goes on waiting while another process takes a step that
\* leaves it where it is and writes none of its name.
LEMMA WaitsOn ==
    ASSUME NEW r \in Reporters, NEW p \in Reporters, r # p, NEW name \in Names, Waits(r, name),
           \A q \in Reporters : q # p => pc'[q] = pc[q] /\ job'[q] = job[q],
           day' = day,
           name.date = day => \A f \in files : Name(f) = name => f \in files',
           \A f \in files' : Name(f) = name => f \in files,
           Apart(name, p)'
    PROVE  Waits(r, name)'
<1>1. job'[r].attachment = {name} /\ name.date <= day'
  BY DEF Waits
<1>2. \A f : Name(f)' = Name(f)
  BY DEF Name
<1>3. name.date = day' => \E f \in files' : Name(f)' = name
  BY <1>2 DEF Waits
<1>4. \A f \in files' : Name(f)' = name => f.by = job'[r].report
  BY <1>2 DEF Waits
<1>5. ASSUME NEW q \in Reporters PROVE Apart(name, q)'
  <2>1. CASE q = p
    BY <2>1
  <2>2. CASE q # p
    <3>1. Apart(name, q)
      BY DEF Waits
    <3> QED BY <2>2, <3>1 DEF Apart
  <2> QED BY <2>1, <2>2
<1> QED BY <1>1, <1>3, <1>4, <1>5 DEF Waits

\* What the files promise, when a step of one reporter keeps it for that one.
LEMMA ApartKept ==
    ASSUME FilesApart, NEW p \in Reporters,
           \A q \in Reporters : q # p => pc'[q] = pc[q] /\ job'[q] = job[q],
           day' = day,
           pc'[p] \in Saving => \A q \in Reporters \ {p} : pc[q] \notin Saving,
           files' = files \/ \A q \in Reporters \ {p} : pc[q] \notin Saving,
           SavingInv(p)',
           pc'[p] = "send" => \E name \in Names : Waits(p, name)',
           \A r \in Reporters \ {p}, name \in Names : Waits(r, name) =>
              /\ name.date = day => \A f \in files : Name(f) = name => f \in files'
              /\ \A f \in files' : Name(f) = name => f \in files
              /\ Apart(name, p)'
    PROVE  FilesApart'
<1>1. OneSaves'
  <2>1. ASSUME NEW q \in Reporters, NEW r \in Reporters, pc'[q] \in Saving, pc'[r] \in Saving, q # r
        PROVE  FALSE
    <3>1. CASE q # p /\ r # p
      <4>1. pc[q] \in Saving /\ pc[r] \in Saving
        BY <2>1, <3>1
      <4> QED BY <2>1, <4>1 DEF FilesApart, OneSaves
    <3>2. CASE q = p
      BY <2>1, <3>2
    <3>3. CASE r = p
      BY <2>1, <3>3
    <3> QED BY <3>1, <3>2, <3>3
  <2> QED BY <2>1 DEF OneSaves
<1>2. ASSUME NEW q \in Reporters PROVE SavingInv(q)'
  <2>1. CASE q = p
    BY <2>1
  <2>2. CASE q # p
    <3>1. pc'[q] = pc[q] /\ job'[q] = job[q] /\ SavingInv(q) /\ (files' = files \/ pc[q] \notin Saving)
      BY <2>2 DEF FilesApart
    <3>2. CASE files' = files
      BY <3>1, <3>2 DEF SavingInv, Name
    <3>3. CASE pc[q] \notin Saving
      BY <3>1, <3>3 DEF SavingInv, Saving
    <3> QED BY <3>1, <3>2, <3>3
  <2> QED BY <2>1, <2>2
<1>3. ASSUME NEW r \in Reporters, pc'[r] = "send" PROVE \E name \in Names : Waits(r, name)'
  <2>1. CASE r = p
    BY <1>3, <2>1
  <2>2. CASE r # p
    <3>1. pc[r] = "send"
      BY <1>3, <2>2
    <3>2. PICK name \in Names : Waits(r, name)
      BY <3>1 DEF FilesApart
    <3>3. /\ name.date = day => \A f \in files : Name(f) = name => f \in files'
          /\ \A f \in files' : Name(f) = name => f \in files
          /\ Apart(name, p)'
      BY <2>2, <3>2
    <3>4. Waits(r, name)'
      BY <2>2, <3>2, <3>3, WaitsOn
    <3> QED BY <3>4
  <2> QED BY <2>1, <2>2
<1> QED BY <1>1, <1>2, <1>3 DEF FilesApart

\* Steps elsewhere leave the files apart.
LEMMA ElsewhereApart ==
    ASSUME FilesApart, NEW p \in Reporters, Elsewhere(p)
    PROVE  FilesApart'
<1>1. /\ pc'[p] \notin Saving /\ pc'[p] # "send" /\ day' = day /\ files' = files
      /\ \A q \in Reporters : q # p => pc'[q] = pc[q] /\ job'[q] = job[q]
  BY DEF Elsewhere
<1>2. SavingInv(p)'
  BY <1>1 DEF SavingInv, Saving
<1>3. \A name : Apart(name, p)'
  BY <1>1 DEF Apart
<1> QED BY <1>1, <1>2, <1>3, ApartKept

\* Saving does, unless two reports are saved at once or one is not saved.
LEMMA SavingApart ==
    ASSUME TypeInv, NumberInv, NamesInv, FilesApart, NEW p \in Reporters, SaveAttachedReport(p),
           {"overlap", "unsaved"} \cap mishaps' = {}
    PROVE  FilesApart'
<1>1. /\ job[p] \in Job /\ files \subseteq File /\ day \in 0..MaxDay
      /\ job[p].number \in Nat /\ job[p].date \in Nat /\ job[p].names \subseteq Names
  BY ConstantsAre DEF TypeInv, ReportersType, Job
<1>2. /\ \A f, g \in files : Name(f) = Name(g) => f = g
      /\ \A f \in files : f.date <= day
      /\ pc[p] \in Saving => job[p].date <= day /\ \A name \in job[p].names : name.date <= job[p].date
  BY DEF NamesInv
<1>3. \A f \in files : f.number \in Nat /\ f.date \in Nat
  BY <1>1, ConstantsAre DEF File
<1>4. \A name \in Names : name.number \in Nat /\ name.date \in Nat
  BY ConstantsAre DEF Names
<1>5. \A f : Name(f).date = f.date /\ Name(f).number = f.number /\ Name(f)' = Name(f)
  BY DEF Name
<1>6. pc[p] \in Saving => \A q \in Reporters \ {p} : pc[q] \notin Saving
  BY DEF FilesApart, OneSaves
<1>7. SavingInv(p)
  BY DEF FilesApart
<1>8. CASE ListedDirectory(p)
  <2>1. /\ SavesOn(p, "listDirectory", "visitEntry", Listing(job[p])) /\ files' = files
        /\ \A q \in Reporters : pc[q] \notin Saving
    BY <1>8 DEF ListedDirectory
  <2>2. /\ pc'[p] = "visitEntry" /\ job'[p] = Listing(job[p]) /\ day' = day
        /\ \A q \in Reporters : q # p => pc'[q] = pc[q] /\ job'[q] = job[q]
    BY <2>1, SavesStep
  <2>3. {Name(f) : f \in files} \subseteq Names
    BY <1>1, NameIs
  <2>4. /\ Listing(job[p]).date = day /\ Listing(job[p]).number = job[p].number
        /\ \A f \in files : Name(f) \in Listing(job[p]).names
    BY <1>1, <2>3, ListingIs
  <2>5. SavingInv(p)'
    BY <1>5, <2>1, <2>2, <2>4 DEF SavingInv
  <2>6. ASSUME NEW r \in Reporters \ {p}, NEW name \in Names, Waits(r, name)
        PROVE  Apart(name, p)'
    <3>1. name.date = day => \E f \in files : Name(f) = name
      BY <2>6 DEF Waits
    <3> QED BY <2>2, <2>4, <3>1 DEF Apart
  <2>7. pc'[p] # "send"
    BY <2>2
  <2> QED BY <2>1, <2>2, <2>5, <2>6, <2>7, ApartKept
<1>9. ASSUME NEW n \in Names, VisitedEntry(p, n) PROVE FilesApart'
  <2>1. /\ n \in job[p].names
        /\ IF n.date = job[p].date
           THEN SavesOn(p, "visitEntry", "visitEntry", Counted(job[p], n)) /\ files' = files
           ELSE /\ SavesOn(p, "visitEntry", "visitEntry", Without(job[p], n))
                /\ files' = {f \in files : Name(f) # n}
    BY <1>9 DEF VisitedEntry
  <2>2. PICK new \in {Without(job[p], n), Counted(job[p], n)} :
           /\ SavesOn(p, "visitEntry", "visitEntry", new)
           /\ n.date = job[p].date => new = Counted(job[p], n)
    BY <2>1
  <2>3. /\ pc[p] = "visitEntry" /\ pc'[p] = "visitEntry" /\ job'[p] = new /\ day' = day
        /\ \A q \in Reporters : q # p => pc'[q] = pc[q] /\ job'[q] = job[q]
    BY <2>2, SavesStep
  <2>4. /\ new.date = job[p].date /\ new.names = job[p].names \ {n}
        /\ new.number \in {job[p].number, n.number} /\ job[p].number <= new.number
        /\ n.date = job[p].date => n.number <= new.number
    <3>1. job[p].number <= job[p].number
      BY <1>1
    <3> QED BY <1>1, <2>2, <3>1, CountedIs
  <2>5. new.number \in Nat
    BY <1>1, <1>4, <2>4
  <2>6. /\ files' \subseteq files
        /\ n.date = job[p].date => files' = files
        /\ \A f \in files : Name(f) # n => f \in files'
    BY <2>1
  <2>7. SavingInv(p)'
    <3>1. ASSUME NEW f \in files', f.date = new.date PROVE Name(f) \in new.names \/ f.number <= new.number
      <4>1. f \in files /\ (Name(f) \in job[p].names \/ f.number <= job[p].number)
        BY <1>7, <2>3, <2>4, <2>6, <3>1 DEF SavingInv
      <4>2. CASE f.number <= job[p].number
        BY <1>1, <1>3, <2>4, <2>5, <4>1, <4>2
      <4>3. CASE Name(f) \in job[p].names /\ Name(f) # n
        BY <2>4, <4>3
      <4>4. CASE Name(f) = n
        BY <1>5, <2>4, <3>1, <4>4
      <4> QED BY <4>1, <4>2, <4>3, <4>4
    <3> QED BY <1>5, <2>3, <3>1 DEF SavingInv
  <2>8. ASSUME NEW r \in Reporters \ {p}, NEW name \in Names, Waits(r, name)
        PROVE  /\ name.date = day => \A f \in files : Name(f) = name => f \in files'
               /\ \A f \in files' : Name(f) = name => f \in files
               /\ Apart(name, p)'
    <3>1. Apart(name, p)
      BY <2>8 DEF Waits
    <3>2. name.date = job[p].date => name \in job[p].names \/ name.number <= job[p].number
      BY <2>3, <3>1 DEF Apart, Saving
    <3>3. ASSUME name.date = job[p].date PROVE name \in new.names \/ name.number <= new.number
      <4>1. CASE name = n
        BY <2>4, <3>3, <4>1
      <4>2. CASE name # n /\ name \in job[p].names
        BY <2>4, <4>2
      <4>3. CASE name.number <= job[p].number
        BY <1>1, <1>4, <2>4, <2>5, <4>3
      <4> QED BY <3>2, <3>3, <4>1, <4>2, <4>3
    <3>4. Apart(name, p)'
      BY <2>3, <2>4, <3>3 DEF Apart
    <3>5. ASSUME name.date = day, NEW f \in files, Name(f) = name PROVE f \in files'
      <4>1. CASE n.date = job[p].date
        BY <2>6, <4>1
      <4>2. CASE n.date # job[p].date
        <5>1. job[p].date <= day /\ n.date <= job[p].date
          BY <1>2, <2>1, <2>3 DEF Saving
        <5>2. day \in Nat
          BY <1>1, ConstantsAre
        <5>3. n.date # name.date
          BY <1>1, <1>4, <3>5, <4>2, <5>1, <5>2
        <5> QED BY <2>6, <3>5, <5>3
      <4> QED BY <4>1, <4>2
    <3>6. \A f \in files' : Name(f) = name => f \in files
      BY <2>6
    <3> QED BY <3>4, <3>5, <3>6
  <2>9. pc'[p] # "send" /\ pc[p] \in Saving
    BY <2>3 DEF Saving
  <2> QED BY <1>6, <2>3, <2>7, <2>8, <2>9, ApartKept
<1>10. CASE WroteFile(p)
  <2> DEFINE new == NewFile(job[p])
  <2>1. /\ SavesOn(p, "visitEntry", "attachFile", Numbered(job[p]))
        /\ files' = Written(new) /\ job[p].names = {}
    BY <1>10 DEF WroteFile
  <2>2. /\ pc[p] = "visitEntry" /\ pc'[p] = "attachFile" /\ job'[p] = Numbered(job[p])
        /\ Numbered(job[p]) \in Job /\ day' = day /\ SameOwner(Numbered(job[p]), job[p])
        /\ \A q \in Reporters : q # p => pc'[q] = pc[q] /\ job'[q] = job[q]
    BY <2>1, SavesStep
  <2>3. /\ Numbered(job[p]).number = job[p].number + 1 /\ Numbered(job[p]).date = job[p].date
        /\ Numbered(job[p]).report = job[p].report
    BY <1>1, <2>2 DEF Numbered, Job, SameOwner
  <2>4. new.number = job[p].number + 1 /\ new.date = job[p].date /\ new.by = job[p].report
    BY DEF NewFile
  <2>5. /\ \A g \in files' : g = new \/ (g \in files /\ Name(g) # Name(new))
        /\ \A g \in files : Name(g) # Name(new) => g \in files'
    BY <2>1, WrittenIs
  <2> HIDE DEF new
  <2>6. \A g \in files : g.date = job[p].date => g.number <= job[p].number
    BY <1>7, <2>1, <2>2 DEF SavingInv
  <2>7. SavingInv(p)'
    <3>1. ASSUME NEW f \in files', f.date = job'[p].date
          PROVE  f.number <= job'[p].number /\ (f.number = job'[p].number => f.by = job'[p].report)
      <4>1. CASE f = new
        BY <1>1, <2>2, <2>3, <2>4, <4>1
      <4>2. CASE f # new
        <5>1. f \in files /\ f.date = job[p].date
          BY <2>2, <2>3, <2>5, <3>1, <4>2
        <5>2. f.number <= job[p].number /\ f.number \in Nat
          BY <1>3, <2>6, <5>1
        <5> QED BY <1>1, <2>2, <2>3, <5>2
      <4> QED BY <4>1, <4>2
    <3>2. pc'[p] # "visitEntry"
      BY <2>2
    <3> QED BY <3>1, <3>2 DEF SavingInv
  <2>8. ASSUME NEW r \in Reporters \ {p}, NEW name \in Names, Waits(r, name)
        PROVE  /\ name.date = day => \A f \in files : Name(f) = name => f \in files'
               /\ \A f \in files' : Name(f) = name => f \in files
               /\ Apart(name, p)'
    <3>1. Apart(name, p)
      BY <2>8 DEF Waits
    <3>2. name.date = job[p].date => name.number <= job[p].number
      BY <2>1, <2>2, <3>1 DEF Apart, Saving
    <3>3. Apart(name, p)'
      <4>1. name.date = job'[p].date => name.number < job'[p].number
        BY <1>1, <1>4, <2>2, <2>3, <3>2
      <4> QED BY <2>2, <4>1 DEF Apart
    <3>4. Name(new) # name
      BY <1>1, <1>4, <1>5, <2>4, <3>2
    <3> QED BY <2>5, <3>3, <3>4
  <2>9. pc'[p] # "send" /\ pc[p] \in Saving
    BY <2>2 DEF Saving
  <2> QED BY <1>6, <2>2, <2>7, <2>8, <2>9, ApartKept
<1>11. ASSUME NEW f \in File, AttachedFile(p, f) PROVE FilesApart'
  <2>0. PICK new \in File, own \in Names : new = Zipped(f) /\ own = Name(new)
    <3>1. Zipped(f) \in File
      BY ZippedIs
    <3> QED BY <3>1, NameIs
  <2>1. /\ f \in files /\ SavesOn(p, "attachFile", "send", WithFile(job[p], own))
        /\ f.date = job[p].date /\ f.number = job[p].number
        /\ files' = Written(new)
    BY <1>11, <2>0 DEF AttachedFile
  <2>2. /\ pc[p] = "attachFile" /\ pc'[p] = "send" /\ job'[p] = WithFile(job[p], own) /\ day' = day
        /\ SameOwner(WithFile(job[p], own), job[p])
        /\ \A q \in Reporters : q # p => pc'[q] = pc[q] /\ job'[q] = job[q]
    BY <2>1, SavesStep
  <2>3. new.date = f.date /\ new.number = f.number /\ new.by = f.by
    BY <2>0, ZippedIs
  <2>4. own.date = f.date /\ own.number = f.number
    BY <2>0, <2>3, NameIs
  <2>5. WithFile(job[p], own).attachment = {own}
    BY <1>1, <2>4, WithFileIs
  <2>6. /\ \A g \in files' : g = new \/ (g \in files /\ Name(g) # own)
        /\ new \in files'
        /\ \A g \in files : Name(g) # own => g \in files'
    BY <2>0, <2>1, WrittenIs
  <2>7. Name(new) = own
    BY <2>0
  <2>8. pc[p] \in Saving /\ pc'[p] \notin Saving
    BY <2>2 DEF Saving
  <2>9. f.by = job[p].report
    BY <1>7, <2>1, <2>2 DEF SavingInv
  <2>10. own.date <= day
    BY <1>2, <2>1, <2>4
  <2>11. Waits(p, own)'
    <3>1. job'[p].attachment = {own} /\ job'[p].report = job[p].report
      BY <2>2, <2>5 DEF SameOwner
    <3>2. \A g \in files' : Name(g) = own => g.by = job[p].report
      BY <2>3, <2>6, <2>9
    <3>3. \A q \in Reporters : pc'[q] \notin Saving
      BY <1>6, <2>2, <2>8
    <3>4. \A q \in Reporters : Apart(own, q)'
      BY <3>3 DEF Apart
    <3>5. own.date = day' => \E g \in files' : Name(g)' = own
      BY <1>5, <2>6, <2>7
    <3>6. \A g \in files' : Name(g)' = own => g.by = job'[p].report
      BY <1>5, <3>1, <3>2
    <3>7. own.date <= day'
      BY <2>2, <2>10
    <3> QED BY <3>1, <3>4, <3>5, <3>6, <3>7 DEF Waits
  <2>12. SavingInv(p)'
    BY <2>8 DEF SavingInv, Saving
  <2>13. ASSUME NEW r \in Reporters \ {p}, NEW name \in Names, Waits(r, name)
         PROVE  /\ name.date = day => \A g \in files : Name(g) = name => g \in files'
                /\ \A g \in files' : Name(g) = name => g \in files
                /\ Apart(name, p)'
    <3>1. Apart(name, p)
      BY <2>13 DEF Waits
    <3>2. name.date = job[p].date => name.number < job[p].number
      BY <2>2, <3>1 DEF Apart, Saving
    <3>3. own # name
      BY <1>1, <1>4, <2>1, <2>4, <3>2
    <3>4. Apart(name, p)'
      BY <2>8 DEF Apart
    <3> QED BY <2>6, <2>7, <3>3, <3>4
  <2>14. \E name \in Names : Waits(p, name)'
    BY <2>4, <2>11, Zenon
  <2>15. \A q \in Reporters \ {p} : pc[q] \notin Saving
    BY <1>6, <2>8
  <2> QED BY <2>2, <2>8, <2>12, <2>13, <2>14, <2>15, ApartKept
<1>12. CASE FailedToSave(p)
  BY <1>12 DEF FailedToSave
<1> QED BY <1>8, <1>9, <1>10, <1>11, <1>12, SavingIs

\* The mail of a report whose file waits carries that file and no other.
LEMMA EnclosedIsOwn ==
    ASSUME TypeInv, NamesInv, FilesApart, NEW p \in Reporters, Mailed(p)
    PROVE  Mail(p).enclosed = {Mail(p).report}
<1>1. pc[p] = "send" /\ Cardinality(Enclosed(p)) = Cardinality(job[p].attachment)
  BY DEF Mailed, Step
<1>2. PICK name \in Names : Waits(p, name)
  BY <1>1 DEF FilesApart
<1>3. /\ job[p].attachment = {name}
      /\ \A f \in files : Name(f) = name => f.by = job[p].report
  BY <1>2 DEF Waits
<1>4. Cardinality(Enclosed(p)) = 1
  BY <1>1, <1>3, FS_Singleton
<1>5. Enclosed(p) # {}
  BY <1>4, FS_EmptySet
<1>6. \A f \in Enclosed(p) : f.by = job[p].report
  BY <1>3 DEF Enclosed
<1>7. {f.by : f \in Enclosed(p)} = {job[p].report}
  BY <1>5, <1>6
<1> QED BY <1>7 DEF Mail

\* Midnight leaves the files apart: those that wait are of a day gone by.
LEMMA MidnightApart ==
    ASSUME TypeInv, FilesApart, Midnight
    PROVE  FilesApart'
<1>1. day' = day + 1 /\ UNCHANGED <<files, pc, job>>
  BY DEF Midnight
<1>2. day \in Nat /\ \A name \in Names : name.date \in Nat
  BY ConstantsAre DEF TypeInv, Names
<1>3. \A f : Name(f)' = Name(f)
  BY DEF Name
<1>4. OneSaves'
  BY <1>1 DEF FilesApart, OneSaves
<1>5. ASSUME NEW p \in Reporters PROVE SavingInv(p)'
  <2>1. SavingInv(p)
    BY DEF FilesApart
  <2> QED BY <1>1, <2>1 DEF SavingInv, Name
<1>6. ASSUME NEW p \in Reporters, pc'[p] = "send" PROVE \E name \in Names : Waits(p, name)'
  <2>1. PICK name \in Names : Waits(p, name)
    BY <1>1, <1>6 DEF FilesApart
  <2>2. /\ job'[p].attachment = {name} /\ name.date <= day
        /\ \A f \in files' : Name(f)' = name => f.by = job'[p].report
    BY <1>1, <1>3, <2>1 DEF Waits
  <2>3. name.date <= day' /\ name.date # day'
    BY <1>1, <1>2, <2>2
  <2>4. ASSUME NEW q \in Reporters PROVE Apart(name, q)'
    <3>1. Apart(name, q)
      BY <2>1 DEF Waits
    <3> QED BY <1>1, <3>1 DEF Apart
  <2>5. Waits(p, name)'
    BY <2>2, <2>3, <2>4 DEF Waits
  <2> QED BY <2>5
<1> QED BY <1>4, <1>5, <1>6 DEF FilesApart

LEMMA MailStep == TypeInv /\ NumberInv /\ NamesInv /\ MailInv /\ [Next]_vars => MailInv'
<1> SUFFICES ASSUME TypeInv, NumberInv, NamesInv, MailInv, [Next]_vars,
                    {"overlap", "unsaved"} \cap mishaps' = {}
             PROVE  FilesApart' /\ \A mail \in accepted' : mail.enclosed = {mail.report}
  BY DEF MailInv
<1>1. CASE Logs \/ Midnight \/ UNCHANGED vars
  <2>1. UNCHANGED <<accepted, mishaps>>
    BY <1>1 DEF Logs, InsertUrl, InsertWarning, InsertMatches, LogBypass, Midnight, vars, history
  <2>2. FilesApart /\ \A mail \in accepted : mail.enclosed = {mail.report}
    BY <2>1 DEF MailInv
  <2>3. CASE UNCHANGED <<day, files, pc, job>>
    <3>1. \A p \in Reporters : SavingInv(p) <=> SavingInv(p)'
      BY <2>3 DEF SavingInv, Name
    <3>2. \A p \in Reporters, name \in Names : Waits(p, name) => Waits(p, name)'
      <4>1. \A name, q : Apart(name, q) <=> Apart(name, q)'
        BY <2>3 DEF Apart
      <4> QED BY <2>3, <4>1 DEF Waits, Name
    <3>3. OneSaves'
      BY <2>2, <2>3 DEF FilesApart, OneSaves
    <3>4. FilesApart'
      BY <2>2, <2>3, <3>1, <3>2, <3>3 DEF FilesApart
    <3> QED BY <2>1, <2>2, <3>4
  <2>4. CASE Midnight
    BY <2>1, <2>2, <2>4, MidnightApart
  <2>5. Logs \/ UNCHANGED vars => UNCHANGED <<day, files, pc, job>>
    BY DEF Logs, InsertUrl, InsertWarning, InsertMatches, LogBypass, vars, world
  <2> QED BY <1>1, <2>3, <2>4, <2>5
<1>2. ASSUME NEW p \in Reporters, StepsOf(p)
      PROVE  FilesApart' /\ \A mail \in accepted' : mail.enclosed = {mail.report}
  <2>1. SaveAttachedReport(p) => mishaps \subseteq mishaps' /\ accepted' = accepted
    <3>1. ASSUME SaveAttachedReport(p) PROVE mishaps \subseteq mishaps' /\ accepted' = accepted
      <4>1. PICK label, onward, j : SavesOn(p, label, onward, j)
        BY <3>1, SavingFiles, Zenon
      <4> QED BY <4>1, SavesStep
    <3> QED BY <3>1
  <2>2. Generate(p) => accepted' = accepted
    <3>1. ASSUME Generate(p) PROVE accepted' = accepted
      <4>1. PICK label, onward, j : ReadsOn(p, label, onward, j)
        BY <3>1, GenerateIs
      <4> QED BY <4>1, ReadsStep
    <3> QED BY <3>1
  <2>3. Elsewhere(p) \/ SaveAttachedReport(p)
    BY <1>2, ElsewhereIs DEF StepsOf
  <2>4. mishaps \subseteq mishaps'
    BY <2>1, <2>3 DEF Elsewhere
  <2>5. FilesApart /\ \A mail \in accepted : mail.enclosed = {mail.report}
    BY <2>4 DEF MailInv
  <2>6. FilesApart'
    BY <2>3, <2>5, ElsewhereApart, SavingApart
  <2>7. CASE Mailed(p)
    <3>1. accepted' = accepted \cup {Mail(p)}
      BY <2>7 DEF Mailed
    <3>2. Mail(p).enclosed = {Mail(p).report}
      BY <2>5, <2>7, EnclosedIsOwn
    <3> QED BY <2>5, <2>6, <3>1, <3>2
  <2>8. CASE Generate(p) \/ SaveAttachedReport(p) \/ Started(p) \/ GaveUp(p) \/ Rotated(p)
    <3>1. accepted' = accepted
      BY <2>1, <2>2, <2>8 DEF Started, GaveUp, Rotated
    <3> QED BY <2>5, <2>6, <3>1
  <2> QED BY <1>2, <2>7, <2>8 DEF StepsOf
<1> QED BY <1>1, <1>2, NextIs

\* A mail carries the file of its own report and no other, with any number of
\* processes that save, mail and give up reports over any number of days in one
\* REPORT_DIR, where each removes the files of the days before: as long as no two
\* look for a name at the same time.
THEOREM FilesInMails == Spec => []MailIsOwn
<1>1. Init => NamesInv /\ MailInv
  <2>1. Init => \A p \in Reporters : pc[p] = "idle"
    BY DEF Init
  <2>2. Init => NamesInv
    BY <2>1 DEF Init, NamesInv, Saving
  <2>3. Init => FilesApart
    BY <2>1 DEF Init, FilesApart, OneSaves, SavingInv, Saving
  <2>4. Init => accepted = {}
    BY DEF Init
  <2> QED BY <2>2, <2>3, <2>4 DEF MailInv
<1>2. TypeInv /\ NumberInv /\ NamesInv /\ MailInv /\ [Next]_vars => (NamesInv /\ MailInv)'
  BY NamesStep, MailStep
<1>3. MailInv => MailIsOwn
  BY DEF MailInv, MailIsOwn
<1> QED BY <1>1, <1>2, <1>3, TypeAlways, PTL DEF Spec

-----------------------------------------------------------------------------
\* What logging does to the tables.
LoggedUrl(r) ==
    /\ r \in todo /\ todo' = todo \ {r}
    /\ urls' = urls \cup {[rowid |-> NextRowId, request |-> r]}
    /\ sniffer' = [pc |-> IF Keywords[r] # {} THEN "insertWarning" ELSE "idle",
                   request |-> r, lastRowId |-> NextRowId]
    /\ sniffer.pc = "idle"
    /\ UNCHANGED <<warnings, matches, bypasses>>

LoggedWarning ==
    /\ sniffer.pc = "insertWarning"
    /\ warnings' = warnings \cup {[urlId |-> sniffer.lastRowId, match |-> sniffer.request]}
    /\ sniffer' = [sniffer EXCEPT !.pc = "insertMatches"]
    /\ UNCHANGED <<urls, matches, bypasses, todo>>

LoggedMatches ==
    /\ sniffer.pc = "insertMatches"
    /\ matches' = matches \cup {[urlId |-> sniffer.lastRowId, keyword |-> k] :
                                k \in Keywords[sniffer.request]}
    /\ sniffer' = [sniffer EXCEPT !.pc = "idle"]
    /\ UNCHANGED <<urls, warnings, bypasses, todo>>

LoggedBypass(b) ==
    /\ b \in todo /\ todo' = todo \ {b}
    /\ bypasses' = bypasses \cup {b}
    /\ UNCHANGED <<urls, warnings, matches, sniffer>>

LEMMA LogsAre ==
    ASSUME Logs
    PROVE  /\ \/ \E r \in Requests : LoggedUrl(r)
              \/ LoggedWarning \/ LoggedMatches
              \/ \E b \in Incidents : LoggedBypass(b)
           /\ UNCHANGED <<options, day, files, pc, job, reports, accepted, mailed, deleted, mishaps>>
<1>1. UNCHANGED <<options, day, files, pc, job, reports, accepted, mailed, deleted, mishaps>>
  BY DEF Logs, InsertUrl, InsertWarning, InsertMatches, LogBypass, world, history
<1>2. (\E r \in Requests : InsertUrl(r)) => \E r \in Requests : LoggedUrl(r)
  BY DEF InsertUrl, LoggedUrl
<1>3. InsertWarning => LoggedWarning
  BY DEF InsertWarning, LoggedWarning
<1>4. InsertMatches => LoggedMatches
  BY DEF InsertMatches, LoggedMatches
<1>5. (\E b \in Incidents : LogBypass(b)) => \E b \in Incidents : LoggedBypass(b)
  BY DEF LogBypass, LoggedBypass
<1> QED BY <1>1, <1>2, <1>3, <1>4, <1>5 DEF Logs

\* A row of urls leads to one request, and the other way round.
LEMMA KeysStep == TypeInv /\ NumberInv /\ KeysInv /\ [Next]_vars => KeysInv'
<1> SUFFICES ASSUME TypeInv, NumberInv, KeysInv, [Next]_vars PROVE KeysInv'
  OBVIOUS
<1>1. ASSUME urls' \subseteq urls, todo' \subseteq todo PROVE KeysInv'
  BY <1>1 DEF KeysInv
<1>2. ASSUME NEW r \in Requests, LoggedUrl(r) PROVE KeysInv'
  <2> DEFINE new == [rowid |-> NextRowId, request |-> r]
  <2>1. r \in todo /\ todo' = todo \ {r} /\ urls' = urls \cup {new}
    BY <1>2 DEF LoggedUrl
  <2>2. NextRowId \in Rowids /\ \A u \in urls : u.rowid < NextRowId
    BY <2>1, NextRowIdIs
  <2>3. \A u \in urls : u.rowid \in Nat /\ NextRowId \in Nat
    BY <2>2 DEF TypeInv, TablesType, UrlRow, Rowids
  <2>4. \A u \in urls : u.rowid # new.rowid /\ u.request # r
    BY <2>1, <2>2, <2>3 DEF KeysInv
  <2>5. new.request = r
    OBVIOUS
  <2> HIDE DEF new
  <2> QED BY <2>1, <2>4, <2>5 DEF KeysInv
<1>3. CASE Logs
  <2>1. LoggedWarning \/ LoggedMatches \/ (\E b \in Incidents : LoggedBypass(b)) =>
        urls' \subseteq urls /\ todo' \subseteq todo
    BY DEF LoggedWarning, LoggedMatches, LoggedBypass
  <2> QED BY <1>1, <1>2, <1>3, <2>1, LogsAre
<1>4. CASE Midnight \/ UNCHANGED vars
  <2>1. UNCHANGED <<urls, todo>>
    BY <1>4 DEF Midnight, vars, tables, logging
  <2> QED BY <1>1, <2>1
<1>5. ASSUME NEW p \in Reporters, StepsOf(p) PROVE KeysInv'
  <2>1. CASE Generate(p)
    <3>1. PICK label, onward, j : ReadsOn(p, label, onward, j)
      BY <2>1, GenerateIs
    <3> QED BY <1>1, <3>1, ReadsStep
  <2>2. CASE SaveAttachedReport(p)
    <3>1. PICK label, onward, j : SavesOn(p, label, onward, j)
      BY <2>2, SavingFiles, Zenon
    <3> QED BY <1>1, <3>1, SavesStep
  <2>3. CASE Started(p) \/ Mailed(p) \/ GaveUp(p) \/ Rotated(p)
    <3>1. urls' \subseteq urls /\ todo' = todo
      BY <2>3 DEF Started, Mailed, GaveUp, Rotated
    <3> QED BY <1>1, <3>1
  <2> QED BY <1>5, <2>1, <2>2, <2>3 DEF StepsOf
<1> QED BY <1>3, <1>4, <1>5, NextIs

\* The row of a URL that a table refers to is the one it was logged for.
LEMMA TablesLogged ==
    ASSUME TypeInv, TablesInv, Logs
    PROVE  TablesInv' /\ urls \subseteq urls'
<1>1. ASSUME NEW r \in Requests, LoggedUrl(r) PROVE TablesInv' /\ urls \subseteq urls'
  <2> DEFINE new == [rowid |-> NextRowId, request |-> r]
  <2>1. /\ urls' = urls \cup {new} /\ UNCHANGED <<warnings, matches>>
        /\ sniffer'.request = r /\ sniffer'.lastRowId = NextRowId
    BY <1>1 DEF LoggedUrl
  <2>2. new.rowid = NextRowId /\ new.request = r
    OBVIOUS
  <2> HIDE DEF new
  <2>3. new \in urls' /\ new.rowid = sniffer'.lastRowId /\ new.request = sniffer'.request
    BY <2>1, <2>2
  <2>4. \A w \in warnings' : \E u \in urls' : u.rowid = w.urlId /\ u.request = w.match
    BY <2>1 DEF TablesInv
  <2>5. \A m \in matches' : \E u \in urls' : u.rowid = m.urlId /\ m.keyword \in Keywords[u.request]
    BY <2>1 DEF TablesInv
  <2>6. TablesInv'
    BY <2>3, <2>4, <2>5 DEF TablesInv
  <2> QED BY <2>1, <2>6
<1>2. CASE LoggedWarning
  <2>1. PICK u \in urls : u.rowid = sniffer.lastRowId /\ u.request = sniffer.request
    BY <1>2 DEF LoggedWarning, TablesInv
  <2>2. /\ warnings' = warnings \cup {[urlId |-> sniffer.lastRowId, match |-> sniffer.request]}
        /\ sniffer'.request = sniffer.request /\ sniffer'.lastRowId = sniffer.lastRowId
        /\ UNCHANGED <<urls, matches>>
    BY <1>2 DEF LoggedWarning, TypeInv, TablesType
  <2>3. \A w \in warnings' : \E v \in urls' : v.rowid = w.urlId /\ v.request = w.match
    BY <2>1, <2>2 DEF TablesInv
  <2>4. \A m \in matches' : \E v \in urls' : v.rowid = m.urlId /\ m.keyword \in Keywords[v.request]
    BY <2>2 DEF TablesInv
  <2>5. \E v \in urls' : v.rowid = sniffer'.lastRowId /\ v.request = sniffer'.request
    BY <2>1, <2>2
  <2> QED BY <2>2, <2>3, <2>4, <2>5 DEF TablesInv
<1>3. CASE LoggedMatches
  <2>1. PICK u \in urls : u.rowid = sniffer.lastRowId /\ u.request = sniffer.request
    BY <1>3 DEF LoggedMatches, TablesInv
  <2>2. /\ matches' = matches \cup {[urlId |-> sniffer.lastRowId, keyword |-> k] :
                                    k \in Keywords[sniffer.request]}
        /\ UNCHANGED <<urls, warnings>>
    BY <1>3 DEF LoggedMatches
  <2>3. sniffer'.pc = "idle"
    BY <1>3 DEF LoggedMatches, TypeInv, TablesType
  <2>4. \A w \in warnings' : \E v \in urls' : v.rowid = w.urlId /\ v.request = w.match
    BY <2>2 DEF TablesInv
  <2>5. \A m \in matches' : \E v \in urls' : v.rowid = m.urlId /\ m.keyword \in Keywords[v.request]
    <3> SUFFICES ASSUME NEW m \in matches' 
                 PROVE  \E v \in urls' : v.rowid = m.urlId /\ m.keyword \in Keywords[v.request]
      OBVIOUS
    <3>1. CASE m \in matches
      BY <2>2, <3>1 DEF TablesInv
    <3>2. CASE m \notin matches
      <4>1. PICK k \in Keywords[sniffer.request] : m = [urlId |-> sniffer.lastRowId, keyword |-> k]
        BY <2>2, <3>2
      <4> QED BY <2>1, <2>2, <4>1
    <3> QED BY <3>1, <3>2
  <2> QED BY <2>2, <2>3, <2>4, <2>5 DEF TablesInv
<1>4. ASSUME NEW b \in Incidents, LoggedBypass(b) PROVE TablesInv' /\ urls \subseteq urls'
  BY <1>4 DEF LoggedBypass, TablesInv
<1> QED BY <1>1, <1>2, <1>3, <1>4, LogsAre

\* Rotating deletes what refers to a row with it, and leaves no row that the
\* sniffer is about to refer to without its request.
LEMMA TablesRotated ==
    ASSUME TypeInv, TablesInv, NEW p \in Reporters, Rotated(p), "orphaned" \notin mishaps'
    PROVE  TablesInv'
<1>1. /\ matches' = {m \in matches : \A u \in OldUrls(p) : m.urlId # u.rowid}
      /\ warnings' = {w \in warnings : \A u \in OldUrls(p) : w.urlId # u.rowid}
      /\ urls' = urls \ OldUrls(p)
      /\ sniffer.pc = "idle" \/ sniffer.request \notin job[p].old
      /\ sniffer' = sniffer
  BY DEF Rotated
<1>2. \A w \in warnings' : \E u \in urls' : u.rowid = w.urlId /\ u.request = w.match
  BY <1>1 DEF TablesInv
<1>3. \A m \in matches' : \E u \in urls' : u.rowid = m.urlId /\ m.keyword \in Keywords[u.request]
  BY <1>1 DEF TablesInv
<1>4. sniffer'.pc # "idle" => \E u \in urls' : u.rowid = sniffer'.lastRowId /\ u.request = sniffer'.request
  BY <1>1 DEF TablesInv, OldUrls
<1> QED BY <1>2, <1>3, <1>4 DEF TablesInv

-----------------------------------------------------------------------------
\* What is said justly stays so, while the options do.
LEMMA JustSame ==
    ASSUME options' = options
    PROVE  \A item : Just(item)' <=> Just(item)
BY DEF Just

\* A report says nothing but what is just, after a step that leaves j of it.
LEMMA JustJobIs ==
    ASSUME NEW p \in Reporters, options' = options, urls' = urls, NEW j, job'[p] = j,
           \A item \in j.body \cup j.attached \cup j.listed : Just(item),
           pc'[p] = "getMatches" => \A n \in 1..Len(j.rows) : JustRow(j.rows[n]),
           pc'[p] = "getHistory" => \A h \in j.hosts : <<h, j.domain>> \in EndsIn
    PROVE  JustJob(p)'
<1>1. \A item \in job'[p].body \cup job'[p].attached \cup job'[p].listed : Just(item)'
  BY JustSame
<1>2. \A row : JustRow(row) => JustRow(row)'
  BY DEF JustRow
<1>3. pc'[p] = "getMatches" => \A n \in 1..Len(job'[p].rows) : JustRow(job[p].rows[n])'
  BY <1>2 DEF JustRow
<1>4. pc'[p] = "getHistory" => \A h \in job'[p].hosts : <<h, job'[p].domain>> \in EndsIn
  OBVIOUS
<1> QED BY <1>1, <1>3, <1>4 DEF JustJob

\* All that is said stays just, when that of one reporter does.
LEMMA JustKept ==
    ASSUME JustParts, TablesInv', NEW p \in Reporters, options' = options,
           \A q \in Reporters : q # p => pc'[q] = pc[q] /\ job'[q] = job[q],
           urls \subseteq urls' \/ \A q \in Reporters : pc[q] \notin Reading,
           \A item \in mailed' : Just(item),
           \A f \in files' : \A item \in f.content : Just(item),
           JustJob(p)'
    PROVE  JustParts'
<1>1. /\ \A item \in mailed' : Just(item)'
      /\ \A f \in files' : \A item \in f.content : Just(item)'
  BY JustSame
<1>2. ASSUME NEW q \in Reporters PROVE JustJob(q)'
  <2>1. CASE q = p
    BY <2>1
  <2>2. CASE q # p
    <3>1. JustJob(q) /\ pc'[q] = pc[q] /\ job'[q] = job[q]
      BY <2>2 DEF JustParts
    <3>2. \A item \in job'[q].body \cup job'[q].attached \cup job'[q].listed : Just(item)'
      BY <3>1, JustSame DEF JustJob
    <3>3. pc'[q] = "getMatches" => \A n \in 1..Len(job'[q].rows) : JustRow(job[q].rows[n])'
      <4>1. CASE urls \subseteq urls'
        <5>1. \A row : JustRow(row) => JustRow(row)'
          BY <4>1 DEF JustRow
        <5> QED BY <3>1, <5>1 DEF JustJob, JustRow
      <4>2. CASE \A r \in Reporters : pc[r] \notin Reading
        BY <3>1, <4>2 DEF Reading
      <4> QED BY <4>1, <4>2
    <3>4. pc'[q] = "getHistory" => \A h \in job'[q].hosts : <<h, job'[q].domain>> \in EndsIn
      BY <3>1 DEF JustJob
    <3> QED BY <3>2, <3>3, <3>4 DEF JustJob
  <2> QED BY <2>1, <2>2
<1> QED BY <1>1, <1>2 DEF JustParts

\* The rows of a join pair a URL with the warning about it.
LEMMA JoinedJust ==
    ASSUME TypeInv, KeysInv, TablesInv, NEW whitelist \in BOOLEAN, NEW row \in Joined(whitelist)
    PROVE  /\ row.url = row.match /\ row.keywords = {}
           /\ (row.match \in Whitelisted) = whitelist
           /\ \E u \in urls : u.rowid = row.urlId /\ u.request = row.url
<1>1. PICK w \in warnings, u \in urls :
         /\ w.urlId = u.rowid /\ (w.match \in Whitelisted) = whitelist
         /\ row = [urlId |-> u.rowid, url |-> u.request, match |-> w.match, keywords |-> {}]
  BY JoinedIs
<1>2. PICK v \in urls : v.rowid = w.urlId /\ v.request = w.match
  BY DEF TablesInv
<1>3. v = u
  BY <1>1, <1>2 DEF KeysInv
<1> QED BY <1>1, <1>2, <1>3

\* Keywords that are found for a row are those of its URL.
LEMMA FoundJust ==
    ASSUME TypeInv, KeysInv, TablesInv, NEW p \in Reporters, pc[p] = "getMatches", JustJob(p)
    PROVE  \A n \in 1..Len(RowsWith(p)) : JustRow(RowsWith(p)[n])
<1>1. /\ Len(RowsWith(p)) = Len(job[p].rows) /\ job[p].rows \in Seq(SectionRow)
      /\ job[p].index \in 1..Len(job[p].rows)
      /\ \A n \in 1..Len(job[p].rows) : RowsWith(p)[n] =
            IF n = job[p].index THEN [job[p].rows[n] EXCEPT !.keywords = Found(p)] ELSE job[p].rows[n]
  BY RowsWithAre
<1>2. \A n \in 1..Len(job[p].rows) : JustRow(job[p].rows[n])
  BY DEF JustJob
<1> DEFINE row == job[p].rows[job[p].index]
<1>3. JustRow(row) /\ row \in SectionRow
  BY <1>1, <1>2
<1>4. PICK u \in urls : u.rowid = row.urlId /\ u.request = row.url
  BY <1>3 DEF JustRow
<1>5. Found(p) \subseteq Keywords[row.url]
  <2> SUFFICES ASSUME NEW k \in Found(p) PROVE k \in Keywords[row.url]
    OBVIOUS
  <2>1. PICK m \in matches : m.urlId = row.urlId /\ m.keyword = k
    BY DEF Found
  <2>2. PICK v \in urls : v.rowid = m.urlId /\ m.keyword \in Keywords[v.request]
    BY DEF TablesInv
  <2>3. v = u
    BY <1>4, <2>1, <2>2 DEF KeysInv
  <2> QED BY <1>4, <2>1, <2>2, <2>3
<1>6. JustRow([row EXCEPT !.keywords = Found(p)])
  <2> DEFINE new == [row EXCEPT !.keywords = Found(p)]
  <2>1. /\ new.urlId = row.urlId /\ new.url = row.url /\ new.match = row.match
        /\ new.keywords = Found(p)
    BY <1>3 DEF SectionRow
  <2> HIDE DEF new, row
  <2> QED BY <1>3, <1>4, <1>5, <2>1 DEF JustRow
<1> QED BY <1>1, <1>2, <1>6

\* A section adds its items and no others.
LEMMA SectionSays ==
    ASSUME NEW j \in Job, NEW part, NEW items \in SUBSET Items, NEW new, new = WithSection(j, part, items)
    PROVE  \A item \in new.body \cup new.attached \cup new.listed :
              item \in j.body \cup j.attached \cup j.listed \cup items
<1> DEFINE section == WithSection(j, part, items)
<1>0. /\ section.body = IF part \in options.body THEN j.body \cup items ELSE j.body
      /\ section.attached = IF part \in options.attached THEN j.attached \cup items ELSE j.attached
      /\ section.listed = j.listed
  BY WithSectionIs, ZenonT(60)
<1>00. new = section
  OBVIOUS
<1> HIDE DEF section
<1>1. new.body \subseteq j.body \cup items
  BY <1>0, <1>00
<1>2. new.attached \subseteq j.attached \cup items
  BY <1>0, <1>00
<1>3. new.listed = j.listed
  BY <1>0, <1>00
<1> QED BY <1>1, <1>2, <1>3

\* Reading makes just items of what is in the tables.
LEMMA JustRead ==
    ASSUME TypeInv, KeysInv, JustParts, NEW p \in Reporters, Generate(p)
    PROVE  JustJob(p)'
<1>1. job[p] \in Job /\ TablesInv /\ JustJob(p)
  BY DEF TypeInv, ReportersType, JustParts
<1>2. \A item \in job[p].body \cup job[p].attached \cup job[p].listed : Just(item)
  BY <1>1 DEF JustJob
<1>3. CASE GetBypasses(p)
  <2> DEFINE j == WithSection(job[p], "bypasses", BypassItems)
  <2>1. ReadsOn(p, "getBypasses", "getWarnings", j) /\ BypassItems \in SUBSET Items
    BY <1>3, SectionReads
  <2>2. pc'[p] = "getWarnings" /\ job'[p] = j /\ options' = options /\ urls' = urls
    BY <2>1, ReadsStep
  <2>3. \A item \in BypassItems : Just(item)
    BY DEF BypassItems, Just
  <2>4. \A item \in j.body \cup j.attached \cup j.listed :
           item \in job[p].body \cup job[p].attached \cup job[p].listed \cup BypassItems
    BY <1>1, <2>1, SectionSays
  <2>5. \A item \in j.body \cup j.attached \cup j.listed : Just(item)
    <3> HIDE DEF j
    <3> QED BY <1>2, <2>3, <2>4
  <2> HIDE DEF j
  <2> QED BY <2>2, <2>5, JustJobIs
<1>4. CASE GetWarnings(p)
  <2> DEFINE j == WithRows(job[p], SetToSeq(FlaggedRows), 1)
             onward == IF FlaggedRows = {} THEN "getWhitelist" ELSE "getMatches"
  <2>1. ReadsOn(p, "getWarnings", onward, j)
    BY <1>4, WarningsReads DEF WarningsRead
  <2>2. pc'[p] = onward /\ job'[p] = j /\ options' = options /\ urls' = urls
    BY <2>1, ReadsStep
  <2>3. /\ SetToSeq(FlaggedRows) \in Seq(SectionRow)
        /\ \A n \in 1..Len(SetToSeq(FlaggedRows)) : SetToSeq(FlaggedRows)[n] \in FlaggedRows
    BY FlaggedAre
  <2>4. /\ j.rows = SetToSeq(FlaggedRows)
        /\ j.body = job[p].body /\ j.attached = job[p].attached /\ j.listed = job[p].listed
    BY <1>1, <2>3, WithRowsIs
  <2>5. \A row \in FlaggedRows : JustRow(row)
    <3> SUFFICES ASSUME NEW row \in FlaggedRows PROVE JustRow(row)
      OBVIOUS
    <3>1. row \in Joined(FALSE) /\ Strength[row.match] >= options.threshold
      BY DEF FlaggedRows
    <3>2. /\ row.url = row.match /\ row.keywords = {}
          /\ (row.match \in Whitelisted) = FALSE
          /\ \E u \in urls : u.rowid = row.urlId /\ u.request = row.url
      BY <1>1, <3>1, JoinedJust
    <3> QED BY <3>1, <3>2 DEF JustRow
  <2>6. onward # "getHistory"
    OBVIOUS
  <2> HIDE DEF j, onward
  <2> QED BY <1>2, <2>2, <2>3, <2>4, <2>5, <2>6, JustJobIs
<1>5. CASE GetMatches(p)
  <2>1. MatchesRead(p) /\ pc[p] = "getMatches"
    BY <1>5, MatchesReads DEF GetMatches
  <2>2. \A n \in 1..Len(RowsWith(p)) : JustRow(RowsWith(p)[n])
    BY <1>1, <2>1, FoundJust
  <2>3. /\ RowsWith(p) \in Seq(SectionRow) /\ job[p].index + 1 \in Nat
    BY <1>1, <2>1, RowsWithAre DEF Job
  <2>4. CASE job[p].index < Len(job[p].rows)
    <3> DEFINE j == WithRows(job[p], RowsWith(p), job[p].index + 1)
    <3>1. ReadsOn(p, "getMatches", "getMatches", j)
      BY <2>1, <2>4 DEF MatchesRead
    <3>2. pc'[p] = "getMatches" /\ job'[p] = j /\ options' = options /\ urls' = urls
      BY <3>1, ReadsStep
    <3>3. /\ j.rows = RowsWith(p)
          /\ j.body = job[p].body /\ j.attached = job[p].attached /\ j.listed = job[p].listed
      BY <1>1, <2>3, WithRowsIs
    <3> HIDE DEF j
    <3> QED BY <1>2, <2>2, <3>2, <3>3, JustJobIs
  <2>5. CASE ~(job[p].index < Len(job[p].rows))
    <3> DEFINE items == WarningItems(RowsWith(p))
               w == WithSection(job[p], "warnings", items)
               j == WithRows(w, <<>>, 0)
    <3>1. ReadsOn(p, "getMatches", "getWhitelist", j)
      BY <2>1, <2>5 DEF MatchesRead
    <3>2. pc'[p] = "getWhitelist" /\ job'[p] = j /\ options' = options /\ urls' = urls
      BY <3>1, ReadsStep
    <3>3. items \in SUBSET Items
      BY <2>3, WarningItemsAre
    <3>4. /\ w \in Job
          /\ \A item \in w.body \cup w.attached \cup w.listed :
                item \in job[p].body \cup job[p].attached \cup job[p].listed \cup items
      <4>1. w \in Job
        BY <1>1, <3>3, WithSectionIs
      <4> QED BY <1>1, <3>3, <4>1, SectionSays
    <3> HIDE DEF w
    <3>5. j.body = w.body /\ j.attached = w.attached /\ j.listed = w.listed
      <4>1. <<>> \in Seq(SectionRow) /\ 0 \in Nat
        OBVIOUS
      <4> QED BY <3>4, <4>1, WithRowsIs
    <3>6. \A item \in items : Just(item)
      <4> SUFFICES ASSUME NEW item \in items PROVE Just(item)
        OBVIOUS
      <4>1. PICK n \in 1..Len(RowsWith(p)), k \in Words :
               k \in RowsWith(p)[n].keywords
               /\ item = <<"warning", k, RowsWith(p)[n].url, RowsWith(p)[n].match>>
        BY <2>3, WarningItemsAre
      <4>2. JustRow(RowsWith(p)[n])
        BY <2>2
      <4> DEFINE row == RowsWith(p)[n]
      <4>3. JustRow(row) /\ k \in row.keywords /\ item = <<"warning", k, row.url, row.match>>
        BY <4>1, <4>2
      <4> HIDE DEF row
      <4>4. item[1] = "warning" /\ item[2] = k /\ item[3] = row.url /\ item[4] = row.match
        BY <4>3
      <4> QED BY <4>3, <4>4 DEF Just, JustRow
    <3> HIDE DEF j, items
    <3> QED BY <1>2, <3>2, <3>4, <3>5, <3>6, JustJobIs
  <2> QED BY <2>4, <2>5
<1>6. CASE GetWhitelist(p)
  <2> DEFINE j == WithSection(job[p], "whitelist", WhitelistItems)
  <2>1. ReadsOn(p, "getWhitelist", "getHostnames", j) /\ WhitelistItems \in SUBSET Items
    BY <1>6, SectionReads
  <2>2. pc'[p] = "getHostnames" /\ job'[p] = j /\ options' = options /\ urls' = urls
    BY <2>1, ReadsStep
  <2>3. \A row \in Joined(TRUE) : row.url \in Whitelisted
    <3> SUFFICES ASSUME NEW row \in Joined(TRUE) PROVE row.url \in Whitelisted
      OBVIOUS
    <3>1. row.url = row.match /\ (row.match \in Whitelisted) = TRUE
      BY <1>1, JoinedJust
    <3> QED BY <3>1
  <2>4. \A item \in WhitelistItems : Just(item)
    <3> SUFFICES ASSUME NEW item \in WhitelistItems PROVE Just(item)
      OBVIOUS
    <3>1. PICK row \in Joined(TRUE) : item = <<"whitelist", row.url>>
      BY DEF WhitelistItems
    <3>2. item[1] = "whitelist" /\ item[2] \in Whitelisted
      BY <2>3, <3>1
    <3> QED BY <3>2 DEF Just
  <2>5. \A item \in j.body \cup j.attached \cup j.listed :
           item \in job[p].body \cup job[p].attached \cup job[p].listed \cup WhitelistItems
    BY <1>1, <2>1, SectionSays
  <2> HIDE DEF j
  <2>6. \A item \in j.body \cup j.attached \cup j.listed : Just(item)
    BY <1>2, <2>4, <2>5
  <2> QED BY <2>2, <2>6, JustJobIs
<1>7. CASE GetHostnames(p)
  <2> DEFINE j == WithDomains(job[p], UrlDomains)
  <2>1. ReadsOn(p, "getHostnames", "getDomainHostnames", j)
    BY <1>7, HistoryReads DEF DomainsRead
  <2>2. pc'[p] = "getDomainHostnames" /\ job'[p] = j /\ options' = options /\ urls' = urls
    BY <2>1, ReadsStep
  <2>3. j.body = job[p].body /\ j.attached = job[p].attached /\ j.listed = job[p].listed
    BY <1>1 DEF WithDomains, Job
  <2> HIDE DEF j
  <2> QED BY <1>2, <2>2, <2>3, JustJobIs
<1>8. CASE GetDomainHostnames(p)
  <2> DEFINE d == NextDomain(p)
             j == WithDomain(job[p], d, HostsIn(d))
             k == WithHostnames(job[p], d, HostItems(d))
  <2>1. /\ d \in job[p].domains
        /\ \/ ReadsOn(p, "getDomainHostnames", "getHistory", j)
           \/ ReadsOn(p, "getDomainHostnames", "getDomainHostnames", k)
    BY <1>8, HistoryReads DEF HostnamesRead
  <2>2. d \in Range(Domain)
    BY <1>1, <2>1 DEF Job
  <2>3. \A h \in HostsIn(d) : <<h, d>> \in EndsIn
    BY DEF HostsIn
  <2>4. \A item \in HostItems(d) : Just(item)
    BY <2>3 DEF HostItems, Just
  <2> HIDE DEF d
  <2>5. CASE ReadsOn(p, "getDomainHostnames", "getHistory", j)
    <3>1. pc'[p] = "getHistory" /\ job'[p] = j /\ options' = options /\ urls' = urls
      BY <2>5, ReadsStep
    <3>2. HostsIn(d) \in SUBSET Hosts
      BY <2>2, HistoryItemsAre
    <3>3. /\ j.domain = d /\ j.hosts = HostsIn(d)
          /\ j.body = job[p].body /\ j.attached = job[p].attached /\ j.listed = job[p].listed
      BY <1>1, <2>2, <3>2, WithDomainIs
    <3> HIDE DEF j
    <3> QED BY <1>2, <2>3, <3>1, <3>3, JustJobIs
  <2>6. CASE ReadsOn(p, "getDomainHostnames", "getDomainHostnames", k)
    <3>1. pc'[p] = "getDomainHostnames" /\ job'[p] = k /\ options' = options /\ urls' = urls
      BY <2>6, ReadsStep
    <3>2. HostItems(d) \in SUBSET Items
      BY <2>2, HistoryItemsAre
    <3>3. k.body = job[p].body /\ k.attached = job[p].attached /\ k.listed = job[p].listed \cup HostItems(d)
      BY <1>1, <2>2, <3>2, WithHostnamesIs
    <3> HIDE DEF k
    <3>4. \A item \in k.body \cup k.attached \cup k.listed : Just(item)
      BY <1>2, <2>4, <3>3
    <3> QED BY <3>1, <3>4, JustJobIs
  <2> QED BY <2>1, <2>5, <2>6
<1>9. CASE GetHistory(p)
  <2> DEFINE h == NextHost(p)
             items == PathItems(job[p].domain, h)
             j == WithPaths(job[p], h, items)
             onward == IF job[p].hosts = {h} THEN "getDomainHostnames" ELSE "getHistory"
  <2>1. h \in job[p].hosts /\ ReadsOn(p, "getHistory", onward, j)
    BY <1>9, HistoryReads DEF PathsRead
  <2>2. /\ pc[p] = "getHistory" /\ pc'[p] = onward /\ job'[p] = j
        /\ options' = options /\ urls' = urls
    BY <2>1, ReadsStep
  <2>3. \A g \in job[p].hosts : <<g, job[p].domain>> \in EndsIn
    BY <1>1, <2>2 DEF JustJob
  <2>4. items \in SUBSET Items
    <3>1. job[p].domain \in Range(Domain)
      BY <2>2 DEF TypeInv, ReportersType
    <3> QED BY <3>1, HistoryItemsAre
  <2>5. \A item \in items : Just(item)
    <3>1. \A r \in PathsOf(h) : <<Host[r], job[p].domain>> \in EndsIn
      BY <2>1, <2>3 DEF PathsOf
    <3> QED BY <3>1 DEF PathItems, Just
  <2>6. /\ j.domain = job[p].domain /\ j.hosts = job[p].hosts \ {h}
        /\ j.body = job[p].body /\ j.attached = job[p].attached /\ j.listed = job[p].listed \cup items
    BY <1>1, <2>4, WithPathsIs
  <2>7. onward # "getMatches"
    OBVIOUS
  <2> HIDE DEF j, items, h, onward
  <2>8. \A item \in j.body \cup j.attached \cup j.listed : Just(item)
    BY <1>2, <2>5, <2>6
  <2> QED BY <2>2, <2>3, <2>6, <2>7, <2>8, JustJobIs
<1>10. CASE MakeHistory(p)
  <2> DEFINE j == WithHistory(job[p])
  <2>1. ReadsOn(p, "getDomainHostnames", "listDirectory", j)
    BY <1>10, HistoryReads DEF HistoryRead
  <2>2. pc'[p] = "listDirectory" /\ job'[p] = j /\ options' = options /\ urls' = urls
    BY <2>1, ReadsStep
  <2>3. /\ j.body = job[p].body /\ j.listed = {}
        /\ j.attached \subseteq job[p].attached \cup job[p].listed
    BY <1>1, WithHistoryIs
  <2> HIDE DEF j
  <2>4. \A item \in j.body \cup j.attached \cup j.listed : Just(item)
    BY <1>2, <2>3
  <2> QED BY <2>2, <2>4, JustJobIs
<1> QED BY <1>3, <1>4, <1>5, <1>6, <1>7, <1>8, <1>9, <1>10 DEF Generate

\* What is saved was in a report.
LEMMA JustSaved ==
    ASSUME TypeInv, NumberInv, JustParts, NEW p \in Reporters, SaveAttachedReport(p)
    PROVE  /\ JustJob(p)'
           /\ \A f \in files' : \A item \in f.content : Just(item)
<1>1. /\ \A f \in files : \A item \in f.content : Just(item)
      /\ \A item \in job[p].body \cup job[p].attached \cup job[p].listed : Just(item)
  BY DEF JustParts, JustJob
<1>2. PICK label, onward, j : SavesOn(p, label, onward, j)
  BY SavingFiles, Zenon
<1>3. /\ pc'[p] \notin Reading /\ job'[p] = j /\ SameOwner(j, job[p])
      /\ options' = options /\ urls' = urls
  BY <1>2, SavesStep
<1>4. \A item \in j.body \cup j.attached \cup j.listed : Just(item)
  BY <1>1, <1>3 DEF SameOwner
<1>5. JustJob(p)'
  BY <1>3, <1>4, JustJobIs DEF Reading
<1>6. CASE ListedDirectory(p) \/ FailedToSave(p)
  <2>1. files' = files
    BY <1>6 DEF ListedDirectory, FailedToSave
  <2> QED BY <1>1, <1>5, <2>1
<1>7. ASSUME NEW name \in Names, VisitedEntry(p, name)
      PROVE  \A f \in files' : \A item \in f.content : Just(item)
  <2>1. files' \subseteq files
    BY <1>7 DEF VisitedEntry
  <2> QED BY <1>1, <2>1
<1>8. CASE WroteFile(p)
  <2> DEFINE new == NewFile(job[p])
  <2>1. \A g \in files' : g = new \/ g \in files
    BY <1>8, WrittenIs DEF WroteFile
  <2>2. new.content = job[p].attached
    BY DEF NewFile
  <2> HIDE DEF new
  <2> QED BY <1>1, <1>5, <2>1, <2>2
<1>9. ASSUME NEW f \in File, AttachedFile(p, f)
      PROVE  \A g \in files' : \A item \in g.content : Just(item)
  <2>1. f \in files /\ files' = Written(Zipped(f))
    BY <1>9 DEF AttachedFile
  <2>2. \A g \in files' : g = Zipped(f) \/ g \in files
    BY <2>1, WrittenIs
  <2>3. Zipped(f).content = f.content
    BY ZippedIs
  <2> QED BY <1>1, <2>1, <2>2, <2>3
<1> QED BY <1>5, <1>6, <1>7, <1>8, <1>9, SavingIs

LEMMA JustStep == TypeInv /\ NumberInv /\ KeysInv /\ JustInv /\ [Next]_vars => JustInv'
<1> SUFFICES ASSUME TypeInv, NumberInv, KeysInv, JustInv, [Next]_vars,
                    {"rotated", "orphaned"} \cap mishaps' = {}
             PROVE  JustParts'
  BY DEF JustInv
<1>1. ASSUME UNCHANGED <<options, files, pc, job, mailed>>, urls \subseteq urls', TablesInv', JustParts
      PROVE  JustParts'
  <2>1. \A item : Just(item) <=> Just(item)'
    BY <1>1, JustSame
  <2>2. \A row : JustRow(row) => JustRow(row)'
    BY <1>1 DEF JustRow
  <2>3. ASSUME NEW p \in Reporters PROVE JustJob(p)'
    <3>1. JustJob(p)
      BY <1>1 DEF JustParts
    <3>2. \A item \in job'[p].body \cup job'[p].attached \cup job'[p].listed : Just(item)'
      BY <1>1, <2>1, <3>1 DEF JustJob
    <3>3. pc'[p] = "getMatches" => \A n \in 1..Len(job'[p].rows) : JustRow(job[p].rows[n])'
      BY <1>1, <2>2, <3>1 DEF JustJob, JustRow
    <3>4. pc'[p] = "getHistory" => \A h \in job'[p].hosts : <<h, job'[p].domain>> \in EndsIn
      BY <1>1, <3>1 DEF JustJob
    <3> QED BY <3>2, <3>3, <3>4 DEF JustJob
  <2> QED BY <1>1, <2>1, <2>3 DEF JustParts
<1>2. CASE Logs
  <2>1. UNCHANGED <<options, files, pc, job, mailed, mishaps>>
    BY <1>2, LogsAre
  <2>2. JustParts
    BY <2>1 DEF JustInv
  <2>3. TablesInv' /\ urls \subseteq urls'
    BY <1>2, <2>2, TablesLogged DEF JustParts
  <2> QED BY <1>1, <2>1, <2>2, <2>3
<1>3. CASE Midnight \/ UNCHANGED vars
  <2>1. UNCHANGED <<options, urls, warnings, matches, sniffer, files, pc, job, mailed, mishaps>>
    BY <1>3 DEF Midnight, vars, world, tables, logging, history
  <2>2. JustParts
    BY <2>1 DEF JustInv
  <2>3. TablesInv'
    BY <2>1, <2>2 DEF JustParts, TablesInv
  <2> QED BY <1>1, <2>1, <2>2, <2>3
<1>4. ASSUME NEW p \in Reporters, StepsOf(p) PROVE JustParts'
  <2>1. CASE Generate(p)
    <3>1. PICK label, onward, j : ReadsOn(p, label, onward, j)
      BY <2>1, GenerateIs
    <3>2. /\ \A q \in Reporters : q # p => pc'[q] = pc[q] /\ job'[q] = job[q]
          /\ UNCHANGED <<options, urls, warnings, matches, files, sniffer, mailed, mishaps>>
      BY <3>1, ReadsStep
    <3>3. JustParts
      BY <3>2 DEF JustInv
    <3>4. TablesInv'
      BY <3>2, <3>3 DEF JustParts, TablesInv
    <3>5. JustJob(p)'
      BY <2>1, <3>3, JustRead
    <3>6. /\ \A item \in mailed' : Just(item)
          /\ \A f \in files' : \A item \in f.content : Just(item)
      BY <3>2, <3>3 DEF JustParts
    <3> QED BY <3>2, <3>3, <3>4, <3>5, <3>6, JustKept
  <2>2. CASE SaveAttachedReport(p)
    <3>1. PICK label, onward, j : SavesOn(p, label, onward, j)
      BY <2>2, SavingFiles, Zenon
    <3>2. /\ \A q \in Reporters : q # p => pc'[q] = pc[q] /\ job'[q] = job[q]
          /\ UNCHANGED <<options, urls, warnings, matches, sniffer, mailed>>
          /\ mishaps \subseteq mishaps'
      BY <3>1, SavesStep
    <3>3. JustParts
      BY <3>2 DEF JustInv
    <3>4. TablesInv'
      BY <3>2, <3>3 DEF JustParts, TablesInv
    <3>5. JustJob(p)' /\ \A f \in files' : \A item \in f.content : Just(item)
      BY <2>2, <3>3, JustSaved
    <3>6. \A item \in mailed' : Just(item)
      BY <3>2, <3>3 DEF JustParts
    <3> QED BY <3>2, <3>3, <3>4, <3>5, <3>6, JustKept
  <2>3. CASE Started(p) \/ Mailed(p) \/ GaveUp(p) \/ Rotated(p)
    <3>1. /\ \A q \in Reporters : q # p => pc'[q] = pc[q] /\ job'[q] = job[q]
          /\ UNCHANGED <<options, files>> /\ mishaps \subseteq mishaps'
      BY <2>3, ElsewhereIs DEF Elsewhere
    <3>2. JustParts
      BY <3>1 DEF JustInv
    <3>3. /\ job'[p].body = {} /\ job'[p].attached = {} /\ job'[p].listed = {}
          /\ pc'[p] \notin {"getMatches", "getHistory"}
      <4>1. PICK label \in {"idle", "send", "rotate"}, onward \in {"getBypasses", "rotate", "idle"},
                 report \in {reports + 1, None, job[p].report} : EndsOn(p, label, onward, report)
        BY <2>3, EndsStep, Zenon
      <4> QED BY <4>1 DEF EndsOn
    <3>4. JustJob(p)'
      BY <3>3 DEF JustJob
    <3>5. \A f \in files' : \A item \in f.content : Just(item)
      BY <3>1, <3>2 DEF JustParts
    <3>6. \A item \in mailed' : Just(item)
      <4>1. CASE Mailed(p)
        <5>1. mailed' = mailed \cup Contents(p)
          BY <4>1 DEF Mailed
        <5>2. \A item \in Contents(p) : Just(item)
          BY <3>2 DEF Contents, Enclosed, JustParts, JustJob
        <5> QED BY <3>2, <5>1, <5>2 DEF JustParts
      <4>2. CASE Started(p) \/ GaveUp(p) \/ Rotated(p)
        <5>1. mailed' = mailed
          BY <4>2 DEF Started, GaveUp, Rotated
        <5> QED BY <3>2, <5>1 DEF JustParts
      <4> QED BY <2>3, <4>1, <4>2
    <3>7. TablesInv' /\ (urls \subseteq urls' \/ \A q \in Reporters : pc[q] \notin Reading)
      <4>1. CASE Started(p) \/ Mailed(p) \/ GaveUp(p)
        <5>1. UNCHANGED <<urls, warnings, matches, sniffer>>
          BY <4>1 DEF Started, Mailed, GaveUp
        <5> QED BY <3>2, <5>1 DEF JustParts, TablesInv
      <4>2. CASE Rotated(p)
        <5>1. \A q \in Reporters : pc[q] \notin Reading
          BY <4>2 DEF Rotated
        <5>2. TablesInv'
          BY <3>2, <4>2, TablesRotated DEF JustParts
        <5> QED BY <5>1, <5>2
      <4> QED BY <2>3, <4>1, <4>2
    <3> QED BY <3>1, <3>2, <3>4, <3>5, <3>6, <3>7, JustKept
  <2> QED BY <1>4, <2>1, <2>2, <2>3 DEF StepsOf
<1> QED BY <1>2, <1>3, <1>4, NextIs

\* No mail and no file says of a request what the filter did not find in it, for
\* any options, although a report is put together from one statement after
\* another while the sniffer inserts a URL, its warning and its matches with
\* statements in between, by the number that SQLite gave the URL.
THEOREM NothingFalselyListed == Spec => []ListedJustly
<1>1. Init => KeysInv /\ JustInv
  <2> SUFFICES ASSUME Init PROVE KeysInv /\ JustParts
    BY DEF JustInv
  <2>1. /\ urls = {} /\ warnings = {} /\ matches = {} /\ files = {} /\ mailed = {}
        /\ sniffer.pc = "idle"
        /\ \A p \in Reporters : pc[p] = "idle" /\ job[p] = NoJob
    BY DEF Init
  <2>2. NoJob.body = {} /\ NoJob.attached = {} /\ NoJob.listed = {}
    BY DEF NoJob
  <2>3. \A p \in Reporters : JustJob(p)
    BY <2>1, <2>2 DEF JustJob
  <2> QED BY <2>1, <2>3 DEF KeysInv, JustParts, TablesInv
<1>2. TypeInv /\ NumberInv /\ KeysInv /\ JustInv /\ [Next]_vars => (KeysInv /\ JustInv)'
  BY KeysStep, JustStep
<1>3. JustInv => ListedJustly
  <2> SUFFICES ASSUME JustInv, {"rotated", "orphaned"} \cap mishaps = {},
                      NEW item \in mailed \cup UNION {f.content : f \in files}
               PROVE  Just(item)
    BY DEF ListedJustly, Just
  <2> QED BY DEF JustInv, JustParts
<1> QED BY <1>1, <1>2, <1>3, TypeAlways, PTL DEF Spec

-----------------------------------------------------------------------------
(***************************************************************************)
(* What is deleted was mailed.                                             *)
(***************************************************************************)
Whole == {"split", "overlap", "unsaved"} \cap mishaps = {}

\* The reports under way are told apart by their numbers, and have no file before
\* they write one.
ByInv ==
    /\ \A p, q \in Reporters : pc[p] # "idle" /\ pc[q] # "idle" /\ job[p].report = job[q].report => p = q
    /\ \A p \in Pending, f \in files : f.by # job[p].report

\* The request whose rows are being inserted, and the row of a request.
Inserting(e) == sniffer.pc # "idle" /\ sniffer.request = e

StoredAs(e, u) ==
    /\ u.request = e
    /\ (IF Inserting(e) THEN sniffer.pc = "insertMatches" ELSE Keywords[e] # {}) =>
          [urlId |-> u.rowid, match |-> e] \in warnings
    /\ ~Inserting(e) => \A k \in Keywords[e] : [urlId |-> u.rowid, keyword |-> k] \in matches
    /\ Inserting(e) => sniffer.lastRowId = u.rowid

\* What was logged and not deleted is in the tables, and what is older than a
\* report is there with all its rows.
StoredParts ==
    /\ deleted \cap todo = {}
    /\ \A e \in Requests : e \notin todo \cup deleted => \E u \in urls : StoredAs(e, u)
    /\ \A e \in Incidents : e \notin todo \cup deleted => e \in bypasses
    /\ \A p \in Reporters : pc[p] # "idle" =>
          \A e \in job[p].old : e \notin todo /\ ~Inserting(e)

StoredInv == Whole => StoredParts

\* What a section has to say of a request or an incident, and what the history has.
Has(part, e, items) ==
    /\ part = "bypasses" /\ e \in Incidents => <<"bypass", e>> \in items
    /\ part = "warnings" /\ e \in Requests \ Whitelisted /\ Strength[e] >= options.threshold =>
          \A k \in Keywords[e] : <<"warning", k, e, e>> \in items
    /\ part = "whitelist" /\ e \in Whitelisted /\ Keywords[e] # {} => <<"whitelist", e>> \in items

HasHistory(e, items) ==
    e \in Requests =>
        /\ DoIncludePaths => <<"path", Domain[Host[e]], e>> \in items
        /\ ~DoIncludePaths /\ DoSaveHistory => <<"host", Domain[Host[e]], Host[e]>> \in items

Sections == {"bypasses", "warnings", "whitelist"}

\* The labels at which a section is still to be made.
NotYet(part) ==
    {"getBypasses"} \cup (IF part = "bypasses" THEN {} ELSE {"getWarnings", "getMatches"})
                    \cup (IF part = "whitelist" THEN {"getWhitelist"} ELSE {})

\* A report covers what is older than it, as far as it has got: the sections that
\* are made, and once the file is written, the file.
SectionsMade(p, e) ==
    \A part \in Sections : pc[p] \notin NotYet(part) =>
        /\ part \in options.body => Has(part, e, job[p].body)
        /\ part \in options.attached /\ p \in Pending => Has(part, e, job[p].attached)

\* A flagged request is among the rows whose keywords are read.
IsRow(row, e) ==
    /\ row.url = e /\ row.match = e
    /\ \E u \in urls : u.request = e /\ u.rowid = row.urlId

AmongRows(p, e) ==
    e \in Requests \ Whitelisted /\ Strength[e] >= options.threshold /\ Keywords[e] # {} =>
        \E n \in 1..Len(job[p].rows) :
            /\ IsRow(job[p].rows[n], e)
            /\ n < job[p].index => Keywords[e] \subseteq job[p].rows[n].keywords

\* A request is listed in the history, or it is in what is still to be listed.
InHistory(p, e) == LET j == job[p] IN
    \/ e \notin Requests
    \/ Domain[Host[e]] \in j.domains
    \/ pc[p] = "getHistory" /\ j.domain = Domain[Host[e]] /\ Host[e] \in j.hosts
    \/ HasHistory(e, j.listed)

HistoryMade(p, e) ==
    /\ pc[p] \in {"getDomainHostnames", "getHistory"} => InHistory(p, e)
    /\ pc[p] = "getHistory" => DoIncludePaths
    /\ pc[p] \in {"listDirectory", "visitEntry"} => HasHistory(e, job[p].attached)

InFile(e, f) ==
    /\ \A part \in Sections \cap options.attached : Has(part, e, f.content)
    /\ HasHistory(e, f.content)

Covers(p, e) ==
    /\ SectionsMade(p, e)
    /\ pc[p] = "getMatches" => AmongRows(p, e)
    /\ HistoryMade(p, e)
    /\ pc[p] \in {"attachFile", "send"} => \A f \in files : f.by = job[p].report => InFile(e, f)

\* That goes for all that is to be deleted, and what is mailed is due no more.
Reported(p, e) == e \in job[p].old /\ e \notin deleted =>
    /\ pc[p] \notin {"idle", "rotate"} => Covers(p, e)
    /\ pc[p] = "rotate" => Due(e)

CoverParts ==
    /\ \A e \in deleted : Due(e)
    /\ \A p \in Reporters, e \in Requests \cup Incidents : Reported(p, e)

CoverInv == Whole => CoverParts

-----------------------------------------------------------------------------
\* The numbers of reports, when one reporter takes a step.
LEMMA ByKept ==
    ASSUME ByInv, NEW p \in Reporters,
           \A q \in Reporters : q # p => pc'[q] = pc[q] /\ job'[q] = job[q],
           pc'[p] # "idle" => \A q \in Reporters \ {p} : pc[q] # "idle" => job[q].report # job'[p].report,
           p \in Pending' => \A f \in files' : f.by # job'[p].report,
           \A q \in Pending : q # p => \A f \in files' : f.by # job[q].report
    PROVE  ByInv'
<1>1. ASSUME NEW q \in Reporters, NEW r \in Reporters, pc'[q] # "idle", pc'[r] # "idle",
             job'[q].report = job'[r].report, q # r
      PROVE  FALSE
  <2>1. CASE q = p
    BY <1>1, <2>1
  <2>2. CASE r = p
    BY <1>1, <2>2
  <2>3. CASE q # p /\ r # p
    BY <1>1, <2>3 DEF ByInv
  <2> QED BY <2>1, <2>2, <2>3
<1>2. ASSUME NEW q \in Pending', NEW f \in files' PROVE f.by # job'[q].report
  <2>1. CASE q = p
    BY <1>2, <2>1
  <2>2. CASE q # p
    <3>1. q \in Pending /\ job'[q] = job[q]
      BY <1>2, <2>2 DEF Pending
    <3> QED BY <2>2, <3>1
  <2> QED BY <2>1, <2>2
<1> QED BY <1>1, <1>2 DEF ByInv

LEMMA ByStep == TypeInv /\ NumberInv /\ ByInv /\ [Next]_vars => ByInv'
<1> SUFFICES ASSUME TypeInv, NumberInv, ByInv, [Next]_vars PROVE ByInv'
  OBVIOUS
<1>1. CASE Logs \/ Midnight \/ UNCHANGED vars
  <2>1. UNCHANGED <<files, pc, job>>
    <3>1. Logs => UNCHANGED <<files, pc, job>>
      BY LogsAre
    <3>2. Midnight \/ UNCHANGED vars => UNCHANGED <<files, pc, job>>
      BY DEF Midnight, vars
    <3> QED BY <1>1, <3>1, <3>2
  <2> QED BY <2>1 DEF ByInv, Pending
<1>2. ASSUME NEW p \in Reporters, StepsOf(p) PROVE ByInv'
  <2>1. ASSUME pc[p] # "idle"
        PROVE  \A q \in Reporters \ {p} : pc[q] # "idle" => job[q].report # job[p].report
    BY <2>1 DEF ByInv
  <2>2. p \in Pending => \A f \in files : f.by # job[p].report
    BY DEF ByInv
  <2>3. \A q \in Pending : \A f \in files : f.by # job[q].report
    BY DEF ByInv
  <2>4. CASE Generate(p)
    <3>1. PICK label, onward, j : ReadsOn(p, label, onward, j)
      BY <2>4, GenerateIs
    <3>2. /\ \A q \in Reporters : q # p => pc'[q] = pc[q] /\ job'[q] = job[q]
          /\ pc[p] \in Reading /\ job'[p] = j /\ SameReport(j, job[p]) /\ files' = files
      BY <3>1, ReadsStep
    <3>3. p \in Pending /\ pc[p] # "idle" /\ job'[p].report = job[p].report
      BY <3>2 DEF Pending, Reading, SameReport
    <3> QED BY <2>1, <2>2, <2>3, <3>2, <3>3, ByKept
  <2>5. CASE SaveAttachedReport(p)
    <3>1. PICK label, onward, j : SavesOn(p, label, onward, j)
      BY <2>5, SavingFiles, Zenon
    <3>2. /\ \A q \in Reporters : q # p => pc'[q] = pc[q] /\ job'[q] = job[q]
          /\ pc[p] = label /\ pc'[p] = onward /\ job'[p] = j /\ SameOwner(j, job[p])
      BY <3>1, SavesStep
    <3>3. /\ pc[p] \in {"listDirectory", "visitEntry", "attachFile"}
          /\ pc'[p] \in {"visitEntry", "attachFile", "send"}
      BY <3>1, <3>2 DEF SavesOn
    <3>4. pc[p] # "idle" /\ job'[p].report = job[p].report
      BY <3>2, <3>3 DEF SameOwner
    <3>5. p \in Pending' => pc'[p] = "visitEntry"
      BY <3>3 DEF Pending, Reading
    <3>6. CASE ListedDirectory(p) \/ \E name \in Names : VisitedEntry(p, name)
      <4>1. p \in Pending /\ files' \subseteq files
        <5>1. CASE ListedDirectory(p)
          <6>1. SavesOn(p, "listDirectory", "visitEntry", Listing(job[p])) /\ files' = files
            BY <5>1 DEF ListedDirectory
          <6>2. pc[p] = "listDirectory"
            BY <6>1, SavesStep
          <6> QED BY <6>1, <6>2 DEF Pending
        <5>2. ASSUME NEW name \in Names, VisitedEntry(p, name) PROVE p \in Pending /\ files' \subseteq files
          <6>1. /\ \E new : SavesOn(p, "visitEntry", "visitEntry", new)
                /\ files' \subseteq files
            BY <5>2 DEF VisitedEntry
          <6>2. PICK new : SavesOn(p, "visitEntry", "visitEntry", new)
            BY <6>1
          <6>3. pc[p] = "visitEntry"
            BY <6>2, SavesStep
          <6> QED BY <6>1, <6>3 DEF Pending
        <5> QED BY <3>6, <5>1, <5>2
      <4> QED BY <2>1, <2>2, <2>3, <3>2, <3>4, <4>1, ByKept
    <3>7. CASE WroteFile(p)
      <4> DEFINE new == NewFile(job[p])
      <4>1. SavesOn(p, "visitEntry", "attachFile", Numbered(job[p])) /\ files' = Written(new)
        BY <3>7 DEF WroteFile
      <4>2. pc'[p] = "attachFile"
        BY <4>1, SavesStep
      <4>3. \A g \in files' : g = new \/ g \in files
        BY <4>1, WrittenIs
      <4>4. new.by = job[p].report
        BY DEF NewFile
      <4> HIDE DEF new
      <4>5. \A q \in Pending : q # p => job[q].report # job[p].report
        BY <2>1, <3>4 DEF Pending, Reading
      <4>6. \A q \in Pending : q # p => \A f \in files' : f.by # job[q].report
        BY <2>3, <4>3, <4>4, <4>5
      <4> QED BY <2>1, <3>2, <3>4, <3>5, <4>2, <4>6, ByKept
    <3>8. ASSUME NEW f \in File, AttachedFile(p, f) PROVE ByInv'
      <4>1. /\ SavesOn(p, "attachFile", "send", WithFile(job[p], Name(Zipped(f))))
            /\ f \in files /\ files' = Written(Zipped(f))
        BY <3>8 DEF AttachedFile
      <4>2. pc'[p] = "send"
        BY <4>1, SavesStep
      <4>3. \A g \in files' : g = Zipped(f) \/ g \in files
        BY <4>1, WrittenIs
      <4>4. Zipped(f).by = f.by
        BY ZippedIs
      <4>5. \A q \in Pending : \A g \in files' : g.by # job[q].report
        BY <2>3, <4>1, <4>3, <4>4
      <4> QED BY <2>1, <3>2, <3>4, <3>5, <4>2, <4>5, ByKept
    <3>9. CASE FailedToSave(p)
      <4>1. files' = files
        BY <3>9 DEF FailedToSave
      <4>2. pc'[p] = "send"
        <5>1. PICK label2 : SavesOn(p, label2, "send", WithoutFile(job[p]))
          BY <3>9, Zenon DEF FailedToSave
        <5> QED BY <5>1, SavesStep
      <4> QED BY <2>1, <2>3, <3>2, <3>4, <3>5, <4>1, <4>2, ByKept
    <3> QED BY <2>5, <3>6, <3>7, <3>8, <3>9, SavingIs
  <2>6. CASE Started(p)
    <3>1. /\ \A q \in Reporters : q # p => pc'[q] = pc[q] /\ job'[q] = job[q]
          /\ job'[p].report = reports + 1
      BY <2>6, EndsStep DEF EndsOn
    <3>2. files' = files
      BY <2>6 DEF Started
    <3>3. reports \in Nat
      BY ConstantsAre DEF TypeInv
    <3>4. \A q \in Reporters : pc[q] # "idle" => job[q].report # reports + 1
      <4>1. \A q \in Reporters : pc[q] # "idle" => job[q].report \in 1..reports
        BY DEF TypeInv, ReportersType
      <4> QED BY <3>3, <4>1
    <3>5. \A f \in files' : f.by # reports + 1
      <4>1. \A f \in files : f.by \in Nat /\ f.by <= reports
        BY ConstantsAre DEF TypeInv, File
      <4> QED BY <3>2, <3>3, <4>1
    <3> QED BY <2>3, <3>1, <3>2, <3>4, <3>5, ByKept
  <2>7. CASE Mailed(p)
    <3>1. /\ \A q \in Reporters : q # p => pc'[q] = pc[q] /\ job'[q] = job[q]
          /\ pc[p] = "send" /\ pc'[p] = "rotate" /\ job'[p].report = job[p].report
      BY <2>7, EndsStep DEF EndsOn
    <3>2. files' = files /\ p \notin Pending'
      BY <2>7, <3>1 DEF Mailed, Pending, Reading
    <3> QED BY <2>1, <2>3, <3>1, <3>2, ByKept
  <2>8. CASE GaveUp(p) \/ Rotated(p)
    <3>1. /\ \A q \in Reporters : q # p => pc'[q] = pc[q] /\ job'[q] = job[q]
          /\ pc'[p] = "idle"
      BY <2>8, EndsStep DEF EndsOn
    <3>2. files' = files /\ p \notin Pending'
      BY <2>8, <3>1 DEF GaveUp, Rotated, Pending, Reading
    <3> QED BY <2>3, <3>1, <3>2, ByKept
  <2> QED BY <1>2, <2>4, <2>5, <2>6, <2>7, <2>8 DEF StepsOf
<1> QED BY <1>1, <1>2, NextIs

-----------------------------------------------------------------------------
\* What has happened is not undone.
LEMMA MishapsStay == TypeInv /\ NumberInv /\ [Next]_vars => mishaps \subseteq mishaps' /\ deleted \subseteq deleted'
<1> SUFFICES ASSUME TypeInv, NumberInv, [Next]_vars
             PROVE  mishaps \subseteq mishaps' /\ deleted \subseteq deleted'
  OBVIOUS
<1>1. CASE Logs
  BY <1>1, LogsAre
<1>2. CASE Midnight \/ UNCHANGED vars
  BY <1>2 DEF Midnight, vars, history
<1>3. ASSUME NEW p \in Reporters, StepsOf(p) PROVE mishaps \subseteq mishaps' /\ deleted \subseteq deleted'
  <2>1. CASE Generate(p)
    <3>1. PICK label, onward, j : ReadsOn(p, label, onward, j)
      BY <2>1, GenerateIs
    <3> QED BY <3>1, ReadsStep
  <2>2. CASE SaveAttachedReport(p)
    <3>1. PICK label, onward, j : SavesOn(p, label, onward, j)
      BY <2>2, SavingFiles, Zenon
    <3> QED BY <3>1, SavesStep
  <2>3. CASE Started(p) \/ Mailed(p) \/ GaveUp(p) \/ Rotated(p)
    BY <2>3 DEF Started, Mailed, GaveUp, Rotated
  <2> QED BY <1>3, <2>1, <2>2, <2>3 DEF StepsOf
<1> QED BY <1>1, <1>2, <1>3, NextIs

\* A request that is not being inserted, or one that is, has the rows it should.
LEMMA StoredWhole ==
    ASSUME NEW e, NEW u, u.request = e, ~Inserting(e),
           Keywords[e] # {} => [urlId |-> u.rowid, match |-> e] \in warnings,
           \A k \in Keywords[e] : [urlId |-> u.rowid, keyword |-> k] \in matches
    PROVE  StoredAs(e, u)
BY DEF StoredAs

LEMMA StoredPartly ==
    ASSUME NEW e, NEW u, u.request = e, Inserting(e), sniffer.lastRowId = u.rowid,
           sniffer.pc = "insertMatches" => [urlId |-> u.rowid, match |-> e] \in warnings
    PROVE  StoredAs(e, u)
BY DEF StoredAs

LEMMA StoredIs ==
    ASSUME NEW e, NEW u, StoredAs(e, u)
    PROVE  /\ u.request = e
           /\ ~Inserting(e) =>
                /\ Keywords[e] # {} => [urlId |-> u.rowid, match |-> e] \in warnings
                /\ \A k \in Keywords[e] : [urlId |-> u.rowid, keyword |-> k] \in matches
           /\ Inserting(e) =>
                /\ sniffer.lastRowId = u.rowid
                /\ sniffer.pc = "insertMatches" => [urlId |-> u.rowid, match |-> e] \in warnings
BY DEF StoredAs

\* Logging stores a request with its rows, one table after another.
LEMMA StoredLogged ==
    ASSUME TypeInv, StoredParts, Logs
    PROVE  StoredParts'
<1>1. UNCHANGED <<pc, job, deleted>>
  BY LogsAre
<1>2. sniffer.pc # "idle" => sniffer.request \in Requests
  BY DEF TypeInv, TablesType
<1>3. ASSUME NEW r \in Requests, LoggedUrl(r) PROVE StoredParts'
  <2>0. PICK new : new = [rowid |-> NextRowId, request |-> r]
    OBVIOUS
  <2>1. /\ r \in todo /\ todo' = todo \ {r} /\ urls' = urls \cup {new} /\ sniffer.pc = "idle"
        /\ sniffer' = [pc |-> IF Keywords[r] # {} THEN "insertWarning" ELSE "idle",
                       request |-> r, lastRowId |-> NextRowId]
        /\ UNCHANGED <<warnings, matches, bypasses>>
    BY <1>3, <2>0 DEF LoggedUrl
  <2>2. /\ sniffer'.request = r /\ sniffer'.lastRowId = NextRowId
        /\ Keywords[r] # {} => sniffer'.pc = "insertWarning"
        /\ Keywords[r] = {} => sniffer'.pc = "idle"
    BY <2>1
  <2>3. new.rowid = NextRowId /\ new.request = r /\ new \in urls'
    BY <2>0, <2>1
  <2>4. \A e : Inserting(e)' => e = r
    BY <2>2 DEF Inserting
  <2>5. \A e : ~Inserting(e)
    BY <2>1 DEF Inserting
  <2>6. StoredAs(r, new)'
    <3>1. CASE Keywords[r] # {}
      <4>1. Inserting(r)' /\ sniffer'.pc # "insertMatches"
        BY <2>2, <3>1 DEF Inserting
      <4> QED BY <2>2, <2>3, <4>1 DEF StoredAs
    <3>2. CASE Keywords[r] = {}
      <4>1. ~Inserting(r)'
        BY <2>2, <3>2 DEF Inserting
      <4> QED BY <2>3, <3>2, <4>1 DEF StoredAs
    <3> QED BY <3>1, <3>2
  <2>7. ASSUME NEW e \in Requests, e \notin todo' \cup deleted' PROVE \E u \in urls' : StoredAs(e, u)'
    <3>1. CASE e = r
      BY <2>3, <2>6, <3>1
    <3>2. CASE e # r
      <4>1. PICK u \in urls : StoredAs(e, u)
        BY <1>1, <2>1, <2>7, <3>2 DEF StoredParts
      <4>2. ~Inserting(e) /\ ~Inserting(e)'
        BY <2>4, <2>5, <3>2
      <4>3. StoredAs(e, u)'
        BY <2>1, <4>1, <4>2 DEF StoredAs
      <4> QED BY <2>1, <4>1, <4>3
    <3> QED BY <3>1, <3>2
  <2>8. \A e \in Incidents : e \notin todo' \cup deleted' => e \in bypasses'
    BY <1>1, <2>1, ReportAssumption DEF StoredParts
  <2>9. deleted' \cap todo' = {}
    BY <1>1, <2>1 DEF StoredParts
  <2>10. \A p \in Reporters : pc'[p] # "idle" => \A e \in job'[p].old : e \notin todo' /\ ~Inserting(e)'
    BY <1>1, <2>1, <2>4 DEF StoredParts
  <2> QED BY <2>7, <2>8, <2>9, <2>10 DEF StoredParts
<1>4. ASSUME LoggedWarning \/ LoggedMatches PROVE StoredParts'
  <2>1. UNCHANGED <<urls, bypasses, todo>> /\ sniffer.pc # "idle"
    BY <1>4 DEF LoggedWarning, LoggedMatches
  <2>2. sniffer'.request = sniffer.request /\ sniffer'.lastRowId = sniffer.lastRowId
    BY <1>4 DEF LoggedWarning, LoggedMatches, TypeInv, TablesType
  <2>3. warnings \subseteq warnings' /\ matches \subseteq matches'
    BY <1>4 DEF LoggedWarning, LoggedMatches
  <2>4. \A e : Inserting(e)' => Inserting(e)
    BY <2>1, <2>2 DEF Inserting
  <2>5. ASSUME NEW e, NEW u, StoredAs(e, u) PROVE StoredAs(e, u)'
    <3>1. CASE ~Inserting(e)
      BY <2>3, <2>4, <2>5, <3>1 DEF StoredAs
    <3>2. CASE Inserting(e)
      <4>1. e = sniffer.request /\ u.request = e /\ sniffer.lastRowId = u.rowid
        BY <2>5, <3>2 DEF StoredAs, Inserting
      <4>2. CASE LoggedWarning
        <5>1. sniffer'.pc = "insertMatches"
          BY <4>2 DEF LoggedWarning, TypeInv, TablesType
        <5>2. Inserting(e)'
          BY <2>2, <4>1, <5>1 DEF Inserting
        <5>3. [urlId |-> u.rowid, match |-> e] \in warnings'
          BY <4>1, <4>2 DEF LoggedWarning
        <5> QED BY <2>2, <4>1, <5>2, <5>3 DEF StoredAs
      <4>3. CASE LoggedMatches
        <5>1. sniffer'.pc = "idle" /\ sniffer.pc = "insertMatches"
          BY <4>3 DEF LoggedMatches, TypeInv, TablesType
        <5>2. ~Inserting(e)'
          BY <5>1 DEF Inserting
        <5>3. [urlId |-> u.rowid, match |-> e] \in warnings'
          BY <2>3, <2>5, <3>2, <5>1 DEF StoredAs
        <5>4. \A k \in Keywords[e] : [urlId |-> u.rowid, keyword |-> k] \in matches'
          BY <4>1, <4>3 DEF LoggedMatches
        <5> QED BY <4>1, <5>2, <5>3, <5>4 DEF StoredAs
      <4> QED BY <1>4, <4>2, <4>3
    <3> QED BY <3>1, <3>2
  <2>6. \A e \in Requests : e \notin todo' \cup deleted' => \E u \in urls' : StoredAs(e, u)'
    BY <1>1, <2>1, <2>5 DEF StoredParts
  <2>7. \A p \in Reporters : pc'[p] # "idle" => \A e \in job'[p].old : e \notin todo' /\ ~Inserting(e)'
    BY <1>1, <2>1, <2>4 DEF StoredParts
  <2> QED BY <1>1, <2>1, <2>6, <2>7 DEF StoredParts
<1>5. ASSUME NEW b \in Incidents, LoggedBypass(b) PROVE StoredParts'
  <2>1. /\ todo' = todo \ {b} /\ bypasses' = bypasses \cup {b}
        /\ UNCHANGED <<urls, warnings, matches, sniffer>>
    BY <1>5 DEF LoggedBypass
  <2>2. \A e, u : StoredAs(e, u) => StoredAs(e, u)'
    BY <2>1 DEF StoredAs, Inserting
  <2>3. \A e \in Requests : e \notin todo' \cup deleted' => \E u \in urls' : StoredAs(e, u)'
    BY <1>1, <2>1, <2>2, ReportAssumption DEF StoredParts
  <2>4. \A p \in Reporters : pc'[p] # "idle" => \A e \in job'[p].old : e \notin todo' /\ ~Inserting(e)'
    BY <1>1, <2>1 DEF StoredParts, Inserting
  <2> QED BY <1>1, <2>1, <2>3, <2>4 DEF StoredParts
<1> QED BY <1>3, <1>4, <1>5, LogsAre

\* Nothing changes in the tables, and no report takes more for old.
LEMMA StoredKept ==
    ASSUME StoredParts, UNCHANGED <<urls, warnings, matches, bypasses, todo, sniffer, deleted>>,
           \A q \in Reporters : pc'[q] # "idle" =>
               \/ pc[q] # "idle" /\ job'[q].old = job[q].old
               \/ sniffer.pc = "idle" /\ job'[q].old \cap todo = {}
    PROVE  StoredParts'
<1>1. \A e, u : StoredAs(e, u) => StoredAs(e, u)'
  BY DEF StoredAs, Inserting
<1>2. \A e : Inserting(e)' => Inserting(e)
  BY DEF Inserting
<1>3. \A e \in Requests : e \notin todo' \cup deleted' => \E u \in urls' : StoredAs(e, u)'
  BY <1>1 DEF StoredParts
<1>4. ASSUME NEW q \in Reporters, pc'[q] # "idle", NEW e \in job'[q].old PROVE e \notin todo' /\ ~Inserting(e)'
  <2>1. CASE pc[q] # "idle" /\ job'[q].old = job[q].old
    BY <1>2, <1>4, <2>1 DEF StoredParts
  <2>2. CASE sniffer.pc = "idle" /\ job'[q].old \cap todo = {}
    BY <1>4, <2>2 DEF Inserting
  <2> QED BY <1>4, <2>1, <2>2
<1> QED BY <1>3, <1>4 DEF StoredParts

\* What is rotated is deleted, and nothing else is.
LEMMA StoredRotated ==
    ASSUME TypeInv, KeysInv, StoredParts, NEW p \in Reporters, Rotated(p)
    PROVE  StoredParts'
<1>1. /\ matches' = {m \in matches : \A u \in OldUrls(p) : m.urlId # u.rowid}
      /\ warnings' = {w \in warnings : \A u \in OldUrls(p) : w.urlId # u.rowid}
      /\ urls' = urls \ OldUrls(p)
      /\ bypasses' = bypasses \ job[p].old
      /\ deleted' = deleted \cup {u.request : u \in OldUrls(p)} \cup (bypasses \cap job[p].old)
      /\ UNCHANGED <<todo, sniffer>>
  BY DEF Rotated
<1>2. /\ pc[p] # "idle" /\ pc'[p] = "idle"
      /\ \A q \in Reporters : q # p => pc'[q] = pc[q] /\ job'[q] = job[q]
  BY EndsStep DEF EndsOn
<1>3. \A u \in OldUrls(p) : u \in urls /\ u.request \in job[p].old
  BY DEF OldUrls
<1>4. \A e \in job[p].old : e \notin todo
  BY <1>2 DEF StoredParts
<1>5. deleted' \cap todo' = {}
  BY <1>1, <1>3, <1>4 DEF StoredParts
<1>6. \A e : Inserting(e)' <=> Inserting(e)
  BY <1>1 DEF Inserting
<1>7. ASSUME NEW e \in Requests, e \notin todo' \cup deleted' PROVE \E u \in urls' : StoredAs(e, u)'
  <2>1. PICK u \in urls : StoredAs(e, u)
    BY <1>1, <1>7 DEF StoredParts
  <2>2. u.request = e
    BY <2>1 DEF StoredAs
  <2>3. u \notin OldUrls(p)
    BY <1>1, <1>7, <2>2
  <2>4. \A v \in OldUrls(p) : v.rowid # u.rowid
    BY <1>3, <2>3 DEF KeysInv
  <2>5. \A w \in warnings : w.urlId = u.rowid => w \in warnings'
    BY <1>1, <2>4
  <2>6. \A m \in matches : m.urlId = u.rowid => m \in matches'
    BY <1>1, <2>4
  <2>7. \A x : [urlId |-> u.rowid, match |-> x].urlId = u.rowid /\ [urlId |-> u.rowid, keyword |-> x].urlId = u.rowid
    OBVIOUS
  <2>8. StoredAs(e, u)'
    BY <1>1, <1>6, <2>1, <2>5, <2>6, <2>7 DEF StoredAs
  <2> QED BY <1>1, <2>3, <2>8
<1>8. \A e \in Incidents : e \notin todo' \cup deleted' => e \in bypasses'
  BY <1>1 DEF StoredParts
<1>9. ASSUME NEW q \in Reporters, pc'[q] # "idle", NEW e \in job'[q].old PROVE e \notin todo' /\ ~Inserting(e)'
  BY <1>1, <1>2, <1>6, <1>9 DEF StoredParts
<1> QED BY <1>5, <1>7, <1>8, <1>9 DEF StoredParts

LEMMA StoredStep == TypeInv /\ NumberInv /\ KeysInv /\ StoredInv /\ [Next]_vars => StoredInv'
<1> SUFFICES ASSUME TypeInv, NumberInv, KeysInv, StoredInv, [Next]_vars, Whole' PROVE StoredParts'
  BY DEF StoredInv
<1>1. StoredParts
  BY MishapsStay DEF StoredInv, Whole
<1>2. CASE Logs
  BY <1>1, <1>2, StoredLogged
<1>3. CASE Midnight \/ UNCHANGED vars
  <2>1. UNCHANGED <<urls, warnings, matches, bypasses, todo, sniffer, deleted, pc, job>>
    BY <1>3 DEF Midnight, vars, tables, logging, history
  <2> QED BY <1>1, <2>1, StoredKept
<1>4. ASSUME NEW p \in Reporters, StepsOf(p) PROVE StoredParts'
  <2>1. CASE Generate(p)
    <3>1. PICK label, onward, j : ReadsOn(p, label, onward, j)
      BY <2>1, GenerateIs
    <3>2. /\ \A q \in Reporters : q # p => pc'[q] = pc[q] /\ job'[q] = job[q]
          /\ pc[p] \in Reading /\ job'[p].old = job[p].old
          /\ UNCHANGED <<urls, warnings, matches, bypasses, todo, sniffer, deleted>>
      BY <3>1, ReadsStep DEF SameReport
    <3>3. pc[p] # "idle"
      BY <3>2 DEF Reading
    <3> QED BY <1>1, <3>2, <3>3, StoredKept
  <2>2. CASE SaveAttachedReport(p)
    <3>1. PICK label, onward, j : SavesOn(p, label, onward, j)
      BY <2>2, SavingFiles, Zenon
    <3>2. /\ \A q \in Reporters : q # p => pc'[q] = pc[q] /\ job'[q] = job[q]
          /\ pc[p] = label /\ job'[p].old = job[p].old
          /\ UNCHANGED <<urls, warnings, matches, bypasses, todo, sniffer, deleted>>
      BY <3>1, SavesStep DEF SameOwner
    <3>3. pc[p] # "idle"
      BY <3>1, <3>2 DEF SavesOn
    <3> QED BY <1>1, <3>2, <3>3, StoredKept
  <2>3. CASE Started(p)
    <3>1. /\ \A q \in Reporters : q # p => pc'[q] = pc[q] /\ job'[q] = job[q]
          /\ job'[p].old = (Requests \cup Incidents) \ todo
      BY <2>3, EndsStep DEF EndsOn
    <3>2. /\ sniffer.pc = "idle"
          /\ UNCHANGED <<urls, warnings, matches, bypasses, todo, sniffer, deleted>>
      BY <2>3 DEF Started, Whole
    <3>3. job'[p].old \cap todo = {}
      BY <3>1
    <3> QED BY <1>1, <3>1, <3>2, <3>3, StoredKept
  <2>4. CASE Mailed(p) \/ GaveUp(p)
    <3>1. /\ \A q \in Reporters : q # p => pc'[q] = pc[q] /\ job'[q] = job[q]
          /\ pc[p] = "send" /\ (pc'[p] = "idle" \/ job'[p].old = job[p].old)
      BY <2>4, EndsStep DEF EndsOn
    <3>2. UNCHANGED <<urls, warnings, matches, bypasses, todo, sniffer, deleted>>
      BY <2>4 DEF Mailed, GaveUp
    <3> QED BY <1>1, <3>1, <3>2, StoredKept
  <2>5. CASE Rotated(p)
    BY <1>1, <2>5, StoredRotated
  <2> QED BY <1>4, <2>1, <2>2, <2>3, <2>4, <2>5 DEF StepsOf
<1> QED BY <1>2, <1>3, <1>4, NextIs

-----------------------------------------------------------------------------
\* More items say no less.
LEMMA HasMore ==
    ASSUME options' = options, NEW e, NEW items, NEW more, items \subseteq more
    PROVE  /\ \A part : Has(part, e, items) => Has(part, e, more)'
           /\ HasHistory(e, items) => HasHistory(e, more)'
<1>1. \A part : Has(part, e, items) => Has(part, e, more)'
  BY DEF Has
<1>2. HasHistory(e, items) => HasHistory(e, more)'
  BY DEF HasHistory, DoIncludePaths, DoSaveHistory
<1> QED BY <1>1, <1>2

LEMMA DueStays ==
    ASSUME options' = options, mailed \subseteq mailed'
    PROVE  \A e : Due(e) => Due(e)'
<1> SUFFICES ASSUME NEW e, Due(e) PROVE Due(e)'
  OBVIOUS
<1>1. \A part : Includes(part)' <=> Includes(part)
  BY DEF Includes
<1>2. (DoIncludePaths' <=> DoIncludePaths) /\ (DoSaveHistory' <=> DoSaveHistory)
  BY DEF DoIncludePaths, DoSaveHistory
<1>3. \A item \in mailed : item \in mailed'
  OBVIOUS
<1>4. CASE e \in Incidents
  BY <1>1, <1>3, <1>4 DEF Due
<1>5. CASE e \notin Incidents
  BY <1>1, <1>2, <1>3, <1>5 DEF Due
<1> QED BY <1>4, <1>5

\* A report is covered as before, while another one goes on.
LEMMA CoverKept ==
    ASSUME NEW q \in Reporters, NEW e, pc'[q] = pc[q], job'[q] = job[q], options' = options,
           deleted \subseteq deleted', mailed \subseteq mailed',
           \A u \in urls : u.request \notin deleted' => u \in urls',
           pc[q] \in {"attachFile", "send"} => \A f \in files' : f.by = job[q].report =>
               \E g \in files : g.by = f.by /\ g.content = f.content,
           Reported(q, e)
    PROVE  Reported(q, e)'
<1> SUFFICES ASSUME e \in job'[q].old, e \notin deleted'
             PROVE  /\ pc'[q] \notin {"idle", "rotate"} => Covers(q, e)'
                    /\ pc'[q] = "rotate" => Due(e)'
  BY DEF Reported
<1>1. e \in job[q].old /\ e \notin deleted
  OBVIOUS
<1>2. pc'[q] = "rotate" => Due(e)'
  BY <1>1, DueStays DEF Reported
<1>3. ASSUME pc'[q] \notin {"idle", "rotate"} PROVE Covers(q, e)'
  <2>1. Covers(q, e)
    BY <1>1, <1>3 DEF Reported
  <2>2. \A part, items : Has(part, e, items) => Has(part, e, items)'
    BY HasMore
  <2>3. \A items : HasHistory(e, items) => HasHistory(e, items)'
    BY HasMore
  <2>4. SectionsMade(q, e)'
    <3>1. SectionsMade(q, e)
      BY <2>1 DEF Covers
    <3> QED BY <2>2, <3>1 DEF SectionsMade, Pending
  <2>5. ASSUME pc'[q] = "getMatches" PROVE AmongRows(q, e)'
    <3>1. AmongRows(q, e)
      BY <2>1, <2>5 DEF Covers
    <3>2. \A row : IsRow(row, e) => IsRow(row, e)'
      BY DEF IsRow
    <3> QED BY <3>1, <3>2 DEF AmongRows
  <2>6. HistoryMade(q, e)'
    <3>1. HistoryMade(q, e)
      BY <2>1 DEF Covers
    <3>2. InHistory(q, e) => InHistory(q, e)'
      BY <2>3 DEF InHistory
    <3>3. DoIncludePaths' <=> DoIncludePaths
      BY DEF DoIncludePaths
    <3> QED BY <2>3, <3>1, <3>2, <3>3 DEF HistoryMade
  <2>7. ASSUME pc'[q] \in {"attachFile", "send"}, NEW f \in files', f.by = job'[q].report
        PROVE  InFile(e, f)'
    <3>1. PICK g \in files : g.by = f.by /\ g.content = f.content
      BY <2>7
    <3>2. InFile(e, g)
      BY <2>1, <2>7, <3>1 DEF Covers
    <3> QED BY <2>2, <2>3, <3>1, <3>2 DEF InFile
  <2> QED BY <2>4, <2>5, <2>6, <2>7 DEF Covers
<1> QED BY <1>2, <1>3

\* What is older than a report is in the tables while the report is under way.
LEMMA OldIsStored ==
    ASSUME StoredParts, NEW p \in Reporters, pc[p] # "idle", NEW e \in job[p].old, e \notin deleted
    PROVE  /\ e \in Incidents => e \in bypasses
           /\ e \in Requests => \E u \in urls :
                 /\ u.request = e
                 /\ Keywords[e] # {} => [urlId |-> u.rowid, match |-> e] \in warnings
                 /\ \A k \in Keywords[e] : [urlId |-> u.rowid, keyword |-> k] \in matches
<1>1. e \notin todo /\ ~Inserting(e)
  BY DEF StoredParts
<1>2. e \in Incidents => e \in bypasses
  BY <1>1 DEF StoredParts
<1>3. ASSUME e \in Requests
      PROVE  \E u \in urls :
                 /\ u.request = e
                 /\ Keywords[e] # {} => [urlId |-> u.rowid, match |-> e] \in warnings
                 /\ \A k \in Keywords[e] : [urlId |-> u.rowid, keyword |-> k] \in matches
  <2>1. PICK u \in urls : StoredAs(e, u)
    BY <1>1, <1>3 DEF StoredParts
  <2> QED BY <1>1, <2>1 DEF StoredAs
<1> QED BY <1>2, <1>3

\* A section that is added to a report.
Adds(new, j, part, items) ==
    /\ j.body \subseteq new.body /\ j.attached \subseteq new.attached
    /\ part \in options.body => items \subseteq new.body
    /\ part \in options.attached => items \subseteq new.attached

LEMMA SectionAdds ==
    ASSUME NEW j \in Job, NEW part, NEW items \in SUBSET Items
    PROVE  Adds(WithSection(j, part, items), j, part, items)
<1> DEFINE section == WithSection(j, part, items)
<1>1. /\ section.body = IF part \in options.body THEN j.body \cup items ELSE j.body
      /\ section.attached = IF part \in options.attached THEN j.attached \cup items ELSE j.attached
  BY WithSectionIs, ZenonT(60)
<1> HIDE DEF section
<1>2. Adds(section, j, part, items)
  BY <1>1 DEF Adds
<1> QED BY <1>2 DEF section

\* The sections, when one is made, and when none is.
LEMMA SectionCovers ==
    ASSUME NEW p \in Reporters, NEW e, NEW part, NEW items, options' = options,
           SectionsMade(p, e), Has(part, e, items), p \in Pending,
           Adds(job'[p], job[p], part, items),
           \A other \in Sections : pc'[p] \notin NotYet(other) => other = part \/ pc[p] \notin NotYet(other)
    PROVE  SectionsMade(p, e)'
<1>1. /\ job[p].body \subseteq job'[p].body /\ job[p].attached \subseteq job'[p].attached
      /\ part \in options.body => items \subseteq job'[p].body
      /\ part \in options.attached => items \subseteq job'[p].attached
  BY DEF Adds
<1> SUFFICES ASSUME NEW other \in Sections, pc'[p] \notin NotYet(other)
             PROVE  /\ other \in options'.body => Has(other, e, job[p].body)'
                    /\ other \in options'.attached => Has(other, e, job[p].attached)'
  BY DEF SectionsMade, NotYet, Sections
<1>4. CASE other = part
  BY <1>1, <1>4, HasMore
<1>5. CASE other # part
  <2>1. /\ other \in options.body => Has(other, e, job[p].body)
        /\ other \in options.attached => Has(other, e, job[p].attached)
    BY <1>5 DEF SectionsMade
  <2> QED BY <1>1, <2>1, HasMore
<1> QED BY <1>4, <1>5

LEMMA SectionsKept ==
    ASSUME NEW p \in Reporters, NEW e, options' = options, SectionsMade(p, e),
           job'[p].body = job[p].body,
           p \in Pending' => p \in Pending /\ job[p].attached \subseteq job'[p].attached,
           \A other \in Sections : pc'[p] \notin NotYet(other) => pc[p] \notin NotYet(other)
    PROVE  SectionsMade(p, e)'
<1> SUFFICES ASSUME NEW other \in Sections, pc'[p] \notin NotYet(other)
             PROVE  /\ other \in options'.body => Has(other, e, job[p].body)'
                    /\ other \in options'.attached /\ p \in Pending' => Has(other, e, job[p].attached)'
  BY DEF SectionsMade, NotYet, Sections
<1>1. /\ other \in options.body => Has(other, e, job[p].body)
      /\ other \in options.attached /\ p \in Pending => Has(other, e, job[p].attached)
  BY DEF SectionsMade
<1> QED BY <1>1, HasMore

-----------------------------------------------------------------------------
\* The sections that one statement makes cover what is older than the report.
LEMMA BypassesCover ==
    ASSUME TypeInv, StoredParts, NEW p \in Reporters, GetBypasses(p),
           NEW e \in job[p].old, e \notin deleted, Covers(p, e)
    PROVE  Covers(p, e)'
<1>1. /\ ReadsOn(p, "getBypasses", "getWarnings", WithSection(job[p], "bypasses", BypassItems))
      /\ BypassItems \in SUBSET Items /\ job[p] \in Job
  BY SectionReads DEF TypeInv, ReportersType
<1>2. /\ pc[p] = "getBypasses" /\ pc'[p] = "getWarnings"
      /\ job'[p] = WithSection(job[p], "bypasses", BypassItems) /\ options' = options
  BY <1>1, ReadsStep
<1>3. Adds(job'[p], job[p], "bypasses", BypassItems)
  BY <1>1, <1>2, SectionAdds
<1>4. e \in Incidents => <<"bypass", e>> \in BypassItems
  BY <1>2, OldIsStored DEF BypassItems
<1>5. Has("bypasses", e, BypassItems)
  BY <1>4 DEF Has
<1>6. SectionsMade(p, e) /\ p \in Pending
  BY <1>2 DEF Covers, Pending, Reading
<1>7. \A other \in Sections : pc'[p] \notin NotYet(other) => other = "bypasses" \/ pc[p] \notin NotYet(other)
  BY <1>2 DEF Sections, NotYet
<1>8. SectionsMade(p, e)'
  BY <1>2, <1>3, <1>5, <1>6, <1>7, SectionCovers
<1> QED BY <1>2, <1>8 DEF Covers, HistoryMade

LEMMA WhitelistCovers ==
    ASSUME TypeInv, StoredParts, NEW p \in Reporters, GetWhitelist(p),
           NEW e \in job[p].old, e \notin deleted, Covers(p, e)
    PROVE  Covers(p, e)'
<1>1. /\ ReadsOn(p, "getWhitelist", "getHostnames", WithSection(job[p], "whitelist", WhitelistItems))
      /\ WhitelistItems \in SUBSET Items /\ job[p] \in Job
  BY SectionReads DEF TypeInv, ReportersType
<1>2. /\ pc[p] = "getWhitelist" /\ pc'[p] = "getHostnames"
      /\ job'[p] = WithSection(job[p], "whitelist", WhitelistItems) /\ options' = options
  BY <1>1, ReadsStep
<1>3. Adds(job'[p], job[p], "whitelist", WhitelistItems)
  BY <1>1, <1>2, SectionAdds
<1>4. ASSUME e \in Whitelisted, Keywords[e] # {} PROVE <<"whitelist", e>> \in WhitelistItems
  <2>1. e \in Requests
    BY <1>4, ReportAssumption
  <2>2. PICK u \in urls : u.request = e /\ [urlId |-> u.rowid, match |-> e] \in warnings
    BY <1>2, <1>4, <2>1, OldIsStored
  <2> DEFINE row == [urlId |-> u.rowid, url |-> u.request, match |-> e, keywords |-> {}]
  <2>3. row \in Joined(TRUE)
    <3>1. PICK w \in warnings : w.urlId = u.rowid /\ w.match = e
      BY <2>2
    <3>2. (w.match \in Whitelisted) = TRUE /\ TRUE \in BOOLEAN
      BY <1>4, <3>1
    <3> QED BY <2>2, <3>1, <3>2, JoinedIs
  <2>4. row.url = e
    BY <2>2
  <2> HIDE DEF row
  <2> QED BY <2>3, <2>4 DEF WhitelistItems
<1>5. Has("whitelist", e, WhitelistItems)
  BY <1>4 DEF Has
<1>6. SectionsMade(p, e) /\ p \in Pending
  BY <1>2 DEF Covers, Pending, Reading
<1>7. \A other \in Sections : pc'[p] \notin NotYet(other) => other = "whitelist" \/ pc[p] \notin NotYet(other)
  BY <1>2 DEF Sections, NotYet
<1>8. SectionsMade(p, e)'
  BY <1>2, <1>3, <1>5, <1>6, <1>7, SectionCovers
<1> QED BY <1>2, <1>8 DEF Covers, HistoryMade

\* The rows of the warnings have what is flagged.
LEMMA FlaggedIsRow ==
    ASSUME TypeInv, StoredParts, NEW p \in Reporters, pc[p] # "idle",
           NEW e \in job[p].old, e \notin deleted,
           e \in Requests \ Whitelisted, Strength[e] >= options.threshold, Keywords[e] # {}
    PROVE  \E row \in FlaggedRows : IsRow(row, e)
<1>1. PICK u \in urls : u.request = e /\ [urlId |-> u.rowid, match |-> e] \in warnings
  BY OldIsStored
<1> DEFINE row == [urlId |-> u.rowid, url |-> u.request, match |-> e, keywords |-> {}]
<1>2. row \in Joined(FALSE)
  <2>1. PICK w \in warnings : w.urlId = u.rowid /\ w.match = e
    BY <1>1
  <2>2. (w.match \in Whitelisted) = FALSE /\ FALSE \in BOOLEAN
    BY <2>1
  <2> QED BY <1>1, <2>1, <2>2, JoinedIs
<1>3. row.match = e /\ row.url = e /\ row.urlId = u.rowid
  BY <1>1
<1> HIDE DEF row
<1>4. row \in FlaggedRows
  BY <1>2, <1>3 DEF FlaggedRows
<1> QED BY <1>1, <1>3, <1>4 DEF IsRow

LEMMA WarningsCover ==
    ASSUME TypeInv, StoredParts, NEW p \in Reporters, GetWarnings(p),
           NEW e \in job[p].old, e \notin deleted, Covers(p, e)
    PROVE  Covers(p, e)'
<1> DEFINE onward == IF FlaggedRows = {} THEN "getWhitelist" ELSE "getMatches"
           s == SetToSeq(FlaggedRows)
<1>1. ReadsOn(p, "getWarnings", onward, WithRows(job[p], s, 1)) /\ job[p] \in Job
  BY WarningsReads DEF WarningsRead, TypeInv, ReportersType
<1>2. /\ pc[p] = "getWarnings" /\ pc'[p] = onward
      /\ job'[p] = WithRows(job[p], s, 1) /\ options' = options /\ urls' = urls
  BY <1>1, ReadsStep
<1>3. /\ s \in Seq(SectionRow)
      /\ \A row \in FlaggedRows : \E n \in 1..Len(s) : s[n] = row
  BY FlaggedAre
<1>4. /\ job'[p].rows = s /\ job'[p].index = 1
      /\ job'[p].body = job[p].body /\ job'[p].attached = job[p].attached
  BY <1>1, <1>2, <1>3, WithRowsIs
<1>5. SectionsMade(p, e) /\ p \in Pending
  BY <1>2 DEF Covers, Pending, Reading
<1>6. pc[p] # "idle"
  BY <1>2
<1>7. CASE FlaggedRows = {}
  <2>1. pc'[p] = "getWhitelist"
    BY <1>2, <1>7
  <2>2. ~(e \in Requests \ Whitelisted /\ Strength[e] >= options.threshold /\ Keywords[e] # {})
    BY <1>6, <1>7, FlaggedIsRow
  <2>3. Has("warnings", e, {})
    BY <2>2 DEF Has
  <2>4. \A other \in Sections : pc'[p] \notin NotYet(other) => other = "warnings" \/ pc[p] \notin NotYet(other)
    BY <1>2, <2>1 DEF Sections, NotYet
  <2>5. Adds(job'[p], job[p], "warnings", {})
    BY <1>4 DEF Adds
  <2>6. SectionsMade(p, e)'
    BY <1>2, <1>5, <2>3, <2>4, <2>5, SectionCovers
  <2> QED BY <2>1, <2>6 DEF Covers, HistoryMade
<1>8. CASE FlaggedRows # {}
  <2>1. pc'[p] = "getMatches" /\ p \in Pending'
    BY <1>2, <1>8 DEF Pending, Reading
  <2>2. \A other \in Sections : pc'[p] \notin NotYet(other) => pc[p] \notin NotYet(other)
    BY <1>2, <2>1 DEF Sections, NotYet
  <2>3. SectionsMade(p, e)'
    BY <1>2, <1>4, <1>5, <2>1, <2>2, SectionsKept
  <2>4. ASSUME e \in Requests \ Whitelisted, Strength[e] >= options.threshold, Keywords[e] # {}
        PROVE  AmongRows(p, e)'
    <3>1. PICK row \in FlaggedRows : IsRow(row, e)
      BY <1>6, <2>4, FlaggedIsRow
    <3>2. PICK n \in 1..Len(s) : s[n] = row
      BY <1>3
    <3>3. n \in 1..Len(job'[p].rows) /\ job'[p].rows[n] = row /\ ~(n < job'[p].index)
      BY <1>3, <1>4, <3>2
    <3>4. row.url = e /\ row.match = e /\ \E u \in urls' : u.request = e /\ u.rowid = row.urlId
      BY <1>2, <3>1 DEF IsRow
    <3> QED BY <3>3, <3>4 DEF AmongRows, IsRow
  <2>5. AmongRows(p, e)'
    BY <1>2, <2>4 DEF AmongRows
  <2> QED BY <2>1, <2>3, <2>5 DEF Covers, HistoryMade
<1> QED BY <1>7, <1>8

\* The keywords of a row are found by its rowid, which leads to one request.
LEMMA FoundCover ==
    ASSUME TypeInv, KeysInv, StoredParts, NEW p \in Reporters, pc[p] = "getMatches",
           NEW e \in job[p].old, e \notin deleted, e \in Requests,
           IsRow(job[p].rows[job[p].index], e)
    PROVE  Keywords[e] \subseteq Found(p)
<1>1. PICK u \in urls : /\ u.request = e
                        /\ \A k \in Keywords[e] : [urlId |-> u.rowid, keyword |-> k] \in matches
  BY OldIsStored, ZenonT(60)
<1>2. PICK v \in urls : v.request = e /\ v.rowid = job[p].rows[job[p].index].urlId
  BY DEF IsRow
<1>3. u = v
  BY <1>1, <1>2 DEF KeysInv
<1> SUFFICES ASSUME NEW k \in Keywords[e] PROVE k \in Found(p)
  OBVIOUS
<1>4. PICK m \in matches : m.urlId = job[p].rows[job[p].index].urlId /\ m.keyword = k
  BY <1>1, <1>2, <1>3
<1> QED BY <1>4 DEF Found

\* The row of a flagged request, when the keywords of the row at the index are read.
LEMMA RowCovers ==
    ASSUME TypeInv, KeysInv, StoredParts, NEW p \in Reporters, pc[p] = "getMatches",
           NEW e \in job[p].old, e \notin deleted, AmongRows(p, e),
           e \in Requests \ Whitelisted, Strength[e] >= options.threshold, Keywords[e] # {}
    PROVE  \E n \in 1..Len(job[p].rows) :
              /\ IsRow(RowsWith(p)[n], e)
              /\ n < job[p].index + 1 => Keywords[e] \subseteq RowsWith(p)[n].keywords
<1> DEFINE rows == job[p].rows
           index == job[p].index
<1>1. PICK n \in 1..Len(rows) : IsRow(rows[n], e) /\ (n < index => Keywords[e] \subseteq rows[n].keywords)
  BY DEF AmongRows
<1>2. /\ RowsWith(p)[n] = IF n = index THEN [rows[n] EXCEPT !.keywords = Found(p)] ELSE rows[n]
      /\ rows \in Seq(SectionRow) /\ index \in 1..Len(rows)
  BY RowsWithAre
<1>3. n = index => Keywords[e] \subseteq Found(p)
  BY <1>1, FoundCover
<1>4. rows[n] \in SectionRow
  BY <1>2
<1>5. n \in Nat /\ index \in Nat
  BY <1>2
<1> HIDE DEF rows, index
<1>6. CASE n = index
  <2> DEFINE new == [rows[n] EXCEPT !.keywords = Found(p)]
  <2>1. RowsWith(p)[n] = new
    BY <1>2, <1>6
  <2>2. new.urlId = rows[n].urlId /\ new.url = rows[n].url /\ new.match = rows[n].match /\ new.keywords = Found(p)
    BY <1>4 DEF SectionRow
  <2> HIDE DEF new
  <2>3. IsRow(new, e)
    BY <1>1, <2>2 DEF IsRow
  <2>4. Keywords[e] \subseteq new.keywords
    BY <1>3, <1>6, <2>2
  <2> QED BY <2>1, <2>3, <2>4 DEF rows, index
<1>7. CASE n # index
  <2>1. RowsWith(p)[n] = rows[n]
    BY <1>2, <1>7
  <2>2. n < index + 1 => n < index
    BY <1>5, <1>7
  <2> QED BY <1>1, <2>1, <2>2 DEF rows, index
<1> QED BY <1>6, <1>7

LEMMA MatchesCover ==
    ASSUME TypeInv, KeysInv, StoredParts, NEW p \in Reporters, GetMatches(p),
           NEW e \in job[p].old, e \notin deleted, Covers(p, e)
    PROVE  Covers(p, e)'
<1>1. job[p] \in Job /\ pc[p] = "getMatches" /\ MatchesRead(p)
  BY MatchesReads DEF GetMatches, TypeInv, ReportersType
<1>2. /\ RowsWith(p) \in Seq(SectionRow) /\ Len(RowsWith(p)) = Len(job[p].rows)
      /\ job[p].index \in 1..Len(job[p].rows)
      /\ Len(job[p].rows) \in Nat
  BY <1>1, RowsWithAre
<1>3. SectionsMade(p, e) /\ p \in Pending /\ AmongRows(p, e)
  BY <1>1 DEF Covers, Pending, Reading
<1>4. ASSUME e \in Requests \ Whitelisted, Strength[e] >= options.threshold, Keywords[e] # {}
      PROVE  \E n \in 1..Len(job[p].rows) :
              /\ IsRow(RowsWith(p)[n], e)
              /\ n < job[p].index + 1 => Keywords[e] \subseteq RowsWith(p)[n].keywords
  BY <1>1, <1>3, <1>4, RowCovers
<1>5. CASE job[p].index < Len(job[p].rows)
  <2>1. ReadsOn(p, "getMatches", "getMatches", WithRows(job[p], RowsWith(p), job[p].index + 1))
    BY <1>1, <1>5 DEF MatchesRead
  <2>2. /\ pc'[p] = "getMatches" /\ options' = options /\ urls' = urls
        /\ job'[p] = WithRows(job[p], RowsWith(p), job[p].index + 1)
    BY <2>1, ReadsStep
  <2>3. job[p].index + 1 \in Nat
    BY <1>2
  <2>4. /\ job'[p].rows = RowsWith(p) /\ job'[p].index = job[p].index + 1
        /\ job'[p].body = job[p].body /\ job'[p].attached = job[p].attached
    <3> DEFINE new == WithRows(job[p], RowsWith(p), job[p].index + 1)
    <3>1. /\ new.rows = RowsWith(p) /\ new.index = job[p].index + 1
          /\ new.body = job[p].body /\ new.attached = job[p].attached
      BY <1>1, <1>2, <2>3, WithRowsIs, SMTT(60)
    <3>2. job'[p] = new
      BY <2>2
    <3> HIDE DEF new
    <3> QED BY <3>1, <3>2
  <2>5. SectionsMade(p, e)'
    BY <1>1, <1>3, <2>2, <2>4, SectionsKept
  <2>6. ASSUME e \in Requests \ Whitelisted, Strength[e] >= options.threshold, Keywords[e] # {}
        PROVE  AmongRows(p, e)'
    <3>1. PICK n \in 1..Len(job[p].rows) :
              /\ IsRow(RowsWith(p)[n], e)
              /\ n < job[p].index + 1 => Keywords[e] \subseteq RowsWith(p)[n].keywords
      BY <1>4, <2>6
    <3>2. PICK row : row = RowsWith(p)[n]
      OBVIOUS
    <3>3. /\ n \in 1..Len(job'[p].rows) /\ job'[p].rows[n] = row
          /\ n < job'[p].index => Keywords[e] \subseteq row.keywords
      BY <1>2, <2>4, <3>1, <3>2
    <3>4. row.url = e /\ row.match = e /\ \E u \in urls' : u.request = e /\ u.rowid = row.urlId
      BY <2>2, <3>1, <3>2 DEF IsRow
    <3> QED BY <3>3, <3>4 DEF AmongRows, IsRow
  <2>7. AmongRows(p, e)'
    BY <2>2, <2>6 DEF AmongRows
  <2> QED BY <2>2, <2>5, <2>7 DEF Covers, HistoryMade
<1>6. CASE ~(job[p].index < Len(job[p].rows))
  <2> DEFINE items == WarningItems(RowsWith(p))
             section == WithSection(job[p], "warnings", items)
  <2>1. ReadsOn(p, "getMatches", "getWhitelist", WithRows(section, <<>>, 0))
    BY <1>1, <1>6 DEF MatchesRead
  <2>2. pc'[p] = "getWhitelist" /\ options' = options /\ job'[p] = WithRows(section, <<>>, 0)
    BY <2>1, ReadsStep
  <2>3. items \in SUBSET Items
    BY <1>2, WarningItemsAre
  <2>4. Adds(section, job[p], "warnings", items) /\ section \in Job
    <3> HIDE DEF items
    <3> QED BY <1>1, <2>3, SectionAdds, WithSectionIs
  <2>5. ASSUME e \in Requests \ Whitelisted, Strength[e] >= options.threshold, NEW k \in Keywords[e]
        PROVE  <<"warning", k, e, e>> \in items
    <3>1. PICK n \in 1..Len(job[p].rows) :
              /\ IsRow(RowsWith(p)[n], e)
              /\ n < job[p].index + 1 => Keywords[e] \subseteq RowsWith(p)[n].keywords
      BY <1>4, <2>5
    <3>2. n < job[p].index + 1
      BY <1>2, <1>6, <3>1
    <3>3. n \in 1..Len(RowsWith(p)) /\ k \in RowsWith(p)[n].keywords
      BY <1>2, <2>5, <3>1, <3>2
    <3>4. RowsWith(p)[n].url = e /\ RowsWith(p)[n].match = e
      BY <3>1 DEF IsRow
    <3>5. <<"warning", k, RowsWith(p)[n].url, RowsWith(p)[n].match>> \in items
      BY <1>2, <3>3, WarningItemsAre
    <3> QED BY <3>4, <3>5
  <2>6. Has("warnings", e, items)
    BY <2>5 DEF Has
  <2>7. <<>> \in Seq(SectionRow) /\ 0 \in Nat
    OBVIOUS
  <2> HIDE DEF section
  <2>8. job'[p].body = section.body /\ job'[p].attached = section.attached
    <3> DEFINE new == WithRows(section, <<>>, 0)
    <3>1. new.body = section.body /\ new.attached = section.attached
      BY <2>4, <2>7, WithRowsIs
    <3>2. job'[p] = new
      BY <2>2
    <3> HIDE DEF new
    <3> QED BY <3>1, <3>2
  <2> HIDE DEF items
  <2>9. Adds(job'[p], job[p], "warnings", items)
    BY <2>4, <2>8 DEF Adds
  <2>10. \A other \in Sections : pc'[p] \notin NotYet(other) => other = "warnings" \/ pc[p] \notin NotYet(other)
    BY <1>1, <2>2 DEF Sections, NotYet
  <2>11. PICK set : set = items
    OBVIOUS
  <2>12. Has("warnings", e, set) /\ Adds(job'[p], job[p], "warnings", set)
    BY <2>6, <2>9, <2>11
  <2>13. SectionsMade(p, e)'
    BY <1>3, <2>2, <2>10, <2>12, SectionCovers
  <2> QED BY <2>2, <2>13 DEF Covers, HistoryMade
<1> QED BY <1>5, <1>6

-----------------------------------------------------------------------------
\* A URL in the tables has its domain among those that are looked at, and its
\* hostname among those of that domain.
LEMMA HistoryFinds ==
    ASSUME TypeInv, NEW u \in urls
    PROVE  /\ Domain[Host[u.request]] \in UrlDomains
           /\ Host[u.request] \in HostsIn(Domain[Host[u.request]])
           /\ u.request \in PathsOf(Host[u.request])
<1>1. u.request \in Requests
  BY DEF TypeInv, TablesType, UrlRow
<1>2. <<Host[u.request], Domain[Host[u.request]]>> \in EndsIn
  BY <1>1, ConstantsAre
<1>3. Host[u.request] \in {Host[v.request] : v \in urls}
  OBVIOUS
<1>4. u.request \in PathsOf(Host[u.request])
  BY DEF PathsOf
<1> QED BY <1>2, <1>3, <1>4 DEF UrlDomains, HostsIn

LEMMA OldIsUrl ==
    ASSUME TypeInv, StoredParts, NEW p \in Reporters, pc[p] # "idle",
           NEW e \in job[p].old, e \notin deleted, e \in Requests
    PROVE  /\ Domain[Host[e]] \in UrlDomains
           /\ Host[e] \in HostsIn(Domain[Host[e]])
           /\ e \in PathsOf(Host[e])
<1>1. PICK u \in urls : u.request = e
  BY OldIsStored
<1> QED BY <1>1, HistoryFinds

\* What is listed is in the history.
LEMMA ListedIs ==
    ASSUME NEW p \in Reporters, NEW e, NEW listed, listed = job'[p].listed, HasHistory(e, listed)'
    PROVE  InHistory(p, e)'
BY DEF InHistory, HasHistory

\* The history, as far as it is made, covers what is older than the report.
LEMMA DomainsCover ==
    ASSUME TypeInv, StoredParts, NEW p \in Reporters, GetHostnames(p),
           NEW e \in job[p].old, e \notin deleted, Covers(p, e)
    PROVE  Covers(p, e)'
<1>1. /\ ReadsOn(p, "getHostnames", "getDomainHostnames", WithDomains(job[p], UrlDomains))
      /\ job[p] \in Job /\ options \in Configurations
  BY HistoryReads DEF DomainsRead, TypeInv, ReportersType
<1>2. UrlDomains \in SUBSET Range(Domain)
  <2>1. \A u \in urls : u.request \in Requests
    BY DEF TypeInv, TablesType, UrlRow
  <2> QED BY <2>1, ConstantsAre DEF UrlDomains
<1> DEFINE new == WithDomains(job[p], UrlDomains)
<1>3. new.domains = UrlDomains /\ new.body = job[p].body /\ new.attached = job[p].attached
  BY <1>1, <1>2, WithDomainsIs
<1>4. /\ pc[p] = "getHostnames" /\ pc'[p] = "getDomainHostnames" /\ options' = options
      /\ job'[p] = new
  BY <1>1, ReadsStep
<1> HIDE DEF new
<1>5. /\ job'[p].domains = UrlDomains
      /\ job'[p].body = job[p].body /\ job'[p].attached = job[p].attached
  BY <1>3, <1>4
<1>6. SectionsMade(p, e)'
  <2>1. SectionsMade(p, e) /\ p \in Pending
    BY <1>4 DEF Covers, Pending, Reading
  <2>2. \A other \in Sections : pc'[p] \notin NotYet(other) => pc[p] \notin NotYet(other)
    BY <1>4 DEF Sections, NotYet
  <2> QED BY <1>4, <1>5, <2>1, <2>2, SectionsKept
<1>7. e \in Requests => Domain[Host[e]] \in job'[p].domains
  BY <1>4, <1>5, OldIsUrl
<1>8. InHistory(p, e)'
  BY <1>7 DEF InHistory
<1> QED BY <1>4, <1>6, <1>8 DEF Covers, HistoryMade

LEMMA HostnamesCover ==
    ASSUME TypeInv, StoredParts, NEW p \in Reporters, GetDomainHostnames(p),
           NEW e \in job[p].old, e \notin deleted, Covers(p, e)
    PROVE  Covers(p, e)'
<1>1. HostnamesRead(p) /\ job[p] \in Job /\ job[p].domains \subseteq Range(Domain)
  BY HistoryReads DEF TypeInv, ReportersType, Job
<1>2. PICK d : d = NextDomain(p)
  OBVIOUS
<1>3. d \in job[p].domains /\ d \in Range(Domain)
  BY <1>1, <1>2 DEF HostnamesRead
<1>4. HostsIn(d) \in SUBSET Hosts /\ HostItems(d) \in SUBSET Items
  BY <1>3, HistoryItemsAre
<1>5. pc[p] = "getDomainHostnames" => InHistory(p, e) /\ SectionsMade(p, e) /\ p \in Pending
  BY DEF Covers, HistoryMade, Pending, Reading
<1>6. CASE DoIncludePaths /\ HostsIn(d) # {}
  <2> DEFINE new == WithDomain(job[p], d, HostsIn(d))
  <2>1. /\ new.domains = job[p].domains \ {d} /\ new.domain = d /\ new.hosts = HostsIn(d)
        /\ new.body = job[p].body /\ new.attached = job[p].attached /\ new.listed = job[p].listed
    BY <1>1, <1>3, <1>4, WithDomainIs
  <2>2. ReadsOn(p, "getDomainHostnames", "getHistory", new)
    BY <1>1, <1>2, <1>6 DEF HostnamesRead
  <2>3. /\ pc[p] = "getDomainHostnames" /\ pc'[p] = "getHistory" /\ options' = options
        /\ job'[p] = new
    BY <2>2, ReadsStep
  <2> HIDE DEF new
  <2>4. /\ job'[p].domains = job[p].domains \ {d} /\ job'[p].domain = d /\ job'[p].hosts = HostsIn(d)
        /\ job'[p].body = job[p].body /\ job'[p].attached = job[p].attached
        /\ job'[p].listed = job[p].listed
    BY <2>1, <2>3
  <2>5. SectionsMade(p, e)'
    <3>1. \A other \in Sections : pc'[p] \notin NotYet(other) => pc[p] \notin NotYet(other)
      BY <2>3 DEF Sections, NotYet
    <3> QED BY <1>5, <2>3, <2>4, <3>1, SectionsKept
  <2>6. InHistory(p, e)'
    <3>1. CASE e \notin Requests
      BY <3>1 DEF InHistory
    <3>2. CASE e \in Requests /\ Domain[Host[e]] = d
      <4>1. Host[e] \in HostsIn(d)
        BY <2>3, <3>2, OldIsUrl
      <4> QED BY <2>3, <2>4, <3>2, <4>1 DEF InHistory
    <3>3. CASE e \in Requests /\ Domain[Host[e]] # d
      <4>1. Domain[Host[e]] \in job[p].domains \/ HasHistory(e, job[p].listed)
        BY <1>5, <2>3, <3>3 DEF InHistory
      <4>2. PICK listed : listed = job'[p].listed
        OBVIOUS
      <4>3. HasHistory(e, job[p].listed) => HasHistory(e, listed)'
        BY <2>3, <2>4, <4>2, HasMore
      <4>4. CASE HasHistory(e, job[p].listed)
        BY <4>2, <4>3, <4>4, ListedIs
      <4>5. CASE Domain[Host[e]] \in job[p].domains
        BY <2>4, <3>3, <4>5 DEF InHistory
      <4> QED BY <4>1, <4>4, <4>5
    <3> QED BY <3>1, <3>2, <3>3
  <2>7. DoIncludePaths'
    BY <1>6, <2>3 DEF DoIncludePaths
  <2> QED BY <2>3, <2>5, <2>6, <2>7 DEF Covers, HistoryMade
<1>7. CASE ~(DoIncludePaths /\ HostsIn(d) # {})
  <2> DEFINE new == WithHostnames(job[p], d, HostItems(d))
  <2>1. /\ new.domains = job[p].domains \ {d} /\ new.listed = job[p].listed \cup HostItems(d)
        /\ new.body = job[p].body /\ new.attached = job[p].attached
    BY <1>1, <1>3, <1>4, WithHostnamesIs
  <2>2. ReadsOn(p, "getDomainHostnames", "getDomainHostnames", new)
    BY <1>1, <1>2, <1>7 DEF HostnamesRead
  <2>3. /\ pc[p] = "getDomainHostnames" /\ pc'[p] = "getDomainHostnames" /\ options' = options
        /\ job'[p] = new
    BY <2>2, ReadsStep
  <2> HIDE DEF new
  <2>4. /\ job'[p].domains = job[p].domains \ {d}
        /\ job'[p].body = job[p].body /\ job'[p].attached = job[p].attached
        /\ job'[p].listed = job[p].listed \cup HostItems(d)
    BY <2>1, <2>3
  <2>5. SectionsMade(p, e)'
    BY <1>5, <2>3, <2>4, SectionsKept
  <2>6. InHistory(p, e)'
    <3>1. CASE e \notin Requests
      BY <3>1 DEF InHistory
    <3>2. CASE e \in Requests /\ Domain[Host[e]] = d
      <4>1. Host[e] \in HostsIn(d)
        BY <2>3, <3>2, OldIsUrl
      <4>2. ~DoIncludePaths /\ <<"host", d, Host[e]>> \in job'[p].listed
        BY <1>7, <2>4, <4>1 DEF HostItems
      <4>3. PICK listed : listed = job'[p].listed
        OBVIOUS
      <4>4. HasHistory(e, listed)'
        BY <2>3, <3>2, <4>2, <4>3 DEF HasHistory, DoIncludePaths
      <4> QED BY <4>3, <4>4, ListedIs
    <3>3. CASE e \in Requests /\ Domain[Host[e]] # d
      <4>1. Domain[Host[e]] \in job[p].domains \/ HasHistory(e, job[p].listed)
        BY <1>5, <2>3, <3>3 DEF InHistory
      <4>2. PICK listed : listed = job'[p].listed
        OBVIOUS
      <4>3. HasHistory(e, job[p].listed) => HasHistory(e, listed)'
        BY <2>3, <2>4, <4>2, HasMore
      <4>4. CASE HasHistory(e, job[p].listed)
        BY <4>2, <4>3, <4>4, ListedIs
      <4>5. CASE Domain[Host[e]] \in job[p].domains
        BY <2>4, <3>3, <4>5 DEF InHistory
      <4> QED BY <4>1, <4>4, <4>5
    <3> QED BY <3>1, <3>2, <3>3
  <2> QED BY <2>3, <2>5, <2>6 DEF Covers, HistoryMade
<1> QED BY <1>6, <1>7

LEMMA PathsCover ==
    ASSUME TypeInv, StoredParts, NEW p \in Reporters, GetHistory(p),
           NEW e \in job[p].old, e \notin deleted, Covers(p, e)
    PROVE  Covers(p, e)'
<1> DEFINE onward == IF job[p].hosts = {NextHost(p)} THEN "getDomainHostnames" ELSE "getHistory"
<1>1. PathsRead(p) /\ job[p] \in Job
  BY HistoryReads DEF TypeInv, ReportersType
<1>2. PICK h : h = NextHost(p)
  OBVIOUS
<1> DEFINE new == WithPaths(job[p], h, PathItems(job[p].domain, h))
<1>3. h \in job[p].hosts /\ ReadsOn(p, "getHistory", onward, new)
  BY <1>1, <1>2 DEF PathsRead
<1>4. /\ pc[p] = "getHistory" /\ pc'[p] = onward /\ options' = options
      /\ job'[p] = new
  BY <1>3, ReadsStep
<1>5. job[p].domain \in Range(Domain)
  BY <1>4 DEF TypeInv, ReportersType
<1>6. PathItems(job[p].domain, h) \in SUBSET Items
  BY <1>5, HistoryItemsAre
<1>7. /\ new.domains = job[p].domains /\ new.domain = job[p].domain /\ new.hosts = job[p].hosts \ {h}
      /\ new.listed = job[p].listed \cup PathItems(job[p].domain, h)
      /\ new.body = job[p].body /\ new.attached = job[p].attached
  BY <1>1, <1>6, WithPathsIs
<1> HIDE DEF new
<1>8. /\ job'[p].domains = job[p].domains /\ job'[p].domain = job[p].domain
      /\ job'[p].hosts = job[p].hosts \ {h}
      /\ job'[p].listed = job[p].listed \cup PathItems(job[p].domain, h)
      /\ job'[p].body = job[p].body /\ job'[p].attached = job[p].attached
  BY <1>4, <1>7
<1>9. /\ pc'[p] \in {"getDomainHostnames", "getHistory"}
      /\ job[p].hosts # {h} => pc'[p] = "getHistory"
  BY <1>2, <1>4
<1>10. InHistory(p, e) /\ DoIncludePaths /\ SectionsMade(p, e) /\ p \in Pending
  BY <1>4 DEF Covers, HistoryMade, Pending, Reading
<1>11. SectionsMade(p, e)'
  <2>1. \A other \in Sections : pc'[p] \notin NotYet(other) => pc[p] \notin NotYet(other)
    BY <1>4, <1>9 DEF Sections, NotYet
  <2> QED BY <1>4, <1>8, <1>10, <2>1, SectionsKept
<1>12. DoIncludePaths'
  BY <1>4, <1>10 DEF DoIncludePaths
<1>13. InHistory(p, e)'
  <2>1. CASE e \notin Requests \/ Domain[Host[e]] \in job[p].domains
    BY <1>8, <2>1 DEF InHistory
  <2>2. CASE HasHistory(e, job[p].listed)
    <3>1. PICK listed : listed = job'[p].listed
      OBVIOUS
    <3>2. HasHistory(e, listed)'
      BY <1>4, <1>8, <2>2, <3>1, HasMore
    <3> QED BY <3>1, <3>2, ListedIs
  <2>3. CASE e \in Requests /\ job[p].domain = Domain[Host[e]] /\ Host[e] \in job[p].hosts
    <3>1. CASE Host[e] = h
      <4>1. e \in PathsOf(h)
        BY <1>4, <2>3, <3>1, OldIsUrl
      <4>2. <<"path", Domain[Host[e]], e>> \in job'[p].listed
        BY <1>8, <2>3, <4>1 DEF PathItems
      <4>3. PICK listed : listed = job'[p].listed
        OBVIOUS
      <4>4. HasHistory(e, listed)'
        BY <1>12, <4>2, <4>3 DEF HasHistory
      <4> QED BY <4>3, <4>4, ListedIs
    <3>2. CASE Host[e] # h
      <4>1. pc'[p] = "getHistory" /\ Host[e] \in job'[p].hosts
        BY <1>8, <1>9, <2>3, <3>2
      <4> QED BY <1>8, <2>3, <4>1 DEF InHistory
    <3> QED BY <3>1, <3>2
  <2> QED BY <1>10, <2>1, <2>2, <2>3 DEF InHistory
<1> QED BY <1>9, <1>11, <1>12, <1>13 DEF Covers, HistoryMade

LEMMA HistoryCovers ==
    ASSUME TypeInv, NEW p \in Reporters, MakeHistory(p), NEW e, Covers(p, e)
    PROVE  Covers(p, e)'
<1>1. /\ ReadsOn(p, "getDomainHostnames", "listDirectory", WithHistory(job[p]))
      /\ job[p] \in Job /\ job[p].domains = {}
  BY HistoryReads DEF HistoryRead, TypeInv, ReportersType
<1> DEFINE new == WithHistory(job[p])
<1>2. /\ new.body = job[p].body
      /\ new.attached = IF DoSaveHistory THEN job[p].attached \cup job[p].listed ELSE job[p].attached
  BY <1>1, WithHistoryIs, ZenonT(60)
<1>3. /\ pc[p] = "getDomainHostnames" /\ pc'[p] = "listDirectory" /\ options' = options
      /\ job'[p] = new
  BY <1>1, ReadsStep
<1> HIDE DEF new
<1>4. /\ job'[p].body = job[p].body /\ job[p].attached \subseteq job'[p].attached
      /\ DoSaveHistory => job[p].listed \subseteq job'[p].attached
  BY <1>2, <1>3
<1>5. SectionsMade(p, e) /\ InHistory(p, e) /\ p \in Pending
  BY <1>3 DEF Covers, HistoryMade, Pending, Reading
<1>6. SectionsMade(p, e)'
  <2>1. \A other \in Sections : pc'[p] \notin NotYet(other) => pc[p] \notin NotYet(other)
    BY <1>3 DEF Sections, NotYet
  <2> QED BY <1>3, <1>4, <1>5, <2>1, SectionsKept
<1>7. HasHistory(e, job[p].listed)
  BY <1>1, <1>3, <1>5 DEF InHistory, HasHistory
<1>8. PICK attached : attached = job'[p].attached
  OBVIOUS
<1>9. HasHistory(e, attached)'
  <2>1. CASE DoSaveHistory
    BY <1>3, <1>4, <1>7, <1>8, <2>1, HasMore
  <2>2. CASE ~DoSaveHistory
    <3>1. ~DoIncludePaths' /\ ~DoSaveHistory'
      BY <1>3, <2>2 DEF DoIncludePaths, DoSaveHistory
    <3> QED BY <3>1 DEF HasHistory
  <2> QED BY <2>1, <2>2
<1> QED BY <1>3, <1>6, <1>8, <1>9 DEF Covers, HistoryMade, HasHistory

LEMMA ReadCovers ==
    ASSUME TypeInv, KeysInv, StoredParts, NEW p \in Reporters, Generate(p),
           NEW e \in job[p].old, e \notin deleted, Covers(p, e)
    PROVE  Covers(p, e)'
<1>1. \/ GetBypasses(p) \/ GetWarnings(p) \/ GetMatches(p) \/ GetWhitelist(p)
      \/ GetHostnames(p) \/ GetDomainHostnames(p) \/ GetHistory(p) \/ MakeHistory(p)
  BY DEF Generate
<1> QED BY <1>1, BypassesCover, WarningsCover, MatchesCover, WhitelistCovers,
           DomainsCover, HostnamesCover, PathsCover, HistoryCovers

-----------------------------------------------------------------------------
\* What a file holds, and a file with the same contents.
LEMMA SameFile ==
    ASSUME options' = options, NEW e, NEW f, NEW g, g.content = f.content, InFile(e, g)
    PROVE  InFile(e, f)'
<1>1. \A part : Has(part, e, g.content) => Has(part, e, f.content)'
  BY HasMore
<1>2. HasHistory(e, f.content)'
  BY HasMore DEF InFile
<1> QED BY <1>1, <1>2 DEF InFile

\* A report that looks for a name covers what it did.
LEMMA LookingCovers ==
    ASSUME NEW p \in Reporters, NEW e, Covers(p, e), options' = options,
           pc[p] \in {"listDirectory", "visitEntry"}, pc'[p] = "visitEntry",
           job'[p].body = job[p].body, job'[p].attached = job[p].attached
    PROVE  Covers(p, e)'
<1>1. SectionsMade(p, e) /\ HasHistory(e, job[p].attached) /\ p \in Pending
  BY DEF Covers, HistoryMade, Pending
<1>2. \A other \in Sections : pc'[p] \notin NotYet(other) => pc[p] \notin NotYet(other)
  BY DEF Sections, NotYet
<1>3. SectionsMade(p, e)'
  BY <1>1, <1>2, SectionsKept
<1>4. PICK attached : attached = job'[p].attached
  OBVIOUS
<1>5. HasHistory(e, attached)'
  BY <1>1, <1>4, HasMore
<1> QED BY <1>3, <1>4, <1>5 DEF Covers, HistoryMade, HasHistory

\* When the file is saved, it has what it should, and no other file is by that report.
LEMMA SavingCovers ==
    ASSUME TypeInv, NumberInv, ByInv, NEW p \in Reporters, SaveAttachedReport(p),
           "unsaved" \notin mishaps', NEW e, Covers(p, e)
    PROVE  Covers(p, e)'
<1>1. job[p] \in Job
  BY DEF TypeInv, ReportersType
<1>2. CASE ListedDirectory(p)
  <2>1. SavesOn(p, "listDirectory", "visitEntry", Listing(job[p]))
    BY <1>2 DEF ListedDirectory
  <2>2. {Name(f) : f \in files} \subseteq Names /\ day \in 0..MaxDay
    BY NameIs DEF TypeInv
  <2>3. Listing(job[p]).body = job[p].body /\ Listing(job[p]).attached = job[p].attached
    BY <1>1, <2>2, ListingIs DEF SameOwner
  <2>4. /\ pc[p] = "listDirectory" /\ pc'[p] = "visitEntry" /\ options' = options
        /\ job'[p] = Listing(job[p])
    BY <2>1, SavesStep
  <2> QED BY <2>3, <2>4, LookingCovers
<1>3. ASSUME NEW name \in Names, VisitedEntry(p, name) PROVE Covers(p, e)'
  <2>1. PICK j \in {Without(job[p], name), Counted(job[p], name)} : SavesOn(p, "visitEntry", "visitEntry", j)
    BY <1>3 DEF VisitedEntry
  <2>2. j.attached = job[p].attached
    BY <1>1, CountedIs
  <2>3. /\ pc[p] = "visitEntry" /\ pc'[p] = "visitEntry" /\ options' = options
        /\ job'[p] = j /\ j.body = job[p].body
    BY <2>1, SavesStep DEF SameOwner
  <2> QED BY <2>2, <2>3, LookingCovers
<1>4. CASE WroteFile(p)
  <2>1. PICK new : new = NewFile(job[p])
    OBVIOUS
  <2>2. SavesOn(p, "visitEntry", "attachFile", Numbered(job[p])) /\ files' = Written(new)
    BY <1>4, <2>1 DEF WroteFile
  <2>3. /\ pc[p] = "visitEntry" /\ pc'[p] = "attachFile" /\ options' = options
        /\ job'[p].report = job[p].report /\ job'[p].body = job[p].body
    BY <2>2, SavesStep DEF SameOwner
  <2>4. new.content = job[p].attached
    BY <2>1 DEF NewFile
  <2>5. p \in Pending /\ p \notin Pending'
    BY <2>3 DEF Pending, Reading
  <2>6. \A f \in files' : f.by = job'[p].report => f = new
    BY <2>2, <2>3, <2>5, WrittenIs DEF ByInv
  <2>7. SectionsMade(p, e) /\ HasHistory(e, job[p].attached)
    BY <2>3 DEF Covers, HistoryMade
  <2>8. \A part \in Sections \cap options.attached : Has(part, e, new.content)
    BY <2>3, <2>4, <2>5, <2>7 DEF SectionsMade, NotYet, Sections
  <2>9. InFile(e, new)
    BY <2>4, <2>7, <2>8 DEF InFile
  <2>10. InFile(e, new)'
    BY <2>3, <2>9, SameFile
  <2>11. SectionsMade(p, e)'
    <3>1. \A other \in Sections : pc'[p] \notin NotYet(other) => pc[p] \notin NotYet(other)
      BY <2>3 DEF Sections, NotYet
    <3> QED BY <2>3, <2>5, <2>7, <3>1, SectionsKept
  <2>12. \A f \in files' : f.by = job'[p].report => InFile(e, f)'
    BY <2>6, <2>10
  <2> QED BY <2>3, <2>11, <2>12 DEF Covers, HistoryMade
<1>5. ASSUME NEW f \in File, AttachedFile(p, f) PROVE Covers(p, e)'
  <2>1. PICK new : new = Zipped(f)
    OBVIOUS
  <2>2. /\ SavesOn(p, "attachFile", "send", WithFile(job[p], Name(new)))
        /\ f \in files /\ files' = Written(new)
    BY <1>5, <2>1 DEF AttachedFile
  <2>3. /\ pc[p] = "attachFile" /\ pc'[p] = "send" /\ options' = options
        /\ job'[p].report = job[p].report /\ job'[p].body = job[p].body
    BY <2>2, SavesStep DEF SameOwner
  <2>4. new.by = f.by /\ new.content = f.content
    BY <2>1, ZippedIs
  <2>5. p \notin Pending'
    BY <2>3 DEF Pending, Reading
  <2>6. ASSUME NEW g \in files', g.by = job'[p].report PROVE InFile(e, g)'
    <3>1. PICK h \in files : h.by = g.by /\ h.content = g.content
      BY <2>2, <2>4, <2>6, WrittenIs
    <3>2. InFile(e, h)
      BY <2>3, <2>6, <3>1 DEF Covers
    <3> QED BY <2>3, <3>1, <3>2, SameFile
  <2>7. SectionsMade(p, e)'
    <3>1. \A other \in Sections : pc'[p] \notin NotYet(other) => pc[p] \notin NotYet(other)
      BY <2>3 DEF Sections, NotYet
    <3>2. SectionsMade(p, e)
      BY DEF Covers
    <3> QED BY <2>3, <2>5, <3>1, <3>2, SectionsKept
  <2> QED BY <2>3, <2>6, <2>7 DEF Covers, HistoryMade
<1>6. ~FailedToSave(p)
  BY DEF FailedToSave
<1> QED BY <1>2, <1>3, <1>4, <1>5, <1>6, SavingIs

\* A file that is saved leaves those of other reports as they are.
LEMMA OthersFiles ==
    ASSUME TypeInv, NumberInv, ByInv, NEW p \in Reporters, SaveAttachedReport(p),
           NEW q \in Reporters, q # p, pc[q] # "idle", NEW f \in files', f.by = job[q].report
    PROVE  \E g \in files : g.by = f.by /\ g.content = f.content
<1>1. CASE ListedDirectory(p) \/ FailedToSave(p)
  BY <1>1 DEF ListedDirectory, FailedToSave
<1>2. ASSUME NEW name \in Names, VisitedEntry(p, name) PROVE f \in files
  BY <1>2 DEF VisitedEntry
<1>3. CASE WroteFile(p)
  <2>1. SavesOn(p, "visitEntry", "attachFile", Numbered(job[p])) /\ files' = Written(NewFile(job[p]))
    BY <1>3 DEF WroteFile
  <2>2. pc[p] = "visitEntry"
    BY <2>1, SavesStep
  <2>3. NewFile(job[p]).by # job[q].report
    BY <2>2 DEF NewFile, ByInv
  <2>4. f \in files
    BY <2>1, <2>3, WrittenIs
  <2> QED BY <2>4
<1>4. ASSUME NEW h \in File, AttachedFile(p, h) PROVE \E g \in files : g.by = f.by /\ g.content = f.content
  <2>1. h \in files /\ files' = Written(Zipped(h))
    BY <1>4 DEF AttachedFile
  <2>2. Zipped(h).by = h.by /\ Zipped(h).content = h.content
    BY ZippedIs
  <2>3. f = Zipped(h) \/ f \in files
    BY <2>1, WrittenIs
  <2> QED BY <2>1, <2>2, <2>3
<1> QED BY <1>1, <1>2, <1>3, <1>4, SavingIs

\* What the body and the file cover is due no more when they are mailed.
LEMMA CoveredIsDue ==
    ASSUME NEW e \in Requests \cup Incidents, NEW body, NEW f, InFile(e, f),
           \A part \in Sections \cap options.body : Has(part, e, body),
           options' = options, body \subseteq mailed', f.content \subseteq mailed'
    PROVE  Due(e)'
<1>1. \A part : Includes(part)' <=> part \in options.body \/ part \in options.attached
  BY DEF Includes
<1>2. (DoIncludePaths' <=> DoIncludePaths) /\ (DoSaveHistory' <=> DoSaveHistory)
  BY DEF DoIncludePaths, DoSaveHistory
<1>3. \A part \in Sections : Includes(part)' => Has(part, e, mailed')
  <2> SUFFICES ASSUME NEW part \in Sections, Includes(part)' PROVE Has(part, e, mailed')
    OBVIOUS
  <2>1. Has(part, e, body) \/ Has(part, e, f.content)
    BY <1>1 DEF InFile
  <2> QED BY <2>1 DEF Has
<1>4. CASE e \in Incidents
  <2>1. Includes("bypasses")' => <<"bypass", e>> \in mailed'
    BY <1>3, <1>4 DEF Has, Sections
  <2> QED BY <1>4, <2>1 DEF Due
<1>5. CASE e \notin Incidents
  <2>1. e \in Requests
    BY <1>5
  <2>2. Includes("warnings")' /\ e \notin Whitelisted /\ Strength[e] >= options'.threshold =>
        \A k \in Keywords[e] : <<"warning", k, e, e>> \in mailed'
    BY <1>3, <2>1 DEF Has, Sections
  <2>3. Includes("whitelist")' /\ e \in Whitelisted /\ Keywords[e] # {} => <<"whitelist", e>> \in mailed'
    BY <1>3 DEF Has, Sections
  <2>4. HasHistory(e, f.content)
    BY DEF InFile
  <2>5. DoIncludePaths' => <<"path", Domain[Host[e]], e>> \in mailed'
    BY <1>2, <2>1, <2>4 DEF HasHistory
  <2>6. DoSaveHistory' /\ ~DoIncludePaths' => <<"host", Domain[Host[e]], Host[e]>> \in mailed'
    BY <1>2, <2>1, <2>4 DEF HasHistory
  <2> QED BY <1>5, <2>2, <2>3, <2>5, <2>6 DEF Due
<1> QED BY <1>4, <1>5

LEMMA MailCovers ==
    ASSUME TypeInv, FilesApart, NEW p \in Reporters, Mailed(p), NEW e \in Requests \cup Incidents, Covers(p, e)
    PROVE  Due(e)'
<1>1. /\ pc[p] = "send" /\ Cardinality(Enclosed(p)) = Cardinality(job[p].attachment)
      /\ mailed' = mailed \cup Contents(p) /\ options' = options
  BY DEF Mailed, Step
<1>2. PICK name \in Names : Waits(p, name)
  BY <1>1 DEF FilesApart
<1>3. /\ job[p].attachment = {name}
      /\ \A f \in files : Name(f) = name => f.by = job[p].report
  BY <1>2 DEF Waits
<1>4. Cardinality(Enclosed(p)) = 1
  BY <1>1, <1>3, FS_Singleton
<1>5. PICK f \in Enclosed(p) : TRUE
  BY <1>4, FS_EmptySet
<1>6. f \in files /\ f.by = job[p].report
  BY <1>3, <1>5 DEF Enclosed
<1>7. InFile(e, f)
  BY <1>1, <1>6 DEF Covers
<1>8. \A part \in Sections \cap options.body : Has(part, e, job[p].body)
  BY <1>1 DEF Covers, SectionsMade, NotYet, Sections
<1>9. job[p].body \subseteq mailed' /\ f.content \subseteq mailed'
  BY <1>1, <1>5 DEF Contents
<1> QED BY <1>1, <1>7, <1>8, <1>9, CoveredIsDue

-----------------------------------------------------------------------------
\* One reporter takes a step, and the others are covered as before.
LEMMA CoverOthers ==
    ASSUME CoverParts, NEW p \in Reporters, options' = options, mailed \subseteq mailed',
           \A q \in Reporters : q # p => pc'[q] = pc[q] /\ job'[q] = job[q],
           deleted \subseteq deleted', \A e \in deleted' : e \in deleted \/ Due(e),
           \A u \in urls : u.request \notin deleted' => u \in urls',
           \A q \in Reporters : q # p /\ pc[q] # "idle" => \A f \in files' : f.by = job[q].report =>
               \E g \in files : g.by = f.by /\ g.content = f.content,
           \A e \in Requests \cup Incidents : Reported(p, e)'
    PROVE  CoverParts'
<1>1. \A e \in deleted' : Due(e)'
  BY DueStays DEF CoverParts
<1>2. ASSUME NEW q \in Reporters, q # p, NEW e \in Requests \cup Incidents PROVE Reported(q, e)'
  <2>1. pc'[q] = pc[q] /\ job'[q] = job[q] /\ Reported(q, e)
    BY <1>2 DEF CoverParts
  <2>2. pc[q] \in {"attachFile", "send"} => \A f \in files' : f.by = job[q].report =>
               \E g \in files : g.by = f.by /\ g.content = f.content
    BY <1>2
  <2> QED BY <2>1, <2>2, CoverKept
<1> QED BY <1>1, <1>2 DEF CoverParts

\* What is deleted is due no more, and what a report covers is what is older.
LEMMA CoverStep ==
    TypeInv /\ NumberInv /\ KeysInv /\ MailInv /\ ByInv /\ StoredInv /\ CoverInv /\ [Next]_vars => CoverInv'
<1> SUFFICES ASSUME TypeInv, NumberInv, KeysInv, MailInv, ByInv, StoredInv, CoverInv, [Next]_vars, Whole'
             PROVE  CoverParts'
  BY DEF CoverInv
<1>1. mishaps \subseteq mishaps' /\ deleted \subseteq deleted'
  BY MishapsStay
<1>2. StoredParts /\ CoverParts /\ FilesApart
  BY <1>1 DEF StoredInv, CoverInv, MailInv, Whole
<1>3. CASE Logs \/ Midnight \/ UNCHANGED vars
  <2>1. UNCHANGED <<options, files, pc, job, mailed, deleted>>
    <3>1. Logs => UNCHANGED <<options, files, pc, job, mailed, deleted>>
      BY LogsAre
    <3>2. Midnight \/ UNCHANGED vars => UNCHANGED <<options, files, pc, job, mailed, deleted>>
      BY DEF Midnight, vars, world, history
    <3> QED BY <1>3, <3>1, <3>2
  <2>2. urls \subseteq urls'
    <3>1. Logs => urls \subseteq urls'
      BY LogsAre DEF LoggedUrl, LoggedWarning, LoggedMatches, LoggedBypass
    <3>2. Midnight \/ UNCHANGED vars => urls' = urls
      BY DEF Midnight, vars, tables
    <3> QED BY <1>3, <3>1, <3>2
  <2>3. ASSUME NEW q \in Reporters, NEW e \in Requests \cup Incidents PROVE Reported(q, e)'
    <3>1. Reported(q, e)
      BY <1>2 DEF CoverParts
    <3> QED BY <2>1, <2>2, <3>1, CoverKept
  <2>4. \A e \in deleted' : Due(e)'
    BY <1>2, <2>1, DueStays DEF CoverParts
  <2> QED BY <2>3, <2>4 DEF CoverParts
<1>4. ASSUME NEW p \in Reporters, StepsOf(p) PROVE CoverParts'
  <2>1. ASSUME NEW e \in Requests \cup Incidents, e \in job[p].old, e \notin deleted
        PROVE  /\ pc[p] \notin {"idle", "rotate"} => Covers(p, e)
               /\ pc[p] = "rotate" => Due(e)
    BY <1>2, <2>1 DEF CoverParts, Reported
  <2>2. CASE Generate(p)
    <3>1. PICK label, onward, j : ReadsOn(p, label, onward, j)
      BY <2>2, GenerateIs
    <3>2. /\ \A q \in Reporters : q # p => pc'[q] = pc[q] /\ job'[q] = job[q]
          /\ pc[p] \in Reading /\ pc'[p] \in Reading \cup {"listDirectory"} /\ job'[p].old = job[p].old
          /\ UNCHANGED <<options, urls, files, mailed, deleted>>
      BY <3>1, ReadsStep DEF SameReport
    <3>3. pc[p] \notin {"idle", "rotate"} /\ pc'[p] \notin {"idle", "rotate"}
      BY <3>2 DEF Reading
    <3>4. ASSUME NEW e \in Requests \cup Incidents PROVE Reported(p, e)'
      <4> SUFFICES ASSUME e \in job[p].old, e \notin deleted PROVE Covers(p, e)'
        BY <3>2, <3>3 DEF Reported
      <4> QED BY <1>2, <2>1, <2>2, <3>3, ReadCovers
    <3> QED BY <1>2, <3>2, <3>4, CoverOthers
  <2>3. CASE SaveAttachedReport(p)
    <3>1. PICK label, onward, j : SavesOn(p, label, onward, j)
      BY <2>3, SavingFiles, Zenon
    <3>2. /\ \A q \in Reporters : q # p => pc'[q] = pc[q] /\ job'[q] = job[q]
          /\ pc[p] = label /\ pc'[p] = onward /\ job'[p].old = job[p].old
          /\ UNCHANGED <<options, urls, mailed, deleted>>
      BY <3>1, SavesStep DEF SameOwner
    <3>3. pc[p] \notin {"idle", "rotate"} /\ pc'[p] \notin {"idle", "rotate"}
      BY <3>1, <3>2 DEF SavesOn
    <3>4. "unsaved" \notin mishaps'
      BY DEF Whole
    <3>5. ASSUME NEW e \in Requests \cup Incidents PROVE Reported(p, e)'
      <4> SUFFICES ASSUME e \in job[p].old, e \notin deleted PROVE Covers(p, e)'
        BY <3>2, <3>3 DEF Reported
      <4> QED BY <2>1, <2>3, <3>3, <3>4, SavingCovers
    <3>6. \A q \in Reporters : q # p /\ pc[q] # "idle" => \A f \in files' : f.by = job[q].report =>
               \E g \in files : g.by = f.by /\ g.content = f.content
      BY <2>3, OthersFiles
    <3> QED BY <1>2, <3>2, <3>5, <3>6, CoverOthers
  <2>4. CASE Started(p)
    <3>1. /\ \A q \in Reporters : q # p => pc'[q] = pc[q] /\ job'[q] = job[q]
          /\ pc'[p] = "getBypasses"
      BY <2>4, EndsStep DEF EndsOn
    <3>2. UNCHANGED <<options, urls, files, mailed, deleted>>
      BY <2>4 DEF Started
    <3>3. \A e : Covers(p, e)'
      BY <3>1 DEF Covers, SectionsMade, NotYet, HistoryMade
    <3>4. \A e \in Requests \cup Incidents : Reported(p, e)'
      BY <3>1, <3>3 DEF Reported
    <3> QED BY <1>2, <3>1, <3>2, <3>4, CoverOthers
  <2>5. CASE Mailed(p)
    <3>1. /\ \A q \in Reporters : q # p => pc'[q] = pc[q] /\ job'[q] = job[q]
          /\ pc[p] = "send" /\ pc'[p] = "rotate" /\ job'[p].old = job[p].old
      BY <2>5, EndsStep DEF EndsOn
    <3>2. UNCHANGED <<options, urls, files, deleted>> /\ mailed \subseteq mailed'
      BY <2>5 DEF Mailed
    <3>3. ASSUME NEW e \in Requests \cup Incidents PROVE Reported(p, e)'
      <4> SUFFICES ASSUME e \in job[p].old, e \notin deleted PROVE Due(e)'
        BY <3>1, <3>2 DEF Reported
      <4>1. Covers(p, e)
        BY <2>1, <3>1
      <4> QED BY <1>2, <2>5, <4>1, MailCovers
    <3> QED BY <1>2, <3>1, <3>2, <3>3, CoverOthers
  <2>6. CASE GaveUp(p) \/ Rotated(p)
    <3>1. /\ \A q \in Reporters : q # p => pc'[q] = pc[q] /\ job'[q] = job[q]
          /\ pc'[p] = "idle"
      BY <2>6, EndsStep DEF EndsOn
    <3>2. \A e \in Requests \cup Incidents : Reported(p, e)'
      <4>1. job'[p].old = {}
        BY <2>6, EndsStep
      <4> QED BY <4>1 DEF Reported
    <3>3. UNCHANGED <<options, files, mailed>>
      BY <2>6 DEF GaveUp, Rotated
    <3>4. CASE GaveUp(p)
      <4>1. UNCHANGED <<urls, deleted>>
        BY <3>4 DEF GaveUp
      <4> QED BY <1>2, <3>1, <3>2, <3>3, <4>1, CoverOthers
    <3>5. CASE Rotated(p)
      <4>1. /\ urls' = urls \ OldUrls(p)
            /\ deleted' = deleted \cup {u.request : u \in OldUrls(p)} \cup (bypasses \cap job[p].old)
        BY <3>5 DEF Rotated
      <4>2. pc[p] = "rotate"
        BY <3>5, EndsStep DEF EndsOn
      <4>3. \A u \in OldUrls(p) : u.request \in job[p].old
        BY DEF OldUrls
      <4>4. job[p].old \subseteq Requests \cup Incidents
        BY DEF TypeInv, ReportersType, Job
      <4>5. \A e \in deleted' : e \in deleted \/ Due(e)
        BY <2>1, <4>1, <4>2, <4>3, <4>4
      <4>6. \A u \in urls : u.request \notin deleted' => u \in urls'
        BY <4>1
      <4> QED BY <1>1, <1>2, <3>1, <3>2, <3>3, <4>5, <4>6, CoverOthers
    <3> QED BY <2>6, <3>4, <3>5
  <2> QED BY <1>4, <2>2, <2>3, <2>4, <2>5, <2>6 DEF StepsOf
<1> QED BY <1>3, <1>4, NextIs

\* What a report deletes was listed in an accepted mail, in every part the options
\* ask for, under each keyword and under its domain: for any number of processes
\* that report and rotate the same tables while the sniffer logs into them, whose
\* rowids are used again, and that save in one directory.  It takes that no request
\* is split by a report's start, no two look for a name at once, and each file
\* can be saved.
THEOREM NothingDeletedUnseen == Spec => []DeletedWasMailed
<1>1. Init => NamesInv /\ MailInv /\ KeysInv /\ ByInv /\ StoredInv /\ CoverInv
  <2>1. Init => /\ \A p \in Reporters : pc[p] = "idle"
                /\ files = {} /\ urls = {} /\ accepted = {} /\ deleted = {}
                /\ todo = Requests \cup Incidents
    BY DEF Init
  <2>2. Init => NamesInv /\ KeysInv /\ ByInv
    BY <2>1 DEF NamesInv, KeysInv, ByInv, Saving, Pending, Reading
  <2>3. Init => MailInv
    BY <2>1 DEF MailInv, FilesApart, OneSaves, SavingInv, Saving
  <2>4. Init => StoredInv
    BY <2>1 DEF StoredInv, StoredParts
  <2>5. Init => CoverInv
    BY <2>1 DEF CoverInv, CoverParts, Reported
  <2> QED BY <2>2, <2>3, <2>4, <2>5
<1>2. /\ TypeInv /\ NumberInv /\ NamesInv /\ MailInv /\ KeysInv /\ ByInv /\ StoredInv /\ CoverInv
      /\ [Next]_vars
      => (NamesInv /\ MailInv /\ KeysInv /\ ByInv /\ StoredInv /\ CoverInv)'
  BY NamesStep, MailStep, KeysStep, ByStep, StoredStep, CoverStep
<1>3. CoverInv => DeletedWasMailed
  BY DEF CoverInv, CoverParts, Whole, DeletedWasMailed
<1> QED BY <1>1, <1>2, <1>3, TypeAlways, PTL DEF Spec

=============================================================================
