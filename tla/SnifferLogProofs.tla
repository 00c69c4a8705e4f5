-------------------------- MODULE SnifferLogProofs --------------------------
(***************************************************************************)
(* Proofs about SnifferLog, for any packets, keywords and attempts.  For   *)
(* any number of threads: its type invariant, and that each thread writes  *)
(* as many rows as it has requests to log, whatever the others do to the   *)
(* fields they share.  For a single thread: that every warning and every   *)
(* keyword leads to the URL it was raised for, and what the thread writes: *)
(* each request is found in the tables once, as it was, and statement by   *)
(* statement the tables grow as FlaggedLog allows.                         *)
(***************************************************************************)
EXTENDS SnifferLog, FiniteSetTheorems, SequenceTheorems, TLAPS

\* A failed statement, given up or tried again, keeps the types.
LEMMA GiveUpType ==
    ASSUME TypeOK, NEW t \in Threads, NEW what \in Statements, GiveUp(t, what)
    PROVE  attempt' \in [Threads -> 0..Finished] /\ abandoned' \subseteq Statements
BY SnifferLogAssumption DEF TypeOK, GiveUp

\* The next attempt of a failed statement keeps the types.
LEMMA RetryType ==
    ASSUME TypeOK, NEW t \in Threads, NEW label \in Labels \ {"next", "done"},
           request[t] \in Packets, Retry(t, label)
    PROVE  TypeOK'
BY SnifferLogAssumption, SMTT(40)
   DEF TypeOK, Retry, Goto, Labels, fields, tables, envVars

\* Going on to the next keyword, or back to listening, keeps the types.
LEMMA NextKeywordType ==
    ASSUME TypeOK, NEW t \in Threads, request[t] \in Packets, request' = request,
           NextKeyword(t)
    PROVE  /\ key' \in [Threads -> Nat]
           /\ pc' \in [Threads -> Labels]
           /\ \A s \in Threads : pc'[s] \notin {"next", "done"} => request'[s] \in Packets
<1>1. key' \in [Threads -> Nat]
  <2>1. key[t] \in Nat /\ key[t] + 1 \in Nat
    BY DEF TypeOK
  <2> QED
    BY <2>1 DEF TypeOK, NextKeyword
<1>2. pc' = [pc EXCEPT ![t] = "setKeyword"] \/ pc' = [pc EXCEPT ![t] = "next"]
  BY DEF NextKeyword, Goto
<1> QED
  BY <1>1, <1>2 DEF TypeOK, Labels

\* Every step of every thread, and every step of the rest, keeps the types.
LEMMA TypeStep == TypeOK /\ [Next]_vars => TypeOK'
<1> SUFFICES ASSUME TypeOK, [Next]_vars PROVE TypeOK'
  OBVIOUS
<1> USE SnifferLogAssumption DEF Labels
<1>1. ASSUME NEW t \in Threads, NEW p \in Packets, SkipPacket(t, p) PROVE TypeOK'
  BY <1>1 DEF TypeOK, SkipPacket, threadVars, fields, tables
<1>2. ASSUME NEW t \in Threads, NEW p \in Packets, GotRequest(t, p) PROVE TypeOK'
  BY <1>2 DEF TypeOK, GotRequest, Goto, fields, tables
<1>3. ASSUME NEW t \in Threads, StopCapture(t) PROVE TypeOK'
  BY <1>3 DEF TypeOK, StopCapture, Goto, fields, tables, envVars
<1>4. ASSUME NEW t \in Threads, SetHostname(t) PROVE TypeOK'
  BY <1>4 DEF TypeOK, SetHostname, Goto, tables, envVars
<1>5. ASSUME NEW t \in Threads, SetPath(t) PROVE TypeOK'
  BY <1>5 DEF TypeOK, SetPath, Goto, tables, envVars
<1>6. ASSUME NEW t \in Threads, InsertUrl(t) PROVE TypeOK'
  <2>1. request[t] \in Packets
    BY <1>6 DEF TypeOK, InsertUrl
  <2>2. [host |-> hostname, path |-> path, by |-> request[t]] \in UrlRow
    BY <2>1 DEF TypeOK, UrlRow
  <2> QED
    BY <1>6, <2>1, <2>2, SMTT(40) DEF TypeOK, InsertUrl, Goto, fields, envVars
<1>7. ASSUME NEW t \in Threads, UrlFails(t) PROVE TypeOK'
  <2>1. CASE Retry(t, "setHostname")
    BY <1>7, <2>1, RetryType DEF TypeOK, UrlFails
  <2>2. CASE GiveUp(t, <<"url", request[t], 0>>) /\ Goto(t, AfterUrl(t)) /\ UNCHANGED key
    <3>1. request[t] \in Packets
      BY <1>7 DEF TypeOK, UrlFails
    <3>2. <<"url", request[t], 0>> \in Statements
      BY <3>1 DEF Statements
    <3>3. attempt' \in [Threads -> 0..Finished] /\ abandoned' \subseteq Statements
      BY <2>2, <3>2, GiveUpType
    <3> QED
      BY <2>2, <3>1, <3>3
         DEF TypeOK, GiveUp, AfterUrl, Goto, fields, tables, envVars
  <2> QED
    BY <1>7, <2>1, <2>2 DEF UrlFails
<1>8. ASSUME NEW t \in Threads, GetLastRowId(t) PROVE TypeOK'
  BY <1>8 DEF TypeOK, GetLastRowId, AfterUrl, Goto, tables, envVars
<1>9. ASSUME NEW t \in Threads, SetMatch(t) PROVE TypeOK'
  BY <1>9 DEF TypeOK, SetMatch, Goto, tables, envVars
<1>10. ASSUME NEW t \in Threads, InsertWarning(t) PROVE TypeOK'
  <2>1. request[t] \in Packets
    BY <1>10 DEF TypeOK, InsertWarning
  <2>2. [urlId |-> lastRowId, match |-> blacklistMatch, by |-> request[t],
         last |-> Len(urls)] \in WarningRow
    BY <2>1 DEF TypeOK, WarningRow
  <2> QED
    BY <1>10, <2>1, <2>2, SMTT(40) DEF TypeOK, InsertWarning, Goto, fields, envVars
<1>11. ASSUME NEW t \in Threads, WarningFails(t) PROVE TypeOK'
  <2>1. CASE Retry(t, "setMatch")
    BY <1>11, <2>1, RetryType DEF TypeOK, WarningFails
  <2>2. CASE GiveUp(t, <<"warning", request[t], 0>>) /\ Goto(t, "next") /\ UNCHANGED key
    <3>1. <<"warning", request[t], 0>> \in Statements
      BY <1>11 DEF TypeOK, WarningFails, Statements
    <3>2. attempt' \in [Threads -> 0..Finished] /\ abandoned' \subseteq Statements
      BY <2>2, <3>1, GiveUpType
    <3> QED
      BY <2>2, <3>2 DEF TypeOK, GiveUp, Goto, fields, tables, envVars
  <2> QED
    BY <1>11, <2>1, <2>2 DEF WarningFails
<1>12. ASSUME NEW t \in Threads, SetKeyword(t) PROVE TypeOK'
  BY <1>12 DEF TypeOK, SetKeyword, Goto, Words, tables, envVars
<1>13. ASSUME NEW t \in Threads, InsertMatch(t) PROVE TypeOK'
  <2>1. [urlId |-> lastRowId, word |-> keyword, by |-> request[t], nth |-> key[t]] \in MatchRow
    BY <1>13 DEF TypeOK, InsertMatch, MatchRow
  <2>2. /\ key' \in [Threads -> Nat]
        /\ pc' \in [Threads -> Labels]
        /\ \A s \in Threads : pc'[s] \notin {"next", "done"} => request'[s] \in Packets
    BY <1>13, NextKeywordType DEF TypeOK, InsertMatch
  <2>3. matches' \in Seq(MatchRow) /\ connRowId' \in Nat
    BY <1>13, <2>1 DEF TypeOK, InsertMatch
  <2>4. attempt' \in [Threads -> 0..Finished] /\ request' \in [Threads -> Packets \cup {None}]
    BY <1>13 DEF TypeOK, InsertMatch
  <2> QED
    BY <1>13, <2>2, <2>3, <2>4 DEF TypeOK, InsertMatch, fields, envVars
<1>14. ASSUME NEW t \in Threads, MatchFails(t) PROVE TypeOK'
  <2>1. CASE Retry(t, "setKeyword")
    BY <1>14, <2>1, RetryType DEF TypeOK, MatchFails
  <2>2. CASE GiveUp(t, <<"match", request[t], key[t]>>) /\ NextKeyword(t)
    <3>1. <<"match", request[t], key[t]>> \in Statements
      BY <1>14 DEF TypeOK, MatchFails, Statements
    <3>2. attempt' \in [Threads -> 0..Finished] /\ abandoned' \subseteq Statements
      BY <2>2, <3>1, GiveUpType
    <3>3. /\ key' \in [Threads -> Nat]
          /\ pc' \in [Threads -> Labels]
          /\ \A s \in Threads : pc'[s] \notin {"next", "done"} => request'[s] \in Packets
      BY <1>14, <2>2, NextKeywordType DEF TypeOK, MatchFails, GiveUp
    <3> QED
      BY <2>2, <3>2, <3>3 DEF TypeOK, GiveUp, fields, tables, envVars
  <2> QED
    BY <1>14, <2>1, <2>2 DEF MatchFails
<1>15. CASE UNCHANGED vars
  BY <1>15 DEF TypeOK, vars, threadVars, fields, tables, envVars
<1> QED
  BY <1>1, <1>2, <1>3, <1>4, <1>5, <1>6, <1>7, <1>8, <1>9, <1>10, <1>11, <1>12,
     <1>13, <1>14, <1>15 DEF Next, CaptureStep, LogStep, JoinAll

\* The tables start empty and the threads idle: that is well typed.
LEMMA InitType == Init => TypeOK
<1> USE SnifferLogAssumption
<1> SUFFICES ASSUME Init PROVE TypeOK
  OBVIOUS
<1>1. keyword \in Words
  BY DEF Init, NoWord, Words
<1>2. urls \in Seq(UrlRow) /\ warnings \in Seq(WarningRow) /\ matches \in Seq(MatchRow)
  BY DEF Init
<1> QED
  BY <1>1, <1>2 DEF Init, TypeOK, Labels

\* The variables stay in their types, whatever the threads do to the fields.
THEOREM TypeCorrect == Spec => []TypeOK
BY InitType, TypeStep, PTL DEF Spec

-----------------------------------------------------------------------------
\* What Append does to the length and the elements of a table.
LEMMA Appended ==
    ASSUME NEW S, NEW s \in Seq(S), NEW e \in S
    PROVE  /\ Append(s, e) \in Seq(S)
           /\ Len(s) \in Nat
           /\ Len(Append(s, e)) = Len(s) + 1
           /\ \A n \in 1..Len(s) : Append(s, e)[n] = s[n]
           /\ Append(s, e)[Len(s) + 1] = e
OBVIOUS

\* The parts of OneThreadInv that speak of the tables alone.
TablesInv == UrlsAreWhole /\ WarningOnLastUrl /\ WarningAccusesItsUrl /\ KeywordsFollowWarning

\* What does not touch the tables leaves what is true of them.
LEMMA TablesInvStable ==
    ASSUME TablesInv, UNCHANGED <<urls, warnings, matches>>
    PROVE  TablesInv'
BY DEF TablesInv, UrlsAreWhole, WarningOnLastUrl, WarningAccusesItsUrl,
       KeywordsFollowWarning, UrlsOf, WarningsOf

\* A step that only moves the one thread and its fields on keeps the invariant
\* as soon as it keeps InFlight.
LEMMA FieldStep ==
    ASSUME OneThreadInv, TypeOK', InFlight', UNCHANGED <<urls, warnings, matches, request, pending>>,
           \A t \in Threads : pc'[t] \in {"setHostname", "setPath", "insertUrl"}
                              => pc[t] \in {"setHostname", "setPath", "insertUrl"}
    PROVE  OneThreadInv'
<1>1. TablesInv'
  BY TablesInvStable DEF OneThreadInv, TablesInv
<1>2. NothingEarly'
  BY DEF OneThreadInv, NothingEarly, UrlsOf, WarningsOf
<1> QED
  BY <1>1, <1>2 DEF OneThreadInv, TablesInv

\* With one device every step keeps the fields those of the URL in flight.
LEMMA OneThreadStep ==
    ASSUME NEW t, Threads = {t}, OneThreadInv, [Next]_vars
    PROVE  OneThreadInv'
<1> USE SnifferLogAssumption
<1>0. TypeOK /\ TypeOK' /\ t \in Threads
  BY TypeStep DEF OneThreadInv
<1>1. ASSUME NEW p \in Packets, SkipPacket(t, p) PROVE OneThreadInv'
  <2>1. InFlight'
    BY <1>1 DEF SkipPacket, OneThreadInv, InFlight, UrlsOf, WarningsOf, threadVars, fields, tables
  <2>2. NothingEarly'
    BY <1>1 DEF SkipPacket, OneThreadInv, NothingEarly, UrlsOf, WarningsOf, threadVars, fields, tables
  <2>3. TablesInv'
    BY <1>1, TablesInvStable DEF SkipPacket, OneThreadInv, TablesInv, tables
  <2> QED
    BY <1>0, <2>1, <2>2, <2>3 DEF OneThreadInv, TablesInv
<1>2. ASSUME NEW p \in Packets, GotRequest(t, p) PROVE OneThreadInv'
  <2>1. InFlight'
    BY <1>0, <1>2 DEF GotRequest, Goto, TypeOK, OneThreadInv, InFlight, fields, tables
  <2>2. NothingEarly'
    BY <1>0, <1>2 DEF GotRequest, Goto, TypeOK, OneThreadInv, NothingEarly, UrlsOf, WarningsOf, tables
  <2>3. TablesInv'
    BY <1>2, TablesInvStable DEF GotRequest, OneThreadInv, TablesInv, tables
  <2> QED
    BY <1>0, <2>1, <2>2, <2>3 DEF OneThreadInv, TablesInv
<1>3. ASSUME StopCapture(t) PROVE OneThreadInv'
  <2>1. InFlight'
    BY <1>0, <1>3 DEF StopCapture, Goto, TypeOK, OneThreadInv, InFlight, fields, tables
  <2> QED
    BY <1>0, <1>3, <2>1, FieldStep DEF StopCapture, Goto, TypeOK, tables, envVars
<1>4. ASSUME SetHostname(t) PROVE OneThreadInv'
  <2>1. InFlight'
    BY <1>0, <1>4 DEF SetHostname, Goto, TypeOK, OneThreadInv, InFlight, tables
  <2> QED
    BY <1>0, <1>4, <2>1, FieldStep DEF SetHostname, Goto, TypeOK, tables, envVars
<1>5. ASSUME SetPath(t) PROVE OneThreadInv'
  <2>1. InFlight'
    BY <1>0, <1>5 DEF SetPath, Goto, TypeOK, OneThreadInv, InFlight, tables
  <2> QED
    BY <1>0, <1>5, <2>1, FieldStep DEF SetPath, Goto, TypeOK, tables, envVars
<1>6. ASSUME InsertUrl(t) PROVE OneThreadInv'
  <2>0. PICK p \in Packets : p = request[t]
    BY <1>0, <1>6 DEF InsertUrl, TypeOK
  <2> DEFINE n == Len(urls) + 1
             row == [host |-> p, path |-> p, by |-> p]
  <2>1. hostname = p /\ path = p
    BY <1>0, <1>6, <2>0 DEF InsertUrl, TypeOK, OneThreadInv, InFlight
  <2>2. row \in UrlRow /\ urls \in Seq(UrlRow) /\ urls' = Append(urls, row)
    BY <1>0, <1>6, <2>0, <2>1 DEF InsertUrl, TypeOK, UrlRow
  <2>3. /\ Len(urls) \in Nat
        /\ Len(urls') = n
        /\ \A u \in 1..Len(urls) : urls'[u] = urls[u]
        /\ urls'[n] = row
    BY <2>2, Appended
  <2>4. UrlsOf(p) = {} /\ WarningsOf(p) = {}
    BY <1>0, <1>6, <2>0 DEF InsertUrl, OneThreadInv, NothingEarly
  <2>5. \A q : q # p => UrlsOf(q)' = UrlsOf(q)
    <3> SUFFICES ASSUME NEW q, q # p PROVE UrlsOf(q)' = UrlsOf(q)
      OBVIOUS
    <3>1. \A u \in 1..Len(urls') : urls'[u].by = q <=> u \in 1..Len(urls) /\ urls[u].by = q
      BY <2>3
    <3> QED
      BY <2>3, <3>1 DEF UrlsOf
  <2>6. UNCHANGED <<warnings, matches, request, lastRowId, blacklistMatch, keyword, pending>>
        /\ connRowId' = n /\ pc' = [pc EXCEPT ![t] = "getLastRowId"]
    BY <1>6 DEF InsertUrl, Goto, fields, envVars
  <2>7. \A q : WarningsOf(q)' = WarningsOf(q)
    BY <2>6 DEF WarningsOf
  <2>8. InFlight'
    BY <1>0, <2>0, <2>3, <2>6 DEF TypeOK, InFlight
  <2>9. NothingEarly'
    <3>1. request[t] \notin pending /\ \A q \in pending : UrlsOf(q) = {} /\ WarningsOf(q) = {}
      BY <1>0 DEF OneThreadInv, NothingEarly
    <3>2. \A q \in pending' : UrlsOf(q)' = {} /\ WarningsOf(q)' = {}
      BY <2>0, <2>5, <2>6, <2>7, <3>1
    <3>3. \A s \in Threads : pc'[s] \notin {"setHostname", "setPath", "insertUrl"}
      BY <1>0, <2>6 DEF TypeOK
    <3> QED
      BY <1>0, <2>6, <3>1, <3>2, <3>3 DEF NothingEarly
  <2>10. UrlsAreWhole'
    BY <2>3 DEF OneThreadInv, UrlsAreWhole
  <2>11. \A q : UrlsOf(q) \subseteq UrlsOf(q)'
    BY <2>4, <2>5
  <2>12. WarningOnLastUrl'
    BY <2>6, <2>11 DEF OneThreadInv, WarningOnLastUrl
  <2>13. WarningAccusesItsUrl'
    <3> SUFFICES ASSUME NEW w \in 1..Len(warnings), NEW q, q = warnings[w].by
                 PROVE  /\ warnings[w].match = q
                        /\ UrlsOf(q)' # {} =>
                             /\ warnings[w].urlId \in UrlsOf(q)'
                             /\ urls'[warnings[w].urlId].host = q
                             /\ urls'[warnings[w].urlId].path = q
      BY <2>6 DEF WarningAccusesItsUrl
    <3>1. q # p
      BY <2>4 DEF WarningsOf
    <3>2. UrlsOf(q)' = UrlsOf(q)
      BY <2>5, <3>1
    <3>3. \A u \in UrlsOf(q) : urls'[u] = urls[u]
      BY <2>3 DEF UrlsOf
    <3> QED
      BY <3>2, <3>3 DEF OneThreadInv, WarningAccusesItsUrl
  <2>14. KeywordsFollowWarning'
    BY <2>6, <2>7 DEF OneThreadInv, KeywordsFollowWarning
  <2> QED
    BY <1>0, <2>8, <2>9, <2>10, <2>12, <2>13, <2>14 DEF OneThreadInv
<1>7. ASSUME UrlFails(t) PROVE OneThreadInv'
  <2>1. /\ UNCHANGED <<request, urls, warnings, fields, connRowId>>
        /\ \/ pc' = [pc EXCEPT ![t] = "setHostname"]
           \/ pc' = [pc EXCEPT ![t] = "setMatch"]
           \/ pc' = [pc EXCEPT ![t] = "next"]
    BY <1>7 DEF UrlFails, Retry, GiveUp, AfterUrl, Goto, tables
  <2>2. UrlsOf(request[t]) = {} /\ pc[t] = "insertUrl"
    BY <1>0, <1>7 DEF UrlFails, OneThreadInv, NothingEarly
  <2>3. InFlight'
    <3>1. UrlsOf(request[t])' = {} /\ UNCHANGED <<lastRowId, urls, request>>
      BY <2>1, <2>2 DEF UrlsOf, fields
    <3>2. Len(urls) > 0 => lastRowId = Len(urls)
      BY <1>0, <2>2 DEF OneThreadInv, InFlight
    <3> QED
      BY <1>0, <2>1, <3>1, <3>2 DEF TypeOK, InFlight
  <2> QED
    BY <1>0, <1>7, <2>3, FieldStep
       DEF UrlFails, Retry, GiveUp, AfterUrl, Goto, TypeOK, tables, envVars
<1>8. ASSUME GetLastRowId(t) PROVE OneThreadInv'
  <2>1. InFlight'
    BY <1>0, <1>8 DEF GetLastRowId, AfterUrl, Goto, TypeOK, OneThreadInv, InFlight, UrlsOf, tables
  <2> QED
    BY <1>0, <1>8, <2>1, FieldStep DEF GetLastRowId, AfterUrl, Goto, TypeOK, tables, envVars
<1>9. ASSUME SetMatch(t) PROVE OneThreadInv'
  <2>1. InFlight'
    BY <1>0, <1>9 DEF SetMatch, Goto, TypeOK, OneThreadInv, InFlight, UrlsOf, tables
  <2> QED
    BY <1>0, <1>9, <2>1, FieldStep DEF SetMatch, Goto, TypeOK, tables, envVars
<1>10. ASSUME InsertWarning(t) PROVE OneThreadInv'
  <2>0. PICK p \in Packets : p = request[t]
    BY <1>0, <1>10 DEF InsertWarning, TypeOK
  <2> DEFINE n == Len(warnings) + 1
             row == [urlId |-> lastRowId, match |-> p, by |-> p, last |-> Len(urls)]
  <2>1. blacklistMatch = p
    BY <1>0, <1>10, <2>0 DEF InsertWarning, TypeOK, OneThreadInv, InFlight
  <2>2. row \in WarningRow /\ warnings \in Seq(WarningRow) /\ warnings' = Append(warnings, row)
    BY <1>0, <1>10, <2>0, <2>1 DEF InsertWarning, TypeOK, WarningRow
  <2>3. /\ Len(warnings) \in Nat
        /\ Len(warnings') = n
        /\ \A w \in 1..Len(warnings) : warnings'[w] = warnings[w]
        /\ warnings'[n] = row
    BY <2>2, Appended
  <2>4. /\ Len(urls) > 0 => lastRowId = Len(urls)
        /\ UrlsOf(p) # {} => Len(urls) \in UrlsOf(p)
    BY <1>0, <1>10, <2>0 DEF InsertWarning, OneThreadInv, InFlight
  <2>5. UNCHANGED <<urls, matches, request, lastRowId, hostname, path, blacklistMatch,
                    keyword, pending>>
        /\ pc' = [pc EXCEPT ![t] = "setKeyword"]
    BY <1>10 DEF InsertWarning, Goto, fields, envVars
  <2>6. \A q : UrlsOf(q)' = UrlsOf(q)
    BY <2>5 DEF UrlsOf
  <2>7. \A q : WarningsOf(q)' = IF q = p THEN WarningsOf(q) \cup {n} ELSE WarningsOf(q)
    BY <2>3 DEF WarningsOf
  <2>8. InFlight'
    <3>1. n \in WarningsOf(p)' /\ warnings'[n].urlId = lastRowId
      BY <2>3, <2>7
    <3> QED
      BY <1>0, <2>0, <2>4, <2>5, <3>1 DEF TypeOK, OneThreadInv, InFlight
  <2>9. NothingEarly'
    <3>1. request[t] \notin pending /\ \A q \in pending : UrlsOf(q) = {} /\ WarningsOf(q) = {}
      BY <1>0 DEF OneThreadInv, NothingEarly
    <3>2. \A q \in pending' : UrlsOf(q)' = {} /\ WarningsOf(q)' = {}
      BY <2>0, <2>5, <2>6, <2>7, <3>1
    <3>3. \A s \in Threads : pc'[s] \notin {"setHostname", "setPath", "insertUrl"}
      BY <1>0, <2>5 DEF TypeOK
    <3> QED
      BY <1>0, <2>5, <3>1, <3>2, <3>3 DEF NothingEarly
  <2>10. UrlsAreWhole'
    BY <2>5 DEF OneThreadInv, UrlsAreWhole
  <2>11. WarningOnLastUrl'
    BY <2>3, <2>4, <2>6 DEF OneThreadInv, WarningOnLastUrl
  <2>12. UrlsOf(p) # {} => /\ lastRowId \in UrlsOf(p)
                           /\ urls[lastRowId].host = p
                           /\ urls[lastRowId].path = p
    <3> SUFFICES ASSUME UrlsOf(p) # {} PROVE /\ lastRowId \in UrlsOf(p)
                                             /\ urls[lastRowId].host = p
                                             /\ urls[lastRowId].path = p
      OBVIOUS
    <3>1. Len(urls) \in 1..Len(urls) /\ urls[Len(urls)].by = p
      BY <2>4 DEF UrlsOf
    <3>2. lastRowId = Len(urls)
      BY <1>0, <2>4, <3>1 DEF TypeOK
    <3> QED
      BY <2>4, <3>1, <3>2 DEF OneThreadInv, UrlsAreWhole
  <2>13. WarningAccusesItsUrl'
    <3> SUFFICES ASSUME NEW w \in 1..n, NEW q, q = warnings'[w].by
                 PROVE  /\ warnings'[w].match = q
                        /\ UrlsOf(q) # {} =>
                             /\ warnings'[w].urlId \in UrlsOf(q)
                             /\ urls[warnings'[w].urlId].host = q
                             /\ urls[warnings'[w].urlId].path = q
      BY <2>3, <2>5, <2>6 DEF WarningAccusesItsUrl
    <3>1. CASE w = n
      BY <2>3, <2>12, <3>1
    <3>2. CASE w \in 1..Len(warnings)
      BY <2>3, <3>2 DEF OneThreadInv, WarningAccusesItsUrl
    <3> QED
      BY <2>3, <3>1, <3>2
  <2>14. KeywordsFollowWarning'
    <3> SUFFICES ASSUME NEW m \in 1..Len(matches), NEW q, q = matches[m].by
                 PROVE  /\ matches[m].word[1] = q
                        /\ \E w \in WarningsOf(q)' : warnings'[w].urlId = matches[m].urlId
      BY <2>5 DEF KeywordsFollowWarning
    <3>1. PICK w \in WarningsOf(q) : warnings[w].urlId = matches[m].urlId
      BY DEF OneThreadInv, KeywordsFollowWarning
    <3>2. w \in WarningsOf(q)' /\ warnings'[w] = warnings[w]
      BY <2>3, <2>7, <3>1 DEF WarningsOf
    <3> QED
      BY <3>1, <3>2 DEF OneThreadInv, KeywordsFollowWarning
  <2> QED
    BY <1>0, <2>8, <2>9, <2>10, <2>11, <2>13, <2>14 DEF OneThreadInv
<1>11. ASSUME WarningFails(t) PROVE OneThreadInv'
  <2>1. InFlight'
    BY <1>0, <1>11, SMTT(40) DEF WarningFails, Retry, GiveUp, Goto, TypeOK, OneThreadInv,
                                 InFlight, UrlsOf, fields, tables
  <2> QED
    BY <1>0, <1>11, <2>1, FieldStep
       DEF WarningFails, Retry, GiveUp, Goto, TypeOK, tables, envVars
<1>12. ASSUME SetKeyword(t) PROVE OneThreadInv'
  <2>1. InFlight'
    BY <1>0, <1>12 DEF SetKeyword, Goto, TypeOK, OneThreadInv, InFlight, WarningsOf, tables
  <2> QED
    BY <1>0, <1>12, <2>1, FieldStep DEF SetKeyword, Goto, TypeOK, tables, envVars
<1>13. ASSUME InsertMatch(t) PROVE OneThreadInv'
  <2> DEFINE p == request[t]
             row == [urlId |-> lastRowId, word |-> keyword, by |-> p, nth |-> key[t]]
  <2>1. row \in MatchRow /\ matches \in Seq(MatchRow) /\ matches' = Append(matches, row)
    BY <1>0, <1>13 DEF InsertMatch, TypeOK, MatchRow
  <2>2. /\ Len(matches') = Len(matches) + 1
        /\ Len(matches) \in Nat
        /\ \A m \in 1..Len(matches) : matches'[m] = matches[m]
        /\ matches'[Len(matches) + 1] = row
    BY <2>1, Appended
  <2>3. /\ keyword[1] = p
        /\ \E w \in WarningsOf(p) : warnings[w].urlId = lastRowId
        /\ Len(urls) > 0 => lastRowId = Len(urls)
    BY <1>0, <1>13 DEF InsertMatch, OneThreadInv, InFlight
  <2>4. UNCHANGED <<urls, warnings, request, lastRowId, pending>>
    BY <1>13 DEF InsertMatch, fields, envVars
  <2>5. pc' = [pc EXCEPT ![t] = "setKeyword"] \/ pc' = [pc EXCEPT ![t] = "next"]
    BY <1>13 DEF InsertMatch, NextKeyword, Goto
  <2>6. InFlight'
    BY <1>0, <2>3, <2>4, <2>5 DEF TypeOK, InFlight, WarningsOf
  <2>7. NothingEarly'
    <3>1. \A q : UrlsOf(q)' = UrlsOf(q) /\ WarningsOf(q)' = WarningsOf(q)
      BY <2>4 DEF UrlsOf, WarningsOf
    <3> QED
      BY <1>0, <2>4, <2>5, <3>1 DEF TypeOK, OneThreadInv, NothingEarly
  <2>8. UrlsAreWhole' /\ WarningOnLastUrl' /\ WarningAccusesItsUrl'
    <3>1. \A q : UrlsOf(q)' = UrlsOf(q)
      BY <2>4 DEF UrlsOf
    <3> QED
      BY <2>4, <3>1 DEF OneThreadInv, UrlsAreWhole, WarningOnLastUrl, WarningAccusesItsUrl
  <2>9. KeywordsFollowWarning'
    BY <2>2, <2>3, <2>4, SMTT(40) DEF OneThreadInv, KeywordsFollowWarning, WarningsOf
  <2> QED
    BY <1>0, <2>6, <2>7, <2>8, <2>9 DEF OneThreadInv
<1>14. ASSUME MatchFails(t) PROVE OneThreadInv'
  <2>1. UNCHANGED <<urls, warnings, matches, request, lastRowId, pending>>
    BY <1>14 DEF MatchFails, Retry, GiveUp, fields, tables, envVars
  <2>2. pc' = [pc EXCEPT ![t] = "setKeyword"] \/ pc' = [pc EXCEPT ![t] = "next"]
    BY <1>14 DEF MatchFails, Retry, NextKeyword, Goto
  <2>3. pc[t] = "insertMatch"
    BY <1>14 DEF MatchFails
  <2>4. \A q : UrlsOf(q)' = UrlsOf(q) /\ WarningsOf(q)' = WarningsOf(q)
    BY <2>1 DEF UrlsOf, WarningsOf
  <2>5. InFlight'
    BY <1>0, <2>1, <2>2, <2>3, <2>4, SMTT(30) DEF TypeOK, OneThreadInv, InFlight
  <2> QED
    BY <1>0, <2>1, <2>2, <2>5, FieldStep DEF TypeOK
<1>15. CASE UNCHANGED vars
  <2>1. InFlight'
    BY <1>15 DEF OneThreadInv, InFlight, UrlsOf, WarningsOf, vars, threadVars, fields, tables
  <2> QED
    BY <1>0, <1>15, <2>1, FieldStep DEF vars, threadVars, tables, envVars
<1> QED
  BY <1>1, <1>2, <1>3, <1>4, <1>5, <1>6, <1>7, <1>8, <1>9, <1>10, <1>11, <1>12, <1>13,
     <1>14, <1>15 DEF Next, CaptureStep, LogStep, JoinAll

\* With a single device the invariant holds throughout.
LEMMA AlwaysOneThread ==
    ASSUME NEW t, Threads = {t}
    PROVE  Spec => []OneThreadInv
<1>1. Init => OneThreadInv
  <2> SUFFICES ASSUME Init PROVE OneThreadInv
    OBVIOUS
  <2>1. Len(urls) = 0 /\ Len(warnings) = 0 /\ Len(matches) = 0
    BY DEF Init
  <2>2. \A p : UrlsOf(p) = {} /\ WarningsOf(p) = {}
    BY <2>1 DEF UrlsOf, WarningsOf
  <2>3. InFlight
    BY <2>1 DEF Init, InFlight
  <2>4. NothingEarly
    BY <2>2, SnifferLogAssumption DEF Init, NothingEarly
  <2>5. TablesInv
    BY <2>1 DEF TablesInv, UrlsAreWhole, WarningOnLastUrl, WarningAccusesItsUrl,
                KeywordsFollowWarning
  <2> QED
    BY <2>3, <2>4, <2>5, InitType DEF OneThreadInv, TablesInv
<1>2. OneThreadInv /\ [Next]_vars => OneThreadInv'
  BY OneThreadStep
<1> QED
  BY <1>1, <1>2, PTL DEF Spec

\* "It is connected to the last URL inserted" (Database.h:162-163): with a single
\* device, and whatever locks and errors the database meets, it is.
THEOREM LastUrlCorrect ==
    ASSUME NEW t, Threads = {t}
    PROVE  Spec => []WarningOnLastUrl
<1>1. OneThreadInv => WarningOnLastUrl
  BY DEF OneThreadInv
<1> QED
  BY <1>1, AlwaysOneThread, PTL

\* No warning is then ever attached to a URL other than its own.
THEOREM OneThreadCorrect ==
    ASSUME NEW t, Threads = {t}
    PROVE  Spec => []WarningAccusesItsUrl
<1>1. OneThreadInv => WarningAccusesItsUrl
  BY DEF OneThreadInv
<1> QED
  BY <1>1, AlwaysOneThread, PTL

\* Nor is a keyword listed under a warning of another request.
THEOREM KeywordsCorrect ==
    ASSUME NEW t, Threads = {t}
    PROVE  Spec => []KeywordsFollowWarning
<1>1. OneThreadInv => KeywordsFollowWarning
  BY DEF OneThreadInv
<1> QED
  BY <1>1, AlwaysOneThread, PTL

-----------------------------------------------------------------------------
(***************************************************************************)
(* With any number of threads: the rows of a request depend on the thread  *)
(* that logs it alone, although their contents do not.                     *)
(***************************************************************************)
NoUrl(p)        == UrlsOf(p) = {} /\ <<"url", p, 0>> \notin abandoned
NoWarning(p)    == WarningsOf(p) = {} /\ <<"warning", p, 0>> \notin abandoned
NoMatch(p, k)   == MatchRowsOf(p, k) = {} /\ <<"match", p, k>> \notin abandoned
UrlDone(p)      == OneOrAbandoned(UrlsOf(p), <<"url", p, 0>>)
WarningDone(p)  == OneOrAbandoned(WarningsOf(p), <<"warning", p, 0>>)
MatchDone(p, k) == OneOrAbandoned(MatchRowsOf(p, k), <<"match", p, k>>)

BeforeUrl     == {"setHostname", "setPath", "insertUrl"}
BeforeWarning == {"getLastRowId", "setMatch", "insertWarning"}
InLogMatch    == {"setKeyword", "insertMatch"}

\* What there is of request p when its thread is done with it.
Complete(p) ==
    /\ UrlDone(p)
    /\ IF Matches[p] = 0 THEN WarningsOf(p) = {} ELSE WarningDone(p)
    /\ WarningsOf(p) # {} => \A k \in 1..Matches[p] : MatchDone(p, k)

\* What there is of request p while thread t is about to execute label with the
\* k-th keyword.
InProgress(p, label, k) ==
    /\ label \in BeforeUrl => NoUrl(p)
    /\ label \in BeforeWarning \cup InLogMatch => UrlDone(p)
    /\ label \in BeforeUrl \cup BeforeWarning =>
          NoWarning(p) /\ \A n \in Nat : NoMatch(p, n)
    /\ label \in {"setMatch", "insertWarning"} => Matches[p] > 0
    /\ label \in InLogMatch =>
          /\ WarningDone(p)
          /\ k \in 1..Matches[p]
          /\ \A n \in 1..k - 1 : MatchDone(p, n)
          /\ \A n \in Nat : n >= k => NoMatch(p, n)
    /\ label \in {"next", "done"} => Complete(p)

Tracked(t) ==
    \A p \in Packets, label \in Labels, k \in Nat :
        request[t] = p /\ pc[t] = label /\ key[t] = k => InProgress(p, label, k)

KeywordsInBounds ==
    \A m \in 1..Len(matches) : matches[m].nth \in 1..Matches[matches[m].by]

\* The inductive invariant: a request is in the hands of one thread at most.
RowsInv ==
    /\ TypeOK
    /\ pending \cap skipped = {}
    /\ \A t \in Threads : request[t] \notin pending \cup skipped
    /\ \A s, t \in Threads : request[s] = request[t] /\ request[s] # None => s = t
    /\ \A p \in pending \cup skipped :
          NoUrl(p) /\ NoWarning(p) /\ \A n \in Nat : NoMatch(p, n)
    /\ \A t \in Threads : Tracked(t)
    /\ \A p \in Packets \ (pending \cup skipped) :
          (\A t \in Threads : request[t] # p) => Complete(p)
    /\ KeywordsInBounds

\* A step that leaves the rows of request q, and what was given up of them.
SameRows(q) ==
    /\ UrlsOf(q)' = UrlsOf(q)
    /\ WarningsOf(q)' = WarningsOf(q)
    /\ \A n \in Nat : MatchRowsOf(q, n)' = MatchRowsOf(q, n)
    /\ <<"url", q, 0>> \in abandoned' <=> <<"url", q, 0>> \in abandoned
    /\ <<"warning", q, 0>> \in abandoned' <=> <<"warning", q, 0>> \in abandoned
    /\ \A n \in Nat : <<"match", q, n>> \in abandoned' <=> <<"match", q, n>> \in abandoned

\* What is said of a request depends on nothing but its rows.
LEMMA RowsOnly ==
    ASSUME NEW q \in Packets, SameRows(q)
    PROVE  /\ NoUrl(q)' <=> NoUrl(q)
           /\ NoWarning(q)' <=> NoWarning(q)
           /\ \A n \in Nat : NoMatch(q, n)' <=> NoMatch(q, n)
           /\ UrlDone(q)' <=> UrlDone(q)
           /\ WarningDone(q)' <=> WarningDone(q)
           /\ \A n \in Nat : MatchDone(q, n)' <=> MatchDone(q, n)
           /\ Complete(q)' <=> Complete(q)
<1>1. NoUrl(q)' <=> NoUrl(q)
  BY DEF SameRows, NoUrl
<1>2. NoWarning(q)' <=> NoWarning(q)
  BY DEF SameRows, NoWarning
<1>3. \A n \in Nat : NoMatch(q, n)' <=> NoMatch(q, n)
  BY DEF SameRows, NoMatch
<1>4. UrlDone(q)' <=> UrlDone(q)
  BY DEF SameRows, UrlDone, OneOrAbandoned
<1>5. WarningDone(q)' <=> WarningDone(q)
  BY DEF SameRows, WarningDone, OneOrAbandoned
<1>6. \A n \in Nat : MatchDone(q, n)' <=> MatchDone(q, n)
  BY DEF SameRows, MatchDone, OneOrAbandoned
<1>7. WarningsOf(q)' = WarningsOf(q)
  BY DEF SameRows
<1>8. Matches[q] \in Nat
  BY SnifferLogAssumption
<1>9. Complete(q)' <=> Complete(q)
  BY <1>4, <1>5, <1>6, <1>7, <1>8 DEF Complete
<1> QED
  BY <1>1, <1>2, <1>3, <1>4, <1>5, <1>6, <1>9

\* Neither does what is said of a request in the hands of a thread.
LEMMA ProgressOnly ==
    ASSUME NEW q \in Packets, SameRows(q), NEW label \in Labels, NEW k \in Nat,
           InProgress(q, label, k)
    PROVE  InProgress(q, label, k)'
BY RowsOnly, SnifferLogAssumption DEF InProgress

\* A step of a thread keeps the invariant when it keeps it for its own request.
LEMMA ThreadStep ==
    ASSUME RowsInv, TypeOK', NEW t \in Threads, request[t] \in Packets,
           UNCHANGED <<request, pending, skipped>>,
           \A s \in Threads \ {t} : pc'[s] = pc[s] /\ key'[s] = key[s],
           \A q \in Packets \ {request[t]} : SameRows(q),
           Tracked(t)',
           KeywordsInBounds'
    PROVE  RowsInv'
<1> USE SnifferLogAssumption
<1>1. \A s \in Threads : Tracked(s)'
  <2> SUFFICES ASSUME NEW s \in Threads \ {t}, NEW p \in Packets, NEW label \in Labels,
                      NEW k \in Nat, request[s] = p, pc[s] = label, key[s] = k
               PROVE  InProgress(p, label, k)'
    BY DEF Tracked
  <2>1. p # request[t]
    BY DEF RowsInv
  <2>2. InProgress(p, label, k)
    BY DEF RowsInv, Tracked
  <2> QED
    BY <2>1, <2>2, ProgressOnly
<1>2. \A p \in pending' \cup skipped' :
          NoUrl(p)' /\ NoWarning(p)' /\ \A n \in Nat : NoMatch(p, n)'
  <2> SUFFICES ASSUME NEW p \in pending \cup skipped
               PROVE  NoUrl(p)' /\ NoWarning(p)' /\ \A n \in Nat : NoMatch(p, n)'
    OBVIOUS
  <2>1. p \in Packets \ {request[t]}
    BY DEF RowsInv, TypeOK
  <2> QED
    BY <2>1, RowsOnly DEF RowsInv
<1>3. \A p \in Packets \ (pending' \cup skipped') :
          (\A s \in Threads : request'[s] # p) => Complete(p)'
  <2> SUFFICES ASSUME NEW p \in Packets \ (pending \cup skipped),
                      \A s \in Threads : request[s] # p
               PROVE  Complete(p)'
    OBVIOUS
  <2> QED
    BY RowsOnly DEF RowsInv
<1> QED
  BY <1>1, <1>2, <1>3 DEF RowsInv

\* When nothing is written, every request keeps its rows.
LEMMA NothingWritten ==
    ASSUME UNCHANGED <<urls, warnings, matches, abandoned>>
    PROVE  /\ \A q \in Packets : SameRows(q)
           /\ KeywordsInBounds => KeywordsInBounds'
BY DEF SameRows, UrlsOf, WarningsOf, MatchRowsOf, KeywordsInBounds

\* A step of a thread that writes nothing keeps the invariant as soon as what it
\* goes on to has the same meaning for the rows of its request.
LEMMA MoveStep ==
    ASSUME RowsInv, TypeOK', NEW t \in Threads, request[t] \in Packets,
           UNCHANGED <<request, key, pending, skipped, urls, warnings, matches, abandoned>>,
           NEW label \in Labels, pc' = [pc EXCEPT ![t] = label],
           InProgress(request[t], pc[t], key[t]) => InProgress(request[t], label, key[t])
    PROVE  RowsInv'
<1>0. PICK p \in Packets, k \in Nat : p = request[t] /\ k = key[t]
  BY DEF RowsInv, TypeOK
<1>1. InProgress(p, label, k)
  BY <1>0 DEF RowsInv, TypeOK, Tracked
<1>2. SameRows(p)
  BY <1>0, NothingWritten
<1>3. InProgress(p, label, k)'
  BY <1>1, <1>2, ProgressOnly
<1>4. Tracked(t)' /\ \A s \in Threads \ {t} : pc'[s] = pc[s] /\ key'[s] = key[s]
  BY <1>0, <1>3 DEF RowsInv, TypeOK, Tracked
<1> QED
  BY <1>0, <1>4, NothingWritten, ThreadStep DEF RowsInv

\* A statement that is given up: nothing is written, and the rows of the other
\* requests are as they were.
LEMMA GivenUp ==
    ASSUME NEW p \in Packets, NEW kind \in {"url", "warning", "match"}, NEW n \in Nat,
           UNCHANGED <<urls, warnings, matches>>, abandoned' = abandoned \cup {<<kind, p, n>>}
    PROVE  /\ \A q \in Packets \ {p} : SameRows(q)
           /\ UrlsOf(p)' = UrlsOf(p)
           /\ WarningsOf(p)' = WarningsOf(p)
           /\ \A i \in Nat : MatchRowsOf(p, i)' = MatchRowsOf(p, i)
           /\ KeywordsInBounds => KeywordsInBounds'
BY DEF SameRows, UrlsOf, WarningsOf, MatchRowsOf, KeywordsInBounds

\* The loop of logMatch goes on: the k-th keyword is done, the later ones not.
LEMMA KeywordStep ==
    ASSUME RowsInv, TypeOK', NEW t \in Threads, NEW p \in Packets, NEW k \in Nat,
           p = request[t], k = key[t], pc[t] = "insertMatch",
           UNCHANGED <<request, pending, skipped>>,
           NextKeyword(t),
           \A q \in Packets \ {p} : SameRows(q),
           UrlDone(p)', WarningDone(p)', MatchDone(p, k)',
           k \in 1..Matches[p],
           \A i \in 1..k - 1 : MatchDone(p, i)',
           \A i \in Nat : i >= k + 1 => NoMatch(p, i)',
           KeywordsInBounds'
    PROVE  RowsInv'
<1> USE SnifferLogAssumption
<1>0. TypeOK /\ Matches[p] \in Nat
  BY DEF RowsInv
<1>1. CASE k < Matches[p]
  <2>1. pc' = [pc EXCEPT ![t] = "setKeyword"] /\ key' = [key EXCEPT ![t] = k + 1]
    BY <1>1 DEF NextKeyword, Goto
  <2>2. \A i \in 1..(k + 1) - 1 : MatchDone(p, i)'
    OBVIOUS
  <2>3. InProgress(p, "setKeyword", k + 1)'
    BY <1>0, <1>1, <2>2 DEF InProgress, BeforeUrl, BeforeWarning, InLogMatch
  <2>4. Tracked(t)'
    BY <1>0, <2>1, <2>3 DEF TypeOK, Tracked
  <2>5. \A s \in Threads \ {t} : pc'[s] = pc[s] /\ key'[s] = key[s]
    BY <1>0, <2>1 DEF TypeOK
  <2> QED
    BY <2>4, <2>5, ThreadStep
<1>2. CASE ~(k < Matches[p])
  <2>1. pc' = [pc EXCEPT ![t] = "next"] /\ key' = key
    BY <1>2 DEF NextKeyword, Goto
  <2>2. k = Matches[p] /\ \A i \in 1..Matches[p] : MatchDone(p, i)'
    BY <1>0, <1>2
  <2>3. InProgress(p, "next", k)'
    BY <1>0, <2>2 DEF InProgress, BeforeUrl, BeforeWarning, InLogMatch, Complete
  <2>4. Tracked(t)'
    BY <1>0, <2>1, <2>3 DEF TypeOK, Tracked
  <2>5. \A s \in Threads \ {t} : pc'[s] = pc[s] /\ key'[s] = key[s]
    BY <1>0, <2>1 DEF TypeOK
  <2> QED
    BY <2>4, <2>5, ThreadStep
<1> QED
  BY <1>1, <1>2

\* Every step of every thread keeps the rows of every request in order.
LEMMA RowsStep == RowsInv /\ [Next]_vars => RowsInv'
<1> SUFFICES ASSUME RowsInv, [Next]_vars PROVE RowsInv'
  OBVIOUS
<1> USE SnifferLogAssumption
<1>0. TypeOK /\ TypeOK'
  BY TypeStep DEF RowsInv
<1>1. ASSUME NEW t \in Threads, NEW p \in Packets, SkipPacket(t, p) PROVE RowsInv'
  <2>1. /\ UNCHANGED <<pc, request, key, urls, warnings, matches, abandoned>>
        /\ pending' = pending \ {p} /\ skipped' = skipped \cup {p} /\ p \in pending
    BY <1>1 DEF SkipPacket, threadVars, tables
  <2>2. \A q \in Packets : SameRows(q)
    BY <2>1, NothingWritten
  <2>3. \A s \in Threads : Tracked(s)'
    BY <2>1, <2>2, ProgressOnly DEF RowsInv, Tracked
  <2>4. pending' \cup skipped' = pending \cup skipped /\ pending' \cap skipped' = {}
    BY <2>1 DEF RowsInv
  <2>5. KeywordsInBounds'
    BY <2>1, NothingWritten DEF RowsInv
  <2>6. /\ \A q \in pending \cup skipped :
              NoUrl(q)' /\ NoWarning(q)' /\ \A n \in Nat : NoMatch(q, n)'
        /\ \A q \in Packets \ (pending \cup skipped) :
              (\A s \in Threads : request[s] # q) => Complete(q)'
    BY <1>0, <2>2, RowsOnly DEF RowsInv, TypeOK
  <2> QED
    BY <1>0, <2>1, <2>3, <2>4, <2>5, <2>6 DEF RowsInv
<1>2. ASSUME NEW t \in Threads, NEW p \in Packets, GotRequest(t, p) PROVE RowsInv'
  <2>1. /\ UNCHANGED <<key, urls, warnings, matches, abandoned, skipped>>
        /\ pending' = pending \ {p} /\ p \in pending
        /\ request' = [request EXCEPT ![t] = p]
        /\ pc[t] = "next" /\ pc' = [pc EXCEPT ![t] = "setHostname"]
    BY <1>2 DEF GotRequest, Goto, tables
  <2>2. \A q \in Packets : SameRows(q)
    BY <2>1, NothingWritten
  <2>3. \A s \in Threads : Tracked(s)'
    <3>1. \A k \in Nat : InProgress(p, "setHostname", k)
      BY <2>1 DEF RowsInv, InProgress, BeforeUrl, BeforeWarning, InLogMatch
    <3>2. \A k \in Nat : InProgress(p, "setHostname", k)'
      BY <2>2, <3>1, ProgressOnly DEF Labels
    <3>3. Tracked(t)'
      BY <1>0, <2>1, <3>2 DEF TypeOK, Tracked
    <3>4. \A s \in Threads \ {t} : Tracked(s)'
      BY <1>0, <2>1, <2>2, ProgressOnly DEF TypeOK, RowsInv, Tracked
    <3> QED
      BY <3>3, <3>4
  <2>4. /\ pending' \cap skipped' = {}
        /\ \A s \in Threads : request'[s] \notin pending' \cup skipped'
        /\ \A r, s \in Threads : request'[r] = request'[s] /\ request'[r] # None => r = s
    <3>1. /\ p \notin skipped /\ pending \cap skipped = {}
          /\ \A s \in Threads : request[s] # p /\ request[s] \notin pending \cup skipped
          /\ \A s \in Threads : request'[s] = IF s = t THEN p ELSE request[s]
      BY <1>0, <2>1, SMTT(40) DEF RowsInv, TypeOK
    <3>2. \A r, s \in Threads : request[r] = request[s] /\ request[r] # None => r = s
      BY DEF RowsInv
    <3> QED
      BY <2>1, <3>1, <3>2
  <2>5. KeywordsInBounds'
    BY <2>1, NothingWritten DEF RowsInv
  <2>6. \A q \in pending' \cup skipped' :
            NoUrl(q)' /\ NoWarning(q)' /\ \A n \in Nat : NoMatch(q, n)'
    BY <1>0, <2>1, <2>2, RowsOnly DEF RowsInv, TypeOK
  <2>7. ASSUME NEW q \in Packets \ (pending' \cup skipped'), \A s \in Threads : request'[s] # q
        PROVE  Complete(q)'
    <3>1. q # p /\ q \notin pending \cup skipped /\ \A s \in Threads \ {t} : request[s] # q
      BY <1>0, <2>1, <2>7 DEF TypeOK
    <3>2. CASE request[t] = q
      <4>1. key[t] \in Nat
        BY <1>0 DEF TypeOK
      <4>2. InProgress(q, "next", key[t])
        BY <2>1, <3>2, <4>1 DEF RowsInv, Tracked, Labels
      <4> QED
        BY <2>2, <4>2, RowsOnly DEF InProgress
    <3>3. CASE request[t] # q
      BY <2>2, <3>1, <3>3, RowsOnly DEF RowsInv
    <3> QED
      BY <3>2, <3>3
  <2> QED
    BY <1>0, <2>3, <2>4, <2>5, <2>6, <2>7 DEF RowsInv
<1>3. ASSUME NEW t \in Threads, StopCapture(t) PROVE RowsInv'
  <2>1. /\ UNCHANGED <<request, key, urls, warnings, matches, abandoned, pending, skipped>>
        /\ pc[t] = "next" /\ pc' = [pc EXCEPT ![t] = "done"]
    BY <1>3 DEF StopCapture, Goto, tables, envVars
  <2>2. CASE request[t] \in Packets
    BY <1>0, <2>1, <2>2, MoveStep
       DEF InProgress, Labels, BeforeUrl, BeforeWarning, InLogMatch
  <2>3. CASE request[t] \notin Packets
    <3>1. \A q \in Packets : SameRows(q)
      BY <2>1, NothingWritten
    <3>2. Tracked(t)'
      BY <2>1, <2>3 DEF Tracked
    <3>3. \A s \in Threads \ {t} : Tracked(s)'
      BY <1>0, <2>1, <3>1, ProgressOnly DEF TypeOK, RowsInv, Tracked
    <3>4. /\ KeywordsInBounds'
          /\ \A q \in pending \cup skipped :
                NoUrl(q)' /\ NoWarning(q)' /\ \A n \in Nat : NoMatch(q, n)'
          /\ \A q \in Packets \ (pending \cup skipped) :
                (\A s \in Threads : request[s] # q) => Complete(q)'
      BY <1>0, <2>1, <3>1, RowsOnly, NothingWritten DEF RowsInv, TypeOK
    <3> QED
      BY <1>0, <2>1, <3>2, <3>3, <3>4 DEF RowsInv
  <2> QED
    BY <2>2, <2>3
<1>4. ASSUME NEW t \in Threads, SetHostname(t) PROVE RowsInv'
  <2>1. /\ UNCHANGED <<request, key, urls, warnings, matches, abandoned, pending, skipped>>
        /\ pc[t] = "setHostname" /\ pc' = [pc EXCEPT ![t] = "setPath"]
    BY <1>4 DEF SetHostname, Goto, tables, envVars
  <2> QED
    BY <1>0, <2>1, MoveStep
       DEF TypeOK, InProgress, Labels, BeforeUrl, BeforeWarning, InLogMatch
<1>5. ASSUME NEW t \in Threads, SetPath(t) PROVE RowsInv'
  <2>1. /\ UNCHANGED <<request, key, urls, warnings, matches, abandoned, pending, skipped>>
        /\ pc[t] = "setPath" /\ pc' = [pc EXCEPT ![t] = "insertUrl"]
    BY <1>5 DEF SetPath, Goto, tables, envVars
  <2> QED
    BY <1>0, <2>1, MoveStep
       DEF TypeOK, InProgress, Labels, BeforeUrl, BeforeWarning, InLogMatch
<1>6. ASSUME NEW t \in Threads, InsertUrl(t) PROVE RowsInv'
  <2>0. PICK p \in Packets, k \in Nat : p = request[t] /\ k = key[t]
    BY <1>0, <1>6 DEF InsertUrl, TypeOK
  <2> DEFINE row == [host |-> hostname, path |-> path, by |-> p]
             n == Len(urls) + 1
  <2>1. /\ UNCHANGED <<request, key, warnings, matches, abandoned, pending, skipped>>
        /\ pc[t] = "insertUrl" /\ pc' = [pc EXCEPT ![t] = "getLastRowId"]
        /\ urls' = Append(urls, row)
    BY <1>6, <2>0 DEF InsertUrl, Goto, fields, envVars
  <2>2. row \in UrlRow /\ urls \in Seq(UrlRow)
    BY <1>0, <2>0 DEF TypeOK, UrlRow
  <2>3. /\ Len(urls) \in Nat
        /\ Len(urls') = n
        /\ \A u \in 1..Len(urls) : urls'[u] = urls[u]
        /\ urls'[n].by = p
    BY <2>1, <2>2, Appended
  <2>4. NoUrl(p) /\ NoWarning(p) /\ \A i \in Nat : NoMatch(p, i)
    BY <2>0, <2>1 DEF RowsInv, Tracked, InProgress, Labels, BeforeUrl, BeforeWarning
  <2>5. \A q \in Packets : /\ UrlsOf(q)' = IF q = p THEN {n} \cup UrlsOf(q) ELSE UrlsOf(q)
                           /\ WarningsOf(q)' = WarningsOf(q)
                           /\ \A i \in Nat : MatchRowsOf(q, i)' = MatchRowsOf(q, i)
    BY <2>1, <2>3 DEF UrlsOf, WarningsOf, MatchRowsOf
  <2>6. UrlDone(p)' /\ NoWarning(p)' /\ \A i \in Nat : NoMatch(p, i)'
    BY <2>1, <2>4, <2>5 DEF UrlDone, NoUrl, NoWarning, NoMatch, OneOrAbandoned
  <2>7. InProgress(p, "getLastRowId", k)'
    BY <2>6 DEF InProgress, BeforeUrl, BeforeWarning, InLogMatch
  <2>8. Tracked(t)'
    BY <1>0, <2>0, <2>1, <2>7 DEF TypeOK, Tracked
  <2>9. \A q \in Packets \ {p} : SameRows(q)
    BY <2>1, <2>5 DEF SameRows
  <2>10. KeywordsInBounds'
    BY <2>1 DEF RowsInv, KeywordsInBounds
  <2> QED
    BY <1>0, <2>0, <2>1, <2>8, <2>9, <2>10, ThreadStep DEF TypeOK
<1>7. ASSUME NEW t \in Threads, UrlFails(t) PROVE RowsInv'
  <2>0. PICK p \in Packets, k \in Nat : p = request[t] /\ k = key[t]
    BY <1>0, <1>7 DEF UrlFails, TypeOK
  <2>1. CASE Retry(t, "setHostname")
    <3>1. /\ UNCHANGED <<request, key, urls, warnings, matches, abandoned, pending, skipped>>
          /\ pc[t] = "insertUrl" /\ pc' = [pc EXCEPT ![t] = "setHostname"]
      BY <1>7, <2>1 DEF UrlFails, Retry, Goto, tables, envVars
    <3> QED
      BY <1>0, <2>0, <3>1, MoveStep
         DEF InProgress, Labels, BeforeUrl, BeforeWarning, InLogMatch
  <2>2. CASE GiveUp(t, <<"url", request[t], 0>>) /\ Goto(t, AfterUrl(t)) /\ UNCHANGED key
    <3> DEFINE label == IF Matches[p] > 0 THEN "setMatch" ELSE "next"
    <3>1. /\ UNCHANGED <<request, key, urls, warnings, matches, pending, skipped>>
          /\ pc[t] = "insertUrl" /\ pc' = [pc EXCEPT ![t] = label]
          /\ abandoned' = abandoned \cup {<<"url", p, 0>>}
      BY <1>7, <2>0, <2>2 DEF UrlFails, GiveUp, Goto, AfterUrl, tables, envVars
    <3>2. NoUrl(p) /\ NoWarning(p) /\ \A i \in Nat : NoMatch(p, i)
      BY <2>0, <3>1 DEF RowsInv, Tracked, InProgress, Labels, BeforeUrl, BeforeWarning
    <3>3. /\ \A q \in Packets \ {p} : SameRows(q)
          /\ UrlsOf(p)' = UrlsOf(p)
          /\ WarningsOf(p)' = WarningsOf(p)
          /\ \A i \in Nat : MatchRowsOf(p, i)' = MatchRowsOf(p, i)
          /\ KeywordsInBounds'
      BY <3>1, GivenUp DEF RowsInv
    <3>4. UrlDone(p)' /\ NoWarning(p)' /\ \A i \in Nat : NoMatch(p, i)'
      BY <3>1, <3>2, <3>3 DEF UrlDone, NoUrl, NoWarning, NoMatch, OneOrAbandoned
    <3>5. Matches[p] \in Nat
      OBVIOUS
    <3>6. InProgress(p, label, k)'
      BY <3>4, <3>5
         DEF InProgress, BeforeUrl, BeforeWarning, InLogMatch, Complete, NoWarning
    <3>7. Tracked(t)'
      BY <1>0, <2>0, <3>1, <3>6 DEF TypeOK, Tracked
    <3> QED
      BY <1>0, <2>0, <3>1, <3>3, <3>7, ThreadStep DEF TypeOK
  <2> QED
    BY <1>7, <2>1, <2>2 DEF UrlFails
<1>8. ASSUME NEW t \in Threads, GetLastRowId(t) PROVE RowsInv'
  <2>0. PICK p \in Packets : p = request[t]
    BY <1>0, <1>8 DEF GetLastRowId, TypeOK
  <2>1. /\ UNCHANGED <<request, key, urls, warnings, matches, abandoned, pending, skipped>>
        /\ pc[t] = "getLastRowId"
        /\ pc' = [pc EXCEPT ![t] = IF Matches[p] > 0 THEN "setMatch" ELSE "next"]
    BY <1>8, <2>0 DEF GetLastRowId, Goto, AfterUrl, tables, envVars
  <2>2. CASE Matches[p] > 0
    BY <1>0, <2>0, <2>1, <2>2, MoveStep
       DEF InProgress, Labels, BeforeUrl, BeforeWarning, InLogMatch
  <2>3. CASE ~(Matches[p] > 0)
    <3>1. Matches[p] = 0
      BY <2>3
    <3> QED
      BY <1>0, <2>0, <2>1, <3>1, MoveStep
         DEF InProgress, Labels, BeforeUrl, BeforeWarning, InLogMatch, Complete, NoWarning
  <2> QED
    BY <2>2, <2>3
<1>9. ASSUME NEW t \in Threads, SetMatch(t) PROVE RowsInv'
  <2>1. /\ UNCHANGED <<request, key, urls, warnings, matches, abandoned, pending, skipped>>
        /\ pc[t] = "setMatch" /\ pc' = [pc EXCEPT ![t] = "insertWarning"]
    BY <1>9 DEF SetMatch, Goto, tables, envVars
  <2> QED
    BY <1>0, <2>1, MoveStep
       DEF TypeOK, InProgress, Labels, BeforeUrl, BeforeWarning, InLogMatch
<1>10. ASSUME NEW t \in Threads, InsertWarning(t) PROVE RowsInv'
  <2>0. PICK p \in Packets : p = request[t]
    BY <1>0, <1>10 DEF InsertWarning, TypeOK
  <2> DEFINE row == [urlId |-> lastRowId, match |-> blacklistMatch, by |-> p,
                     last |-> Len(urls)]
             n == Len(warnings) + 1
  <2>1. /\ UNCHANGED <<request, urls, matches, abandoned, pending, skipped>>
        /\ pc[t] = "insertWarning" /\ pc' = [pc EXCEPT ![t] = "setKeyword"]
        /\ key' = [key EXCEPT ![t] = 1]
        /\ warnings' = Append(warnings, row)
    BY <1>10, <2>0 DEF InsertWarning, Goto, fields, envVars
  <2>2. row \in WarningRow /\ warnings \in Seq(WarningRow)
    BY <1>0, <2>0 DEF TypeOK, WarningRow
  <2>3. /\ Len(warnings) \in Nat
        /\ Len(warnings') = n
        /\ \A w \in 1..Len(warnings) : warnings'[w] = warnings[w]
        /\ warnings'[n].by = p
    BY <2>1, <2>2, Appended
  <2>4. UrlDone(p) /\ NoWarning(p) /\ (\A i \in Nat : NoMatch(p, i)) /\ Matches[p] > 0
    BY <1>0, <2>0, <2>1
       DEF TypeOK, RowsInv, Tracked, InProgress, Labels, BeforeUrl, BeforeWarning
  <2>5. \A q \in Packets : /\ UrlsOf(q)' = UrlsOf(q)
                           /\ WarningsOf(q)' = IF q = p THEN {n} \cup WarningsOf(q)
                                               ELSE WarningsOf(q)
                           /\ \A i \in Nat : MatchRowsOf(q, i)' = MatchRowsOf(q, i)
    BY <2>1, <2>3 DEF UrlsOf, WarningsOf, MatchRowsOf
  <2>6. UrlDone(p)' /\ WarningDone(p)' /\ \A i \in Nat : NoMatch(p, i)'
    BY <2>1, <2>4, <2>5 DEF UrlDone, WarningDone, NoWarning, NoMatch, OneOrAbandoned
  <2>7. Matches[p] \in Nat
    OBVIOUS
  <2>8. InProgress(p, "setKeyword", 1)'
    BY <2>4, <2>6, <2>7 DEF InProgress, BeforeUrl, BeforeWarning, InLogMatch
  <2>9. Tracked(t)'
    BY <1>0, <2>0, <2>1, <2>8 DEF TypeOK, Tracked
  <2>10. \A q \in Packets \ {p} : SameRows(q)
    BY <2>1, <2>5 DEF SameRows
  <2>11. KeywordsInBounds'
    BY <2>1 DEF RowsInv, KeywordsInBounds
  <2>12. \A s \in Threads \ {t} : pc'[s] = pc[s] /\ key'[s] = key[s]
    BY <1>0, <2>1 DEF TypeOK
  <2> QED
    BY <1>0, <2>0, <2>1, <2>9, <2>10, <2>11, <2>12, ThreadStep
<1>11. ASSUME NEW t \in Threads, WarningFails(t) PROVE RowsInv'
  <2>0. PICK p \in Packets, k \in Nat : p = request[t] /\ k = key[t]
    BY <1>0, <1>11 DEF WarningFails, TypeOK
  <2>1. CASE Retry(t, "setMatch")
    <3>1. /\ UNCHANGED <<request, key, urls, warnings, matches, abandoned, pending, skipped>>
          /\ pc[t] = "insertWarning" /\ pc' = [pc EXCEPT ![t] = "setMatch"]
      BY <1>11, <2>1 DEF WarningFails, Retry, Goto, tables, envVars
    <3> QED
      BY <1>0, <2>0, <3>1, MoveStep
         DEF InProgress, Labels, BeforeUrl, BeforeWarning, InLogMatch
  <2>2. CASE GiveUp(t, <<"warning", request[t], 0>>) /\ Goto(t, "next") /\ UNCHANGED key
    <3>1. /\ UNCHANGED <<request, key, urls, warnings, matches, pending, skipped>>
          /\ pc[t] = "insertWarning" /\ pc' = [pc EXCEPT ![t] = "next"]
          /\ abandoned' = abandoned \cup {<<"warning", p, 0>>}
      BY <1>11, <2>0, <2>2 DEF WarningFails, GiveUp, Goto, tables, envVars
    <3>2. UrlDone(p) /\ NoWarning(p)
      BY <2>0, <3>1 DEF RowsInv, Tracked, InProgress, Labels, BeforeUrl, BeforeWarning
    <3>3. /\ \A q \in Packets \ {p} : SameRows(q)
          /\ UrlsOf(p)' = UrlsOf(p)
          /\ WarningsOf(p)' = WarningsOf(p)
          /\ KeywordsInBounds'
      BY <3>1, GivenUp DEF RowsInv
    <3>4. UrlDone(p)' /\ WarningDone(p)' /\ WarningsOf(p)' = {}
      BY <3>1, <3>2, <3>3 DEF UrlDone, WarningDone, NoWarning, OneOrAbandoned
    <3>5. InProgress(p, "next", k)'
      BY <3>4 DEF InProgress, BeforeUrl, BeforeWarning, InLogMatch, Complete
    <3>6. Tracked(t)'
      BY <1>0, <2>0, <3>1, <3>5 DEF TypeOK, Tracked
    <3> QED
      BY <1>0, <2>0, <3>1, <3>3, <3>6, ThreadStep DEF TypeOK
  <2> QED
    BY <1>11, <2>1, <2>2 DEF WarningFails
<1>12. ASSUME NEW t \in Threads, SetKeyword(t) PROVE RowsInv'
  <2>1. /\ UNCHANGED <<request, key, urls, warnings, matches, abandoned, pending, skipped>>
        /\ pc[t] = "setKeyword" /\ pc' = [pc EXCEPT ![t] = "insertMatch"]
    BY <1>12 DEF SetKeyword, Goto, tables, envVars
  <2> QED
    BY <1>0, <2>1, MoveStep
       DEF TypeOK, InProgress, Labels, BeforeUrl, BeforeWarning, InLogMatch
<1>13. ASSUME NEW t \in Threads, InsertMatch(t) PROVE RowsInv'
  <2>0. PICK p \in Packets, k \in Nat : p = request[t] /\ k = key[t]
    BY <1>0, <1>13 DEF InsertMatch, TypeOK
  <2> DEFINE row == [urlId |-> lastRowId, word |-> keyword, by |-> p, nth |-> k]
             n == Len(matches) + 1
  <2>1. /\ UNCHANGED <<request, urls, warnings, abandoned, pending, skipped>>
        /\ pc[t] = "insertMatch"
        /\ matches' = Append(matches, row)
        /\ NextKeyword(t)
    BY <1>13, <2>0 DEF InsertMatch, fields, envVars
  <2>2. row \in MatchRow /\ matches \in Seq(MatchRow)
    BY <1>0, <2>0 DEF TypeOK, MatchRow
  <2>3. /\ Len(matches) \in Nat
        /\ Len(matches') = n
        /\ \A m \in 1..Len(matches) : matches'[m] = matches[m]
        /\ matches'[n].by = p /\ matches'[n].nth = k
    BY <2>1, <2>2, Appended
  <2>4. /\ UrlDone(p) /\ WarningDone(p) /\ k \in 1..Matches[p]
        /\ \A i \in 1..k - 1 : MatchDone(p, i)
        /\ \A i \in Nat : i >= k => NoMatch(p, i)
    BY <2>0, <2>1 DEF RowsInv, Tracked, InProgress, Labels, InLogMatch
  <2>5. \A q \in Packets : /\ UrlsOf(q)' = UrlsOf(q)
                           /\ WarningsOf(q)' = WarningsOf(q)
                           /\ \A i \in Nat : MatchRowsOf(q, i)' =
                                 IF q = p /\ i = k THEN {n} \cup MatchRowsOf(q, i)
                                 ELSE MatchRowsOf(q, i)
    BY <2>1, <2>3 DEF UrlsOf, WarningsOf, MatchRowsOf
  <2>6. UrlDone(p)' /\ WarningDone(p)'
    BY <2>1, <2>4, <2>5 DEF UrlDone, WarningDone, OneOrAbandoned
  <2>7. MatchDone(p, k)'
    <3>1. NoMatch(p, k)
      BY <2>4
    <3>2. MatchRowsOf(p, k)' = {n} /\ <<"match", p, k>> \notin abandoned'
      BY <2>1, <2>5, <3>1 DEF NoMatch
    <3> QED
      BY <3>2 DEF MatchDone, OneOrAbandoned
  <2>8. \A i \in 1..k - 1 : MatchDone(p, i)'
    BY <2>1, <2>4, <2>5 DEF MatchDone, OneOrAbandoned
  <2>9. \A i \in Nat : i >= k + 1 => NoMatch(p, i)'
    BY <2>1, <2>4, <2>5 DEF NoMatch
  <2>10. \A q \in Packets \ {p} : SameRows(q)
    BY <2>1, <2>5 DEF SameRows
  <2>11. KeywordsInBounds'
    <3> SUFFICES ASSUME NEW m \in 1..n PROVE matches'[m].nth \in 1..Matches[matches'[m].by]
      BY <2>3 DEF KeywordsInBounds
    <3>1. CASE m = n
      BY <2>3, <2>4, <3>1
    <3>2. CASE m # n
      <4>1. m \in 1..Len(matches)
        BY <2>3, <3>2
      <4> QED
        BY <2>3, <4>1 DEF RowsInv, KeywordsInBounds
    <3> QED
      BY <3>1, <3>2
  <2> QED
    BY <1>0, <2>0, <2>1, <2>4, <2>6, <2>7, <2>8, <2>9, <2>10, <2>11, KeywordStep
<1>14. ASSUME NEW t \in Threads, MatchFails(t) PROVE RowsInv'
  <2>0. PICK p \in Packets, k \in Nat : p = request[t] /\ k = key[t]
    BY <1>0, <1>14 DEF MatchFails, TypeOK
  <2>1. CASE Retry(t, "setKeyword")
    <3>1. /\ UNCHANGED <<request, key, urls, warnings, matches, abandoned, pending, skipped>>
          /\ pc[t] = "insertMatch" /\ pc' = [pc EXCEPT ![t] = "setKeyword"]
      BY <1>14, <2>1 DEF MatchFails, Retry, Goto, tables, envVars
    <3> QED
      BY <1>0, <2>0, <3>1, MoveStep
         DEF InProgress, Labels, BeforeUrl, BeforeWarning, InLogMatch
  <2>2. CASE GiveUp(t, <<"match", request[t], key[t]>>) /\ NextKeyword(t)
    <3>1. /\ UNCHANGED <<request, urls, warnings, matches, pending, skipped>>
          /\ pc[t] = "insertMatch"
          /\ abandoned' = abandoned \cup {<<"match", p, k>>}
      BY <1>14, <2>0, <2>2 DEF MatchFails, GiveUp, tables, envVars
    <3>2. /\ UrlDone(p) /\ WarningDone(p) /\ k \in 1..Matches[p]
          /\ \A i \in 1..k - 1 : MatchDone(p, i)
          /\ \A i \in Nat : i >= k => NoMatch(p, i)
      BY <2>0, <3>1 DEF RowsInv, Tracked, InProgress, Labels, InLogMatch
    <3>3. /\ \A q \in Packets \ {p} : SameRows(q)
          /\ UrlsOf(p)' = UrlsOf(p)
          /\ WarningsOf(p)' = WarningsOf(p)
          /\ \A i \in Nat : MatchRowsOf(p, i)' = MatchRowsOf(p, i)
          /\ KeywordsInBounds'
      BY <3>1, GivenUp DEF RowsInv
    <3>4. UrlDone(p)' /\ WarningDone(p)'
      BY <3>1, <3>2, <3>3 DEF UrlDone, WarningDone, OneOrAbandoned
    <3>5. MatchDone(p, k)'
      <4>1. NoMatch(p, k)
        BY <3>2
      <4>2. MatchRowsOf(p, k)' = {} /\ <<"match", p, k>> \in abandoned'
        BY <3>1, <3>3, <4>1 DEF NoMatch
      <4> QED
        BY <4>2 DEF MatchDone, OneOrAbandoned
    <3>6. \A i \in 1..k - 1 : MatchDone(p, i)'
      BY <3>1, <3>2, <3>3 DEF MatchDone, OneOrAbandoned
    <3>7. \A i \in Nat : i >= k + 1 => NoMatch(p, i)'
      BY <3>1, <3>2, <3>3 DEF NoMatch
    <3> QED
      BY <1>0, <2>0, <2>2, <3>1, <3>2, <3>3, <3>4, <3>5, <3>6, <3>7, KeywordStep
  <2> QED
    BY <1>14, <2>1, <2>2 DEF MatchFails
<1>15. CASE UNCHANGED vars
  <2>1. UNCHANGED <<pc, request, key, urls, warnings, matches, abandoned, pending, skipped>>
    BY <1>15 DEF vars, threadVars, tables, envVars
  <2>2. \A q \in Packets : SameRows(q)
    BY <2>1, NothingWritten
  <2>3. \A s \in Threads : Tracked(s)'
    BY <2>1, <2>2, ProgressOnly DEF RowsInv, Tracked
  <2>4. /\ KeywordsInBounds'
        /\ \A q \in pending \cup skipped :
              NoUrl(q)' /\ NoWarning(q)' /\ \A n \in Nat : NoMatch(q, n)'
        /\ \A q \in Packets \ (pending \cup skipped) :
              (\A s \in Threads : request[s] # q) => Complete(q)'
    BY <1>0, <2>1, <2>2, RowsOnly, NothingWritten DEF RowsInv, TypeOK
  <2> QED
    BY <1>0, <2>1, <2>3, <2>4 DEF RowsInv
<1> QED
  BY <1>1, <1>2, <1>3, <1>4, <1>5, <1>6, <1>7, <1>8, <1>9, <1>10, <1>11, <1>12, <1>13,
     <1>14, <1>15 DEF Next, CaptureStep, LogStep, JoinAll

\* However many threads log at the same time, and whatever locks and errors the
\* database meets, every request gets exactly the rows it needs.
THEOREM RowsCorrect == Spec => []RowsPerRequest
<1>1. Init => RowsInv
  <2> SUFFICES ASSUME Init PROVE RowsInv
    OBVIOUS
  <2>1. /\ Len(urls) = 0 /\ Len(warnings) = 0 /\ Len(matches) = 0 /\ abandoned = {}
        /\ pending = Packets /\ skipped = {}
        /\ \A t \in Threads : request[t] = None
    BY DEF Init
  <2>2. \A p : /\ UrlsOf(p) = {} /\ WarningsOf(p) = {}
               /\ \A n : MatchRowsOf(p, n) = {}
    BY <2>1 DEF UrlsOf, WarningsOf, MatchRowsOf
  <2>3. \A p : NoUrl(p) /\ NoWarning(p) /\ \A n : NoMatch(p, n)
    BY <2>1, <2>2 DEF NoUrl, NoWarning, NoMatch
  <2>4. KeywordsInBounds /\ \A t \in Threads : Tracked(t)
    BY <2>1, SnifferLogAssumption DEF KeywordsInBounds, Tracked
  <2> QED
    BY <2>1, <2>3, <2>4, InitType, SnifferLogAssumption DEF RowsInv
<1>2. RowsInv /\ [Next]_vars => RowsInv'
  BY RowsStep
<1>3. RowsInv => RowsPerRequest
  <2> SUFFICES ASSUME RowsInv PROVE RowsPerRequest
    OBVIOUS
  <2>1. ASSUME NEW p \in Packets, Settled(p) PROVE Complete(p)
    <3>1. CASE \E t \in Threads : request[t] = p
      <4>1. PICK t \in Threads : request[t] = p
        BY <3>1
      <4>2. pc[t] \in {"next", "done"} /\ key[t] \in Nat
        BY <2>1, <4>1 DEF Settled, RowsInv, TypeOK
      <4>3. InProgress(p, pc[t], key[t])
        BY <4>1, <4>2 DEF RowsInv, Tracked, Labels
      <4> QED
        BY <4>2, <4>3 DEF InProgress
    <3>2. CASE \A t \in Threads : request[t] # p
      BY <2>1, <3>2 DEF Settled, RowsInv
    <3> QED
      BY <3>1, <3>2
  <2> QED
    BY <2>1 DEF RowsInv, RowsPerRequest, KeywordsInBounds, Complete, UrlDone, WarningDone,
                MatchDone
<1> QED
  BY <1>1, <1>2, <1>3, PTL DEF Spec

-----------------------------------------------------------------------------
(***************************************************************************)
(* What a single thread writes.                                            *)
(***************************************************************************)
\* Every row of matches holds the keyword that its turn of the loop was for.
WordsAreOwn ==
    /\ \A m \in 1..Len(matches) : matches[m].word = <<matches[m].by, matches[m].nth>>
    /\ \A t \in Threads : pc[t] = "insertMatch" => keyword = <<request[t], key[t]>>

\* A row of matches is added, or none is, and a thread inserts what it has bound.
LEMMA WordsStep ==
    ASSUME NEW t, Threads = {t}, TypeOK, WordsAreOwn, [Next]_vars
    PROVE  WordsAreOwn'
<1>0. t \in Threads /\ TypeOK'
  BY TypeStep
<1>1. ASSUME UNCHANGED matches, pc'[t] = "insertMatch" => UNCHANGED <<pc, keyword, request, key>>
      PROVE  WordsAreOwn'
  BY <1>1 DEF WordsAreOwn
<1>2. ASSUME NEW p \in Packets, SkipPacket(t, p) \/ GotRequest(t, p) PROVE WordsAreOwn'
  BY <1>0, <1>1, <1>2 DEF SkipPacket, GotRequest, Goto, TypeOK, threadVars, fields, tables
<1>3. ASSUME StopCapture(t) \/ SetHostname(t) \/ SetPath(t) \/ InsertUrl(t) \/ UrlFails(t)
             \/ GetLastRowId(t) \/ SetMatch(t) \/ InsertWarning(t) \/ WarningFails(t)
      PROVE  WordsAreOwn'
  <2>1. UNCHANGED matches
    BY <1>3 DEF StopCapture, SetHostname, SetPath, InsertUrl, UrlFails, GetLastRowId, SetMatch,
                InsertWarning, WarningFails, Retry, GiveUp, tables
  <2>2. pc'[t] # "insertMatch"
    BY <1>0, <1>3 DEF StopCapture, SetHostname, SetPath, InsertUrl, UrlFails, GetLastRowId,
                      SetMatch, InsertWarning, WarningFails, Retry, GiveUp, AfterUrl, Goto, TypeOK
  <2> QED
    BY <1>1, <2>1, <2>2
<1>4. ASSUME SetKeyword(t) PROVE WordsAreOwn'
  BY <1>0, <1>4 DEF SetKeyword, Goto, WordsAreOwn, TypeOK, tables
<1>5. ASSUME InsertMatch(t) PROVE WordsAreOwn'
  <2> DEFINE row == [urlId |-> lastRowId, word |-> keyword, by |-> request[t], nth |-> key[t]]
  <2>1. row \in MatchRow /\ matches \in Seq(MatchRow) /\ matches' = Append(matches, row)
    BY <1>0, <1>5 DEF InsertMatch, TypeOK, MatchRow
  <2>2. row.word = <<row.by, row.nth>>
    BY <1>0, <1>5 DEF InsertMatch, WordsAreOwn
  <2>3. pc'[t] # "insertMatch"
    BY <1>0, <1>5 DEF InsertMatch, NextKeyword, Goto, TypeOK
  <2> HIDE DEF row
  <2>4. \A m \in 1..Len(matches') : matches'[m].word = <<matches'[m].by, matches'[m].nth>>
    BY <2>1, <2>2, Appended DEF WordsAreOwn
  <2> QED
    BY <2>3, <2>4 DEF WordsAreOwn
<1>6. ASSUME MatchFails(t) PROVE WordsAreOwn'
  <2>1. UNCHANGED matches
    BY <1>6 DEF MatchFails, Retry, GiveUp, tables
  <2>2. pc'[t] # "insertMatch"
    BY <1>0, <1>6 DEF MatchFails, Retry, NextKeyword, Goto, TypeOK
  <2> QED
    BY <1>1, <2>1, <2>2
<1>7. CASE UNCHANGED vars
  BY <1>1, <1>7 DEF vars, threadVars, fields, tables
<1> QED
  BY <1>2, <1>3, <1>4, <1>5, <1>6, <1>7 DEF Next, CaptureStep, LogStep, JoinAll

\* With a single device the keyword rows are right throughout.
LEMMA AlwaysOwnWords ==
    ASSUME NEW t, Threads = {t}
    PROVE  Spec => []WordsAreOwn
<1>1. Init => WordsAreOwn
  BY DEF Init, WordsAreOwn
<1>2. TypeOK /\ WordsAreOwn /\ [Next]_vars => WordsAreOwn'
  BY WordsStep
<1> QED
  BY <1>1, <1>2, TypeCorrect, PTL DEF Spec

\* "Log a URL that's visited" (Database.h:158): with a single device, each request
\* that was read is found once, under its own hostname and path, and each of its
\* keywords once, unless a statement was given up.
THEOREM LoggedOnceCorrect ==
    ASSUME NEW t, Threads = {t}
    PROVE  Spec => []LoggedExactlyOnce
<1>1. OneThreadInv /\ WordsAreOwn /\ RowsPerRequest => LoggedExactlyOnce
  <2> SUFFICES ASSUME OneThreadInv, WordsAreOwn, RowsPerRequest, NEW p \in Packets, Settled(p)
               PROVE  /\ OneOrAbandoned({u \in 1..Len(urls) : urls[u].host = p /\ urls[u].path = p},
                                        <<"url", p, 0>>)
                      /\ WarningsOf(p) # {} => \A k \in 1..Matches[p] :
                             OneOrAbandoned(MatchesOf(p, k), <<"match", p, k>>)
    BY DEF LoggedExactlyOnce
  <2>1. {u \in 1..Len(urls) : urls[u].host = p /\ urls[u].path = p} = UrlsOf(p)
    BY DEF OneThreadInv, UrlsAreWhole, UrlsOf
  <2>2. \A k : MatchesOf(p, k) = MatchRowsOf(p, k)
    BY DEF WordsAreOwn, MatchesOf, MatchRowsOf
  <2> QED
    BY <2>1, <2>2 DEF RowsPerRequest
<1> QED
  BY <1>1, AlwaysOneThread, AlwaysOwnWords, RowsCorrect, PTL

-----------------------------------------------------------------------------
(***************************************************************************)
(* The refinement of FlaggedLog.                                           *)
(***************************************************************************)
\* The keywords that readers find with the n-th URL, and the first k of packet p.
WordsAt(n) == {matches[m].word : m \in {m \in 1..Len(matches) : matches[m].urlId = n}}

WordsUpTo(p, k) == {<<p, j>> : j \in 1..k}

FlaggedAt(n) == \E w \in 1..Len(warnings) : warnings[w].urlId = n

\* Readers find a URL for every warning and every keyword.
UrlIdsExist ==
    /\ \A w \in 1..Len(warnings) : warnings[w].urlId \in 1..Len(urls)
    /\ \A m \in 1..Len(matches) : matches[m].urlId \in 1..Len(urls)

\* How far the last URL has got when its thread is about to execute label with
\* the k-th keyword of packet p.
LastUrlAt(label, p, k) ==
    /\ label \in {"next", "done"} \cup BeforeUrl =>
          (Len(urls) > 0 => LET q == urls[Len(urls)].by
                            IN  WordsAt(Len(urls)) = WordsUpTo(q, Matches[q]))
    /\ label \in BeforeWarning \cup InLogMatch => Len(urls) > 0 /\ urls[Len(urls)].by = p
    /\ label \in BeforeWarning => ~FlaggedAt(Len(urls)) /\ WordsAt(Len(urls)) = {}
    /\ label \in {"setMatch", "insertWarning"} => Matches[p] > 0
    /\ label \in InLogMatch =>
          /\ FlaggedAt(Len(urls))
          /\ k \in 1..Matches[p]
          /\ WordsAt(Len(urls)) = WordsUpTo(p, k - 1)

\* What the refinement rests on besides OneThreadInv: as long as nothing was given
\* up, entries are completed one after another.
EntryInv ==
    abandoned = {} =>
        /\ UrlIdsExist
        /\ \A t \in Threads : LastUrlAt(pc[t], request[t], key[t])

\* What does not touch the tables leaves what readers find.
LEMMA SameEntries ==
    ASSUME UNCHANGED <<urls, warnings, matches>>
    PROVE  /\ UrlIdsExist => UrlIdsExist'
           /\ \A n : WordsAt(n)' = WordsAt(n) /\ FlaggedAt(n)' = FlaggedAt(n)
           /\ \A label, p, k : LastUrlAt(label, p, k) => LastUrlAt(label, p, k)'
<1>1. \A n : WordsAt(n)' = WordsAt(n) /\ FlaggedAt(n)' = FlaggedAt(n)
  BY DEF WordsAt, FlaggedAt
<1>2. \A label, p, k : LastUrlAt(label, p, k) => LastUrlAt(label, p, k)'
  BY <1>1 DEF LastUrlAt
<1> QED
  BY <1>1, <1>2 DEF UrlIdsExist

\* An inserted URL has neither a warning nor keywords, and leaves the others
\* theirs.
LEMMA UrlAdded ==
    ASSUME TypeOK, UrlIdsExist, NEW t \in Threads, InsertUrl(t)
    PROVE  /\ urls' = Append(urls, [host |-> hostname, path |-> path, by |-> request[t]])
           /\ Len(urls) \in Nat
           /\ Len(urls') = Len(urls) + 1
           /\ \A n \in 1..Len(urls) : urls'[n] = urls[n]
           /\ urls'[Len(urls) + 1] = [host |-> hostname, path |-> path, by |-> request[t]]
           /\ UNCHANGED <<warnings, matches>>
           /\ \A n : WordsAt(n)' = WordsAt(n) /\ FlaggedAt(n)' = FlaggedAt(n)
           /\ WordsAt(Len(urls) + 1) = {} /\ FlaggedAt(Len(urls) + 1) = FALSE
<1> DEFINE row == [host |-> hostname, path |-> path, by |-> request[t]]
<1>1. row \in UrlRow /\ urls \in Seq(UrlRow) /\ urls' = Append(urls, row)
  BY DEF InsertUrl, TypeOK, UrlRow
<1>2. UNCHANGED <<warnings, matches>>
  BY DEF InsertUrl
<1>3. \A n : WordsAt(n)' = WordsAt(n) /\ FlaggedAt(n)' = FlaggedAt(n)
  BY <1>2 DEF WordsAt, FlaggedAt
<1>4. Len(urls) \in Nat
  BY <1>1
<1>5. WordsAt(Len(urls) + 1) = {} /\ FlaggedAt(Len(urls) + 1) = FALSE
  BY <1>4 DEF WordsAt, FlaggedAt, UrlIdsExist
<1> HIDE DEF row
<1>6. /\ Len(urls') = Len(urls) + 1
      /\ \A n \in 1..Len(urls) : urls'[n] = urls[n]
      /\ urls'[Len(urls) + 1] = row
  BY <1>1, Appended
<1> QED
  BY <1>1, <1>2, <1>3, <1>4, <1>5, <1>6 DEF row

\* An inserted warning flags the URL that lastRowId leads to, and no other.
LEMMA WarningAdded ==
    ASSUME TypeOK, NEW t \in Threads, InsertWarning(t)
    PROVE  /\ UNCHANGED <<urls, matches, lastRowId>>
           /\ \A n : WordsAt(n)' = WordsAt(n)
           /\ \A n : FlaggedAt(n)' = (FlaggedAt(n) \/ n = lastRowId)
           /\ UrlIdsExist /\ lastRowId \in 1..Len(urls) => UrlIdsExist'
<1> DEFINE row == [urlId |-> lastRowId, match |-> blacklistMatch, by |-> request[t],
                   last |-> Len(urls)]
<1>0. request[t] \in Packets /\ Len(urls) \in Nat
  <2>1. request[t] \in Packets
    BY DEF InsertWarning, TypeOK
  <2>2. Len(urls) \in Nat
    BY DEF TypeOK
  <2> QED
    BY <2>1, <2>2
<1>1. row \in WarningRow /\ warnings \in Seq(WarningRow) /\ warnings' = Append(warnings, row)
  BY <1>0 DEF InsertWarning, TypeOK, WarningRow
<1>2. row.urlId = lastRowId
  OBVIOUS
<1>3. UNCHANGED <<urls, matches, lastRowId>>
  BY DEF InsertWarning, fields
<1> HIDE DEF row
<1>4. /\ Len(warnings) \in Nat
      /\ Len(warnings') = Len(warnings) + 1
      /\ \A w \in 1..Len(warnings) : warnings'[w] = warnings[w]
      /\ warnings'[Len(warnings) + 1] = row
  BY <1>1, Appended
<1>5. \A n : FlaggedAt(n)' = (FlaggedAt(n) \/ n = lastRowId)
  <2>1. \A n : FlaggedAt(n)' <=> FlaggedAt(n) \/ n = lastRowId
    BY <1>2, <1>4 DEF FlaggedAt
  <2>2. \A n : FlaggedAt(n)' \in BOOLEAN
    BY DEF FlaggedAt
  <2> QED
    BY <2>1, <2>2
<1>6. \A n : WordsAt(n)' = WordsAt(n)
  BY <1>3 DEF WordsAt
<1>7. ASSUME UrlIdsExist, lastRowId \in 1..Len(urls)
      PROVE  UrlIdsExist'
  <2>1. \A w \in 1..Len(warnings') : w \in 1..Len(warnings) \/ w = Len(warnings) + 1
    BY <1>4
  <2>2. \A w \in 1..Len(warnings') : warnings'[w].urlId \in 1..Len(urls)
    BY <1>2, <1>4, <1>7, <2>1 DEF UrlIdsExist
  <2> QED
    BY <1>3, <1>7, <2>2 DEF UrlIdsExist
<1> QED
  BY <1>3, <1>5, <1>6, <1>7

\* An inserted keyword is one more of the URL that lastRowId leads to.
LEMMA MatchAdded ==
    ASSUME TypeOK, NEW t \in Threads, InsertMatch(t)
    PROVE  /\ UNCHANGED <<urls, warnings, lastRowId>>
           /\ \A n : FlaggedAt(n)' = FlaggedAt(n)
           /\ \A n : WordsAt(n)' = IF n = lastRowId THEN WordsAt(n) \cup {keyword} ELSE WordsAt(n)
           /\ UrlIdsExist /\ lastRowId \in 1..Len(urls) => UrlIdsExist'
<1> DEFINE row == [urlId |-> lastRowId, word |-> keyword, by |-> request[t], nth |-> key[t]]
<1>1. row \in MatchRow /\ matches \in Seq(MatchRow) /\ matches' = Append(matches, row)
  BY DEF InsertMatch, TypeOK, MatchRow
<1>2. row.urlId = lastRowId /\ row.word = keyword
  OBVIOUS
<1>3. UNCHANGED <<urls, warnings, lastRowId>>
  BY DEF InsertMatch, fields
<1> HIDE DEF row
<1>4. /\ Len(matches) \in Nat
      /\ Len(matches') = Len(matches) + 1
      /\ \A m \in 1..Len(matches) : matches'[m] = matches[m]
      /\ matches'[Len(matches) + 1] = row
  BY <1>1, Appended
<1>5. ASSUME NEW n
      PROVE  WordsAt(n)' = IF n = lastRowId THEN WordsAt(n) \cup {keyword} ELSE WordsAt(n)
  <2>1. \A x : x \in WordsAt(n)' <=> x \in WordsAt(n) \/ (n = lastRowId /\ x = keyword)
    BY <1>2, <1>4 DEF WordsAt
  <2> QED
    BY <2>1
<1>6. \A n : FlaggedAt(n)' = FlaggedAt(n)
  BY <1>3 DEF FlaggedAt
<1>7. UrlIdsExist /\ lastRowId \in 1..Len(urls) => UrlIdsExist'
  BY <1>2, <1>3, <1>4 DEF UrlIdsExist
<1> QED
  BY <1>3, <1>5, <1>6, <1>7

\* The next keyword of a packet, after those before it.
LEMMA OneWordMore ==
    ASSUME NEW p, NEW k \in Nat, k > 0
    PROVE  WordsUpTo(p, k - 1) \cup {<<p, k>>} = WordsUpTo(p, k)
<1>1. 1..k = (1..(k - 1)) \cup {k}
  OBVIOUS
<1> QED
  BY <1>1, Zenon DEF WordsUpTo

\* Before the first keyword there are none.
LEMMA NoWordYet == \A p : WordsUpTo(p, 0) = {}
BY DEF WordsUpTo

\* What was given up is remembered.
LEMMA StillUnbroken ==
    ASSUME [Next]_vars, abandoned' = {}
    PROVE  abandoned = {}
<1>1. \A t, label : Retry(t, label) => UNCHANGED abandoned
  BY DEF Retry
<1>2. \A t, what : GiveUp(t, what) => abandoned' # {}
  BY DEF GiveUp
<1> QED
  BY <1>1, <1>2
     DEF Next, CaptureStep, LogStep, JoinAll, SkipPacket, GotRequest, StopCapture, SetHostname,
         SetPath, InsertUrl, UrlFails, GetLastRowId, SetMatch, InsertWarning, WarningFails,
         SetKeyword, InsertMatch, MatchFails, vars

\* A step that writes no row, and after which the thread stands where the last URL
\* may be as it is, keeps the invariant.
LEMMA MoveEntry ==
    ASSUME NEW t, Threads = {t}, EntryInv, abandoned' = {} => abandoned = {},
           UNCHANGED <<urls, warnings, matches>>,
           abandoned' = {} =>
               \/ UNCHANGED <<pc, request, key>>
               \/ LastUrlAt(pc[t], request[t], key[t]) => LastUrlAt(pc'[t], request'[t], key'[t])
    PROVE  EntryInv'
<1> SUFFICES ASSUME abandoned' = {} PROVE UrlIdsExist' /\ LastUrlAt(pc[t], request[t], key[t])'
  BY DEF EntryInv
<1>1. UrlIdsExist /\ LastUrlAt(pc[t], request[t], key[t])
  BY DEF EntryInv
<1>2. LastUrlAt(pc'[t], request'[t], key'[t])
  BY <1>1
<1>3. LastUrlAt(pc[t], request[t], key[t])'
  BY <1>2, SameEntries
<1> QED
  BY <1>1, <1>3, SameEntries

\* With a single device every step completes the last entry, or begins the next
\* when the last one is complete.
LEMMA EntryStep ==
    ASSUME NEW t, Threads = {t}, OneThreadInv, WordsAreOwn, EntryInv, [Next]_vars
    PROVE  EntryInv'
<1> USE SnifferLogAssumption DEF BeforeUrl, BeforeWarning, InLogMatch
<1>0. /\ t \in Threads /\ TypeOK /\ TypeOK'
      /\ abandoned' = {} => abandoned = {}
  BY TypeStep, StillUnbroken DEF OneThreadInv
<1>1. ASSUME NEW p \in Packets, SkipPacket(t, p) PROVE EntryInv'
  BY <1>0, <1>1, MoveEntry DEF SkipPacket, threadVars, tables
<1>2. ASSUME NEW p \in Packets, GotRequest(t, p) PROVE EntryInv'
  <2>1. LastUrlAt(pc[t], request[t], key[t]) => LastUrlAt(pc'[t], request'[t], key'[t])
    BY <1>0, <1>2 DEF GotRequest, Goto, TypeOK, LastUrlAt
  <2> QED
    BY <1>0, <1>2, <2>1, MoveEntry DEF GotRequest, tables
<1>3. ASSUME StopCapture(t) \/ SetHostname(t) \/ SetPath(t) PROVE EntryInv'
  <2>1. LastUrlAt(pc[t], request[t], key[t]) => LastUrlAt(pc'[t], request'[t], key'[t])
    BY <1>0, <1>3 DEF StopCapture, SetHostname, SetPath, Goto, TypeOK, LastUrlAt
  <2> QED
    BY <1>0, <1>3, <2>1, MoveEntry DEF StopCapture, SetHostname, SetPath, tables
<1>4. ASSUME InsertUrl(t) PROVE EntryInv'
  <2> SUFFICES ASSUME abandoned' = {}
               PROVE  UrlIdsExist' /\ LastUrlAt(pc[t], request[t], key[t])'
    BY DEF EntryInv
  <2>1. UrlIdsExist /\ Len(urls) \in Nat
    <3>1. UrlIdsExist
      BY <1>0 DEF EntryInv
    <3>2. Len(urls) \in Nat
      BY <1>0 DEF TypeOK
    <3> QED
      BY <3>1, <3>2
  <2>2. pc'[t] = "getLastRowId" /\ request'[t] = request[t]
    BY <1>0, <1>4 DEF InsertUrl, Goto, TypeOK
  <2>3. /\ Len(urls') = Len(urls) + 1 /\ urls'[Len(urls')].by = request[t]
        /\ UNCHANGED <<warnings, matches>>
    BY <1>0, <1>4, <2>1, UrlAdded
  <2>4. WordsAt(Len(urls))' = {} /\ ~FlaggedAt(Len(urls))'
    BY <1>0, <1>4, <2>1, <2>3, UrlAdded
  <2>5. UrlIdsExist'
    BY <2>1, <2>3 DEF UrlIdsExist
  <2> QED
    BY <2>1, <2>2, <2>3, <2>4, <2>5 DEF LastUrlAt
<1>5. ASSUME UrlFails(t) PROVE EntryInv'
  <2>1. LastUrlAt(pc[t], request[t], key[t]) /\ abandoned' = {}
        => LastUrlAt(pc'[t], request'[t], key'[t])
    BY <1>0, <1>5 DEF UrlFails, Retry, GiveUp, Goto, TypeOK, LastUrlAt
  <2> QED
    BY <1>0, <1>5, <2>1, MoveEntry DEF UrlFails, Retry, GiveUp, tables
<1>6. ASSUME GetLastRowId(t) PROVE EntryInv'
  <2>1. LastUrlAt(pc[t], request[t], key[t]) => LastUrlAt(pc'[t], request'[t], key'[t])
    <3>1. request[t] \in Packets /\ Matches[request[t]] \in Nat
      BY <1>0, <1>6 DEF GetLastRowId, TypeOK
    <3>2. UNCHANGED request /\ pc[t] = "getLastRowId"
      BY <1>6 DEF GetLastRowId
    <3>3. CASE Matches[request[t]] > 0
      <4>1. pc'[t] = "setMatch"
        BY <1>0, <1>6, <3>3 DEF GetLastRowId, AfterUrl, Goto, TypeOK
      <4> QED
        BY <3>2, <3>3, <4>1 DEF LastUrlAt
    <3>4. CASE Matches[request[t]] = 0
      <4>1. pc'[t] = "next"
        BY <1>0, <1>6, <3>4 DEF GetLastRowId, AfterUrl, Goto, TypeOK
      <4>2. WordsUpTo(request[t], Matches[request[t]]) = {}
        BY <3>4, NoWordYet
      <4> QED
        BY <3>2, <4>1, <4>2 DEF LastUrlAt
    <3> QED
      BY <3>1, <3>3, <3>4
  <2> QED
    BY <1>0, <1>6, <2>1, MoveEntry DEF GetLastRowId, tables
<1>7. ASSUME SetMatch(t) \/ WarningFails(t) PROVE EntryInv'
  <2>1. LastUrlAt(pc[t], request[t], key[t]) /\ abandoned' = {}
        => LastUrlAt(pc'[t], request'[t], key'[t])
    BY <1>0, <1>7 DEF SetMatch, WarningFails, Retry, GiveUp, Goto, TypeOK, LastUrlAt
  <2> QED
    BY <1>0, <1>7, <2>1, MoveEntry DEF SetMatch, WarningFails, Retry, GiveUp, tables
<1>8. ASSUME InsertWarning(t) PROVE EntryInv'
  <2> SUFFICES ASSUME abandoned' = {}
               PROVE  UrlIdsExist' /\ LastUrlAt(pc[t], request[t], key[t])'
    BY DEF EntryInv
  <2>1. UrlIdsExist /\ LastUrlAt(pc[t], request[t], key[t])
    BY <1>0 DEF EntryInv
  <2>2. /\ Len(urls) \in Nat /\ Len(urls) > 0 /\ urls[Len(urls)].by = request[t]
        /\ WordsAt(Len(urls)) = {} /\ Matches[request[t]] > 0
    BY <1>0, <1>8, <2>1 DEF InsertWarning, LastUrlAt, TypeOK
  <2>3. lastRowId = Len(urls)
    BY <1>0, <1>8, <2>2 DEF InsertWarning, OneThreadInv, InFlight
  <2>4. pc'[t] = "setKeyword" /\ request'[t] = request[t] /\ key'[t] = 1
    BY <1>0, <1>8 DEF InsertWarning, Goto, TypeOK
  <2>5. request[t] \in Packets /\ Matches[request[t]] \in Nat
    BY <1>0, <1>8 DEF InsertWarning, TypeOK
  <2>6. UNCHANGED urls /\ FlaggedAt(Len(urls))' /\ WordsAt(Len(urls))' = {} /\ UrlIdsExist'
    <3>1. UNCHANGED urls /\ UrlIdsExist' /\ \A n : WordsAt(n)' = WordsAt(n)
      BY <1>0, <1>8, <2>1, <2>2, <2>3, WarningAdded
    <3>2. \A n : n = lastRowId => FlaggedAt(n)'
      BY <1>0, <1>8, WarningAdded
    <3> QED
      BY <2>2, <2>3, <3>1, <3>2
  <2>7. WordsUpTo(request[t], 1 - 1) = {} /\ 1 \in 1..Matches[request[t]]
    BY <2>2, <2>5, NoWordYet
  <2> QED
    BY <2>2, <2>4, <2>6, <2>7 DEF LastUrlAt
<1>9. ASSUME SetKeyword(t) PROVE EntryInv'
  <2>1. LastUrlAt(pc[t], request[t], key[t]) => LastUrlAt(pc'[t], request'[t], key'[t])
    BY <1>0, <1>9 DEF SetKeyword, Goto, TypeOK, LastUrlAt
  <2> QED
    BY <1>0, <1>9, <2>1, MoveEntry DEF SetKeyword, tables
<1>10. ASSUME InsertMatch(t) PROVE EntryInv'
  <2> DEFINE p == request[t]
             k == key[t]
  <2> SUFFICES ASSUME abandoned' = {}
               PROVE  UrlIdsExist' /\ LastUrlAt(pc[t], request[t], key[t])'
    BY DEF EntryInv
  <2>1. UrlIdsExist /\ LastUrlAt(pc[t], p, k)
    BY <1>0 DEF EntryInv
  <2>2. /\ Len(urls) \in Nat /\ Len(urls) > 0 /\ urls[Len(urls)].by = p
        /\ FlaggedAt(Len(urls)) /\ k \in 1..Matches[p]
        /\ WordsAt(Len(urls)) = WordsUpTo(p, k - 1)
    BY <1>0, <1>10, <2>1 DEF InsertMatch, LastUrlAt, TypeOK
  <2>3. lastRowId = Len(urls) /\ keyword = <<p, k>>
    BY <1>0, <1>10, <2>2 DEF InsertMatch, OneThreadInv, InFlight, WordsAreOwn
  <2>4. p \in Packets /\ Matches[p] \in Nat /\ k \in Nat
    BY <1>0, <1>10 DEF InsertMatch, TypeOK
  <2>5. UNCHANGED urls /\ FlaggedAt(Len(urls))' /\ UrlIdsExist'
    BY <1>0, <1>10, <2>1, <2>2, <2>3, MatchAdded
  <2>6. WordsAt(Len(urls))' = WordsUpTo(p, k)
    <3>1. \A n : WordsAt(n)' = IF n = lastRowId THEN WordsAt(n) \cup {keyword} ELSE WordsAt(n)
      BY <1>0, <1>10, MatchAdded
    <3>2. WordsAt(Len(urls))' = WordsUpTo(p, k - 1) \cup {<<p, k>>}
      BY <2>2, <2>3, <2>5, <3>1
    <3>3. k > 0
      BY <2>2, <2>4
    <3> QED
      BY <2>4, <3>2, <3>3, OneWordMore
  <2>7. request'[t] = p
    BY <1>10 DEF InsertMatch
  <2> HIDE DEF p, k
  <2>8. CASE k < Matches[p]
    <3>1. pc'[t] = "setKeyword" /\ key'[t] = k + 1
      BY <1>0, <1>10, <2>8 DEF InsertMatch, NextKeyword, Goto, TypeOK, p, k
    <3>2. k + 1 \in 1..Matches[p] /\ (k + 1) - 1 = k
      BY <2>4, <2>8
    <3> QED
      BY <2>2, <2>5, <2>6, <2>7, <3>1, <3>2 DEF LastUrlAt
  <2>9. CASE ~(k < Matches[p])
    <3>1. pc'[t] = "next"
      BY <1>0, <1>10, <2>9 DEF InsertMatch, NextKeyword, Goto, TypeOK, p, k
    <3>2. k = Matches[p]
      BY <2>2, <2>4, <2>9
    <3> QED
      BY <2>2, <2>5, <2>6, <3>1, <3>2 DEF LastUrlAt
  <2> QED
    BY <2>8, <2>9
<1>11. ASSUME MatchFails(t) PROVE EntryInv'
  <2>1. LastUrlAt(pc[t], request[t], key[t]) /\ abandoned' = {}
        => LastUrlAt(pc'[t], request'[t], key'[t])
    BY <1>0, <1>11 DEF MatchFails, Retry, GiveUp, Goto, TypeOK, LastUrlAt
  <2> QED
    BY <1>0, <1>11, <2>1, MoveEntry DEF MatchFails, Retry, GiveUp, tables
<1>12. CASE UNCHANGED vars
  BY <1>0, <1>12, MoveEntry DEF vars, threadVars, tables
<1> QED
  BY <1>1, <1>2, <1>3, <1>4, <1>5, <1>6, <1>7, <1>8, <1>9, <1>10, <1>11, <1>12
     DEF Next, CaptureStep, LogStep, JoinAll

\* With a single device entries are completed one after another throughout.
LEMMA AlwaysEntries ==
    ASSUME NEW t, Threads = {t}
    PROVE  Spec => []EntryInv
<1>1. Init => EntryInv
  <2> SUFFICES ASSUME Init PROVE UrlIdsExist /\ LastUrlAt("next", None, 0)
    BY DEF Init, EntryInv
  <2>1. Len(urls) = 0 /\ Len(warnings) = 0 /\ Len(matches) = 0
    BY DEF Init
  <2> QED
    BY <2>1 DEF UrlIdsExist, LastUrlAt, BeforeUrl, BeforeWarning, InLogMatch
<1>2. OneThreadInv /\ WordsAreOwn /\ EntryInv /\ [Next]_vars => EntryInv'
  BY EntryStep
<1> QED
  BY <1>1, <1>2, AlwaysOneThread, AlwaysOwnWords, PTL DEF Spec

\* The log that the tables describe, and what its entries may be.
Log == [u \in 1..Len(urls) |-> LogEntry(u)]

Entries == [url : Packets \cup {None}, flagged : BOOLEAN, words : SUBSET Words]

\* Entry n says whose URL it is, and what was inserted for it.
LEMMA EntryIs ==
    ASSUME TypeOK, UrlsAreWhole, NEW n \in 1..Len(urls)
    PROVE  /\ LogEntry(n) = [url |-> urls[n].by, flagged |-> FlaggedAt(n), words |-> WordsAt(n)]
           /\ LogEntry(n) \in Entries
<1>1. urls[n].host = urls[n].by /\ urls[n].path = urls[n].by
  BY DEF UrlsAreWhole
<1>2. LogEntry(n) = [url |-> urls[n].by, flagged |-> FlaggedAt(n), words |-> WordsAt(n)]
  BY <1>1 DEF LogEntry, FlaggedAt, WordsAt
<1>3. urls[n].by \in Packets
  <2>1. urls \in Seq(UrlRow)
    BY DEF TypeOK
  <2>2. urls[n] \in UrlRow
    BY <2>1, ElementOfSeq
  <2> QED
    BY <2>2 DEF UrlRow
<1>4. \A m \in 1..Len(matches) : matches[m] \in MatchRow
  BY DEF TypeOK
<1>5. WordsAt(n) \subseteq Words
  BY <1>4 DEF WordsAt, MatchRow
<1>6. FlaggedAt(n) \in BOOLEAN
  BY DEF FlaggedAt
<1> QED
  BY <1>2, <1>3, <1>5, <1>6 DEF Entries

\* The log is as long as the table of urls.
LogShape ==
    /\ Log \in Seq(Entries)
    /\ Len(Log) = Len(urls)
    /\ \A n \in 1..Len(urls) :
          Log[n] = [url |-> urls[n].by, flagged |-> FlaggedAt(n), words |-> WordsAt(n)]

\* It has that shape before and after every step.
LEMMA LogIs ==
    /\ TypeOK /\ UrlsAreWhole => LogShape
    /\ TypeOK' /\ UrlsAreWhole' => LogShape'
<1>1. ASSUME TypeOK, UrlsAreWhole PROVE LogShape
  <2>1. Len(urls) \in Nat
    BY <1>1 DEF TypeOK
  <2>2. Log \in [1..Len(urls) -> Entries]
    BY <1>1, EntryIs DEF Log
  <2>3. Log \in Seq(Entries)
    BY <2>1, <2>2, SeqDef
  <2>4. DOMAIN Log = 1..Len(urls)
    BY DEF Log
  <2>5. Len(Log) = Len(urls)
    BY <2>1, <2>3, <2>4, LenProperties
  <2> QED
    BY <1>1, <2>3, <2>5, EntryIs DEF Log, LogShape
<1>2. TypeOK /\ UrlsAreWhole => LogShape
  BY <1>1
<1> QED
  BY <1>2, PTL

\* A packet has as many keywords as there are.
LEMMA WordsCounted ==
    ASSUME NEW p, NEW k \in Nat
    PROVE  Cardinality(WordsUpTo(p, k)) = k
<1> DEFINE f == [j \in 1..k |-> <<p, j>>]
<1>1. f \in Bijection(1..k, WordsUpTo(p, k))
  BY DEF Bijection, Injection, Surjection, IsInjective, WordsUpTo
<1>2. IsFiniteSet(1..k) /\ Cardinality(1..k) = k
  BY FS_Interval
<1> QED
  BY <1>1, <1>2, FS_Bijection DEF ExistsBijection

\* The abstract module counts as this one does.
LEMMA SameCardinality == \A S : Flagged!Cardinality(S) = Cardinality(S)
BY DEF Flagged!Cardinality, Cardinality, Flagged!IsFiniteSet, IsFiniteSet

\* Inserting a URL visits it, as the entry before it is complete.
LEMMA UrlVisits ==
    ASSUME NEW t \in Threads, OneThreadInv, OneThreadInv', EntryInv, abandoned = {}, InsertUrl(t)
    PROVE  Flagged!Visit(request[t])
<1> USE SnifferLogAssumption
<1>1. TypeOK /\ UrlsAreWhole /\ TypeOK' /\ UrlsAreWhole'
  BY DEF OneThreadInv
<1>2. PICK n \in Nat : n = Len(urls)
  BY <1>1 DEF TypeOK
<1>3. PICK p \in Packets : p = request[t]
  BY <1>1 DEF TypeOK, InsertUrl
<1>0. UrlIdsExist /\ LastUrlAt("insertUrl", p, key[t]) /\ UrlsOf(p) = {}
  BY <1>3 DEF OneThreadInv, NothingEarly, EntryInv, InsertUrl
<1> DEFINE e == Flagged!Entry(p)
<1>4. Log \in Seq(Entries) /\ Len(Log) = n
  BY <1>1, <1>2, LogIs DEF LogShape
<1>5. \A u \in 1..n : Log[u] = [url |-> urls[u].by, flagged |-> FlaggedAt(u), words |-> WordsAt(u)]
  BY <1>1, <1>2, LogIs DEF LogShape
<1>6. /\ Len(urls') = n + 1 /\ urls'[n + 1].by = p
      /\ \A u \in 1..n : urls'[u] = urls[u] /\ WordsAt(u)' = WordsAt(u)
                          /\ FlaggedAt(u)' = FlaggedAt(u)
      /\ WordsAt(n + 1)' = {} /\ FlaggedAt(n + 1)' = FALSE
  <2>1. Len(urls') = n + 1 /\ \A u \in 1..n : urls'[u] = urls[u]
    BY <1>0, <1>1, <1>2, <1>3, UrlAdded
  <2>2. urls'[n + 1] = [host |-> hostname, path |-> path, by |-> p]
    BY <1>0, <1>1, <1>2, <1>3, UrlAdded
  <2>3. \A u : WordsAt(u)' = WordsAt(u) /\ FlaggedAt(u)' = FlaggedAt(u)
    BY <1>0, <1>1, <1>2, <1>3, UrlAdded
  <2>4. WordsAt(n + 1) = {} /\ FlaggedAt(n + 1) = FALSE
    BY <1>0, <1>1, <1>2, <1>3, UrlAdded
  <2> QED
    BY <2>1, <2>2, <2>3, <2>4
<1>7. /\ Log' \in Seq(Entries)
      /\ Len(Log') = n + 1
      /\ \A u \in 1..(n + 1) :
            Log'[u] = [url |-> urls'[u].by, flagged |-> FlaggedAt(u)', words |-> WordsAt(u)']
  BY <1>1, <1>6, LogIs DEF LogShape
<1>8. e \in Entries /\ e = [url |-> p, flagged |-> FALSE, words |-> {}]
  BY <1>3 DEF Flagged!Entry, Entries
<1>9. Log' = Append(Log, e)
  <2> HIDE DEF e
  <2>1. Append(Log, e) \in Seq(Entries) /\ Len(Append(Log, e)) = n + 1
    BY <1>4, <1>8, Appended
  <2>2. \A u \in 1..n : Log'[u] = Log[u]
    <3> SUFFICES ASSUME NEW u \in 1..n PROVE Log'[u] = Log[u]
      OBVIOUS
    <3>1. urls'[u].by = urls[u].by /\ WordsAt(u)' = WordsAt(u) /\ FlaggedAt(u)' = FlaggedAt(u)
      BY <1>6
    <3>2. u \in 1..(n + 1)
      BY <1>3
    <3> QED
      BY <1>5, <1>7, <3>1, <3>2
  <2>3. Log'[n + 1] = e
    <3>1. n + 1 \in 1..(n + 1)
      BY <1>3
    <3> QED
      BY <1>6, <1>7, <1>8, <3>1
  <2>4. \A u \in 1..(n + 1) : Log'[u] = Append(Log, e)[u]
    BY <1>3, <1>4, <1>8, <2>2, <2>3, Appended
  <2> QED
    BY <1>7, <2>1, <2>4, SeqEqual
<1>10. \A u \in 1..Len(Log) : Log[u].url # p
  <2>1. \A u \in 1..n : urls[u].by # p
    BY <1>0, <1>2 DEF UrlsOf
  <2> QED
    BY <1>4, <1>5, <2>1
<1>11. Log # <<>> => Cardinality(Log[Len(Log)].words) = Matches[Log[Len(Log)].url]
  <2> SUFFICES ASSUME Log # <<>>
               PROVE  Cardinality(Log[Len(Log)].words) = Matches[Log[Len(Log)].url]
    OBVIOUS
  <2> DEFINE q == urls[n].by
  <2>1. n > 0 /\ n \in 1..n
    BY <1>3, <1>4, EmptySeq
  <2>2. Log[n].url = q /\ Log[n].words = WordsAt(n)
    <3>1. Log[n] = [url |-> urls[n].by, flagged |-> FlaggedAt(n), words |-> WordsAt(n)]
      BY <1>5, <2>1
    <3> QED
      BY <3>1
  <2>3. WordsAt(n) = WordsUpTo(q, Matches[q])
    BY <1>0, <1>2, <2>1 DEF LastUrlAt, BeforeUrl
  <2>4. q \in Packets
    <3>1. urls \in Seq(UrlRow)
      BY <1>1 DEF TypeOK
    <3>2. urls[n] \in UrlRow
      BY <1>2, <2>1, <3>1, ElementOfSeq
    <3> QED
      BY <3>2 DEF UrlRow
  <2> QED
    BY <1>4, <2>2, <2>3, <2>4, WordsCounted
<1> QED
  <2> HIDE DEF e
  <2>1. Flagged!Visit(p) <=>
          /\ \A u \in 1..Len(Log) : Log[u].url # p
          /\ Log # <<>> => Cardinality(Log[Len(Log)].words) = Matches[Log[Len(Log)].url]
          /\ Log' = Append(Log, e)
    BY SameCardinality DEF Flagged!Visit, Flagged!Last, Log, e
  <2> QED
    BY <1>3, <1>9, <1>10, <1>11, <2>1

\* Inserting a warning or a keyword amends the last entry.
LEMMA Amended ==
    ASSUME OneThreadInv, OneThreadInv', UNCHANGED urls, Len(urls) > 0,
           \A n \in 1..Len(urls) : n # Len(urls) =>
               WordsAt(n)' = WordsAt(n) /\ FlaggedAt(n)' = FlaggedAt(n),
           NEW e,
           e = [url |-> urls[Len(urls)].by, flagged |-> FlaggedAt(Len(urls))',
                words |-> WordsAt(Len(urls))']
    PROVE  Log' = [Log EXCEPT ![Len(Log)] = e]
<1> DEFINE n == Len(urls)
<1>1. TypeOK /\ UrlsAreWhole /\ TypeOK' /\ UrlsAreWhole'
  BY DEF OneThreadInv
<1>2. n \in Nat /\ n \in 1..n
  BY <1>1 DEF TypeOK
<1>3. Log \in Seq(Entries) /\ Len(Log) = n
  BY <1>1, LogIs DEF LogShape
<1>4. \A u \in 1..n : Log[u] = [url |-> urls[u].by, flagged |-> FlaggedAt(u), words |-> WordsAt(u)]
  BY <1>1, LogIs DEF LogShape
<1>5. /\ Log' \in Seq(Entries)
      /\ Len(Log') = n
      /\ \A u \in 1..n :
            Log'[u] = [url |-> urls[u].by, flagged |-> FlaggedAt(u)', words |-> WordsAt(u)']
  BY <1>1, LogIs DEF LogShape
<1>6. Log'[n] = e
  BY <1>2, <1>5
<1>7. \A u \in 1..n : u # n => Log'[u] = Log[u]
  BY <1>4, <1>5
<1>8. Log' = [u \in 1..n |-> Log'[u]] /\ Log = [u \in 1..n |-> Log[u]]
  BY DEF Log
<1> HIDE DEF n
<1> QED
  BY <1>2, <1>3, <1>6, <1>7, <1>8

\* What becomes of an entry that is flagged.
LEMMA EntryFlagged ==
    ASSUME NEW p, NEW words
    PROVE  [[url |-> p, flagged |-> FALSE, words |-> words] EXCEPT !.flagged = TRUE]
           = [url |-> p, flagged |-> TRUE, words |-> words]
<1>1. ASSUME NEW f, NEW b
      PROVE  [[url |-> p, flagged |-> f, words |-> words] EXCEPT !.flagged = b]
             = [url |-> p, flagged |-> b, words |-> words]
  BY Z3
<1>2. PICK f \in BOOLEAN, b \in BOOLEAN : f = FALSE /\ b = TRUE
  OBVIOUS
<1>3. [[url |-> p, flagged |-> f, words |-> words] EXCEPT !.flagged = b]
      = [url |-> p, flagged |-> b, words |-> words]
  BY <1>1
<1> QED
  BY <1>2, <1>3

\* What becomes of a flagged entry that is given other keywords.
LEMMA EntryReworded ==
    ASSUME NEW p, NEW words, NEW W
    PROVE  [[url |-> p, flagged |-> TRUE, words |-> words] EXCEPT !.words = W]
           = [url |-> p, flagged |-> TRUE, words |-> W]
<1>1. ASSUME NEW f
      PROVE  [[url |-> p, flagged |-> f, words |-> words] EXCEPT !.words = W]
             = [url |-> p, flagged |-> f, words |-> W]
  BY Z3
<1>2. PICK f \in BOOLEAN : f = TRUE
  OBVIOUS
<1>3. [[url |-> p, flagged |-> f, words |-> words] EXCEPT !.words = W]
      = [url |-> p, flagged |-> f, words |-> W]
  BY <1>1
<1> QED
  BY <1>2, <1>3

\* A warning flags the last entry, which was not flagged before.
LEMMA WarningFlags ==
    ASSUME NEW t \in Threads, OneThreadInv, OneThreadInv', EntryInv, abandoned = {},
           InsertWarning(t)
    PROVE  Flagged!Flag
<1> USE SnifferLogAssumption
<1>1. TypeOK /\ UrlsAreWhole
  BY DEF OneThreadInv
<1>2. PICK n \in Nat : n = Len(urls)
  BY <1>1 DEF TypeOK
<1>3. PICK p \in Packets : p = request[t]
  BY <1>1 DEF TypeOK, InsertWarning
<1>4. /\ n > 0 /\ urls[n].by = p /\ Matches[p] > 0 /\ WordsAt(n) = {} /\ ~FlaggedAt(n)
  BY <1>2, <1>3 DEF EntryInv, InsertWarning, LastUrlAt, BeforeWarning
<1>5. lastRowId = n
  BY <1>2, <1>4 DEF OneThreadInv, InFlight, InsertWarning
<1>6. UNCHANGED urls /\ \A u : WordsAt(u)' = WordsAt(u)
  BY <1>1, WarningAdded
<1>7. \A u : FlaggedAt(u)' = (FlaggedAt(u) \/ u = n)
  BY <1>1, <1>5, WarningAdded
<1>8. Log \in Seq(Entries) /\ Len(Log) = n
  BY <1>1, <1>2, LogIs DEF LogShape
<1>9. Log[n] = [url |-> p, flagged |-> FALSE, words |-> {}]
  <2>1. FlaggedAt(n) = FALSE
    BY <1>4 DEF FlaggedAt
  <2>2. n \in 1..Len(urls)
    BY <1>2, <1>4
  <2>3. Log[n] = [url |-> urls[n].by, flagged |-> FlaggedAt(n), words |-> WordsAt(n)]
    BY <1>1, <2>2, LogIs DEF LogShape
  <2> QED
    BY <1>4, <2>1, <2>3
<1> DEFINE e == [url |-> p, flagged |-> TRUE, words |-> {}]
<1>10. Log' = [Log EXCEPT ![n] = e]
  <2>1. e = [url |-> urls[Len(urls)].by, flagged |-> FlaggedAt(Len(urls))',
             words |-> WordsAt(Len(urls))']
    <3>1. FlaggedAt(n)' = TRUE /\ WordsAt(n)' = {}
      BY <1>4, <1>6, <1>7
    <3> QED
      BY <1>2, <1>4, <1>6, <3>1
  <2>2. \A u \in 1..Len(urls) : u # Len(urls) =>
            WordsAt(u)' = WordsAt(u) /\ FlaggedAt(u)' = FlaggedAt(u)
    <3>1. \A u : FlaggedAt(u) \in BOOLEAN
      BY DEF FlaggedAt
    <3> QED
      BY <1>2, <1>6, <1>7, <3>1
  <2> HIDE DEF e
  <2> QED
    BY <1>2, <1>4, <1>6, <1>8, <2>1, <2>2, Amended
<1>11. e = [Log[n] EXCEPT !.flagged = TRUE]
  <2>1. [[url |-> p, flagged |-> FALSE, words |-> {}] EXCEPT !.flagged = TRUE] = e
    BY EntryFlagged, Zenon
  <2> QED
    BY <1>9, <2>1, Zenon
<1>12. Log # <<>>
  BY <1>4, <1>8
<1> HIDE DEF e
<1>13. Flagged!Flag <=>
         /\ Log # <<>>
         /\ Matches[Log[Len(Log)].url] > 0
         /\ ~Log[Len(Log)].flagged
         /\ Log' = [Log EXCEPT ![Len(Log)] = [Log[Len(Log)] EXCEPT !.flagged = TRUE]]
  BY DEF Flagged!Flag, Flagged!Amend, Flagged!Last, Log
<1> QED
  BY <1>4, <1>8, <1>9, <1>10, <1>11, <1>12, <1>13

\* A row of matches adds the next keyword to the last entry, which is flagged.
LEMMA MatchAddsWord ==
    ASSUME NEW t \in Threads, OneThreadInv, OneThreadInv', WordsAreOwn, EntryInv,
           abandoned = {}, InsertMatch(t)
    PROVE  Flagged!AddWord
<1> USE SnifferLogAssumption
<1>1. TypeOK /\ UrlsAreWhole
  BY DEF OneThreadInv
<1>2. PICK n \in Nat : n = Len(urls)
  BY <1>1 DEF TypeOK
<1>3. PICK p \in Packets, k \in Nat : p = request[t] /\ k = key[t]
  BY <1>1 DEF TypeOK, InsertMatch
<1>4. /\ n > 0 /\ urls[n].by = p /\ k \in 1..Matches[p] /\ FlaggedAt(n)
      /\ WordsAt(n) = WordsUpTo(p, k - 1)
  BY <1>2, <1>3 DEF EntryInv, InsertMatch, LastUrlAt, InLogMatch
<1>5. lastRowId = n /\ keyword = <<p, k>>
  BY <1>2, <1>3, <1>4 DEF OneThreadInv, InFlight, InsertMatch, WordsAreOwn
<1>6. UNCHANGED urls /\ \A u : FlaggedAt(u)' = FlaggedAt(u)
  BY <1>1, MatchAdded
<1>7. \A u : WordsAt(u)' = IF u = n THEN WordsAt(u) \cup {<<p, k>>} ELSE WordsAt(u)
  BY <1>1, <1>5, MatchAdded
<1>8. Log \in Seq(Entries) /\ Len(Log) = n
  BY <1>1, <1>2, LogIs DEF LogShape
<1>9. Log[n] = [url |-> p, flagged |-> TRUE, words |-> WordsUpTo(p, k - 1)]
  <2>1. FlaggedAt(n) = TRUE
    BY <1>4 DEF FlaggedAt
  <2>2. n \in 1..Len(urls)
    BY <1>2, <1>4
  <2>3. Log[n] = [url |-> urls[n].by, flagged |-> FlaggedAt(n), words |-> WordsAt(n)]
    BY <1>1, <2>2, LogIs DEF LogShape
  <2> QED
    BY <1>4, <2>1, <2>3
<1> DEFINE e == [url |-> p, flagged |-> TRUE, words |-> WordsUpTo(p, k - 1) \cup {<<p, k>>}]
<1>10. Log' = [Log EXCEPT ![n] = e]
  <2>1. e = [url |-> urls[Len(urls)].by, flagged |-> FlaggedAt(Len(urls))',
             words |-> WordsAt(Len(urls))']
    <3>1. FlaggedAt(n) = TRUE
      BY <1>4 DEF FlaggedAt
    <3>2. FlaggedAt(n)' = TRUE /\ WordsAt(n)' = WordsUpTo(p, k - 1) \cup {<<p, k>>}
      BY <1>4, <1>6, <1>7, <3>1
    <3> QED
      BY <1>2, <1>4, <1>6, <3>2
  <2>2. \A u \in 1..Len(urls) : u # Len(urls) =>
            WordsAt(u)' = WordsAt(u) /\ FlaggedAt(u)' = FlaggedAt(u)
    BY <1>2, <1>6, <1>7
  <2> HIDE DEF e
  <2> QED
    BY <1>2, <1>4, <1>6, <1>8, <2>1, <2>2, Amended
<1>11. e = [Log[n] EXCEPT !.words = @ \cup {<<Log[n].url, k>>}]
  <2>1. [[url |-> p, flagged |-> TRUE, words |-> WordsUpTo(p, k - 1)]
            EXCEPT !.words = WordsUpTo(p, k - 1) \cup {<<p, k>>}] = e
    BY EntryReworded, Zenon
  <2>2. Log[n].url = p /\ Log[n].words = WordsUpTo(p, k - 1)
    BY <1>9
  <2>3. [Log[n] EXCEPT !.words = WordsUpTo(p, k - 1) \cup {<<p, k>>}] = e
    BY <1>9, <2>1, Zenon
  <2> QED
    BY <2>2, <2>3, Zenon
<1>12. Log # <<>> /\ Log[n].words = {<<Log[n].url, j>> : j \in 1..(k - 1)}
  BY <1>4, <1>8, <1>9 DEF WordsUpTo
<1> HIDE DEF e
<1> DEFINE AddAt(m) ==
             /\ Log # <<>>
             /\ Log[m].flagged
             /\ \E i \in 1..Matches[Log[m].url] :
                   /\ Log[m].words = {<<Log[m].url, j>> : j \in 1..(i - 1)}
                   /\ Log' = [Log EXCEPT ![m] =
                                 [Log[m] EXCEPT !.words = @ \cup {<<Log[m].url, i>>}]]
<1>13. Flagged!AddWord <=> AddAt(Len(Log))
  BY DEF Flagged!AddWord, Flagged!Amend, Flagged!Last, Log
<1>14. k \in 1..Matches[Log[n].url] /\ Log[n].flagged
  BY <1>4, <1>9
<1>15. Log' = [Log EXCEPT ![n] = [Log[n] EXCEPT !.words = @ \cup {<<Log[n].url, k>>}]]
  BY <1>10, <1>11, Zenon
<1>16. AddAt(n)
  BY <1>12, <1>14, <1>15, Zenon
<1> HIDE DEF AddAt
<1> QED
  BY <1>8, <1>13, <1>16

\* Whatever writes no row and gives nothing up is nothing to the readers.
LEMMA NothingToRead ==
    ASSUME UNCHANGED <<urls, warnings, matches, abandoned>>
    PROVE  UNCHANGED Flagged!vars
<1>1. \A u : LogEntry(u)' = LogEntry(u)
  BY DEF LogEntry
<1> QED
  BY <1>1 DEF Flagged!vars

\* A step that gives nothing up adds to the log, or leaves it.
LEMMA ReadersSee ==
    ASSUME NEW t, Threads = {t}, OneThreadInv, OneThreadInv', WordsAreOwn, EntryInv,
           [Next]_vars
    PROVE  [Flagged!Add \/ Flagged!Break]_(Flagged!vars)
<1>1. CASE abandoned' # {}
  BY <1>1 DEF Flagged!Break
<1>2. CASE abandoned' = {}
  <2>1. abandoned = {} /\ t \in Threads
    BY <1>2, StillUnbroken
  <2>2. CASE InsertUrl(t)
    <3>1. request[t] \in Packets
      BY <2>2 DEF OneThreadInv, TypeOK, InsertUrl
    <3> QED
      BY <1>2, <2>1, <2>2, <3>1, UrlVisits DEF Flagged!Add
  <2>3. CASE InsertWarning(t)
    BY <1>2, <2>1, <2>3, WarningFlags DEF Flagged!Add
  <2>4. CASE InsertMatch(t)
    BY <1>2, <2>1, <2>4, MatchAddsWord DEF Flagged!Add
  <2>5. CASE ~(InsertUrl(t) \/ InsertWarning(t) \/ InsertMatch(t))
    <3>1. UNCHANGED <<urls, warnings, matches>>
      BY <2>5
         DEF Next, CaptureStep, LogStep, JoinAll, SkipPacket, GotRequest, StopCapture,
             SetHostname, SetPath, UrlFails, GetLastRowId, SetMatch, WarningFails, SetKeyword,
             MatchFails, Retry, GiveUp, vars, tables
    <3> QED
      BY <1>2, <2>1, <3>1, NothingToRead
  <2> QED
    BY <2>2, <2>3, <2>4, <2>5
<1> QED
  BY <1>1, <1>2

\* No reader of the tables can tell the statements, the shared fields and the
\* retries of a single device from whole entries that are added in order.
THEOREM FlaggedLogImplemented ==
    ASSUME NEW t, Threads = {t}
    PROVE  Spec => ImplementsFlaggedLog
<1>1. Init => Flagged!Init
  <2> SUFFICES ASSUME Init PROVE Flagged!Init
    OBVIOUS
  <2>1. urls = <<>> /\ abandoned = {}
    BY DEF Init
  <2>2. [u \in 1..Len(urls) |-> LogEntry(u)] = <<>>
    BY <2>1
  <2> QED
    BY <2>1, <2>2 DEF Flagged!Init
<1>2. OneThreadInv /\ OneThreadInv' /\ WordsAreOwn /\ EntryInv /\ [Next]_vars
      => [Flagged!Add \/ Flagged!Break]_(Flagged!vars)
  BY ReadersSee
<1> QED
  BY <1>1, <1>2, AlwaysOneThread, AlwaysOwnWords, AlwaysEntries, PTL
     DEF Spec, ImplementsFlaggedLog, Flagged!Spec

=============================================================================
