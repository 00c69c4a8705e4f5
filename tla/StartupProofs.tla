--------------------------- MODULE StartupProofs ---------------------------
(***************************************************************************)
(* Proofs about Startup, for whatever state the files are in and any       *)
(* number of tries: what is noted is deserved, and unless the server gives *)
(* a wrong answer, two tries are enough to start with its files and to     *)
(* note each that was not in order once.                                   *)
(***************************************************************************)
EXTENDS Startup, FiniteSetTheorems, TLAPS

\* The labels of loadConfigfile, and those between it and ConfigSubsystem.
InLoop  == {"load", "replaceConfig", "downloaded", "updateConfig", "updateBlacklist"}
Between == {"txt", "database", "configSubsystem"}

\* A try is left throughout its turn; the history says how it began.
TypeInv ==
    /\ TypeOK
    /\ pc \in InLoop \cup {"filter", "replaceBlacklist"} => tries > 0
    /\ first \in [config : FileStates, blacklist : FileStates, txt : {"corrupt", "good"},
                  configure : BOOLEAN]
    /\ txt = first.txt

\* The files are as they were found, or have been replaced.
FilesInv ==
    /\ config \in {first.config, "good"}
    /\ blacklist \in {first.blacklist, "good"}

JustlyInv == "garble" \notin mishaps => FilesInv /\ FoundJustly

\* The configuration is done with: the options are the server's, unless there was
\* no blacklist, and the blacklist is the server's or still missing.
Done ==
    /\ config = "good"
    /\ blacklist \in {"missing", "good"}
    /\ first.blacklist # "missing" => values = "good"

\* How far the start has got if the server answers.
StageInv ==
    /\ caller = "subsystem" => config = "good"
    /\ pc \in Between => caller = "options" /\ (configFlag \/ Done)
    /\ pc \in Between /\ first.configure => configFlag
    /\ pc \in InLoop /\ caller = "options" => ~first.configure
    /\ pc \in InLoop /\ config # "good" => tries = Tries
    /\ pc = "replaceConfig" => config = "corrupt"
    /\ pc \in {"downloaded", "updateConfig"} =>
          config \in {"changed", "good"} /\ values = config /\ ~isModified
    /\ pc = "updateBlacklist" =>
          /\ config = "good"
          /\ IF isModified THEN tries = Tries ELSE values = "good"
    /\ Configured => Done
    /\ pc = "filter" /\ blacklist = "missing" => tries = Tries
    /\ pc = "replaceBlacklist" => blacklist = "missing" /\ tries = Tries
    /\ pc = "sniffing" => blacklist = "good" /\ filter = "good"

\* The rows that have been noted by now, of those that are deserved.
NotedConfig    == config = "good" \/ pc \in Between \cup {"replaceConfig"}
NotedBlacklist == blacklist = "good" \/ pc = "replaceBlacklist"
NotedTxt       == caller = "subsystem" \/ pc \notin InLoop \cup {"txt"}

Noted ==
    (IF first.configure \/ ~NotedConfig THEN {} ELSE Deserved("config", first.config))
    \cup (IF NotedBlacklist THEN Deserved("blacklist", first.blacklist) ELSE {})
    \cup (IF NotedTxt THEN Deserved("txt", first.txt) ELSE {})

CountInv == \A row \in Rows : Count(row) = IF row \in Noted THEN 1 ELSE 0

AnsweredInv == mishaps = {} => FilesInv /\ StageInv /\ CountInv

-----------------------------------------------------------------------------
\* TypeInv, which is TypeOK with what the tries need, holds at the start.
LEMMA TypeInit == Init => TypeInv
<1> SUFFICES ASSUME Init PROVE TypeInv
  OBVIOUS
<1>1. isModified \in BOOLEAN /\ configFlag \in BOOLEAN /\ online \in BOOLEAN
  BY Zenon DEF Init
<1>2. first \in [config : FileStates, blacklist : FileStates, txt : {"corrupt", "good"},
                 configure : BOOLEAN]
  BY <1>1 DEF Init
<1>3. txt = first.txt
  BY DEF Init
<1>4. pc \in Labels /\ tries \in 0..Tries /\ tries > 0
  BY StartupAssumption DEF Init, Labels
<1>5. /\ initBypasses \in Seq(Rows)
      /\ bypasses \in Seq(Rows \cup {Blank})
      /\ found \in Seq(Rows)
  BY DEF Init
<1> QED BY <1>1, <1>2, <1>3, <1>4, <1>5 DEF Init, TypeInv, TypeOK, FileStates

\* A download leaves a file in one of its states, and mishaps in its type.
LEMMA DownloadType ==
    TypeInv =>
        \A file, newFile : Download(file, newFile) =>
            newFile \in {file, "good", "corrupt"} /\ mishaps' \subseteq Situations
BY StartupAssumption DEF Download, TypeInv, TypeOK, FileStates

\* The loops count their tries down to zero and no further.
LEMMA NextTryType ==
    ASSUME TypeInv, NEW flag \in BOOLEAN, NextTry(flag), tries > 0
    PROVE  /\ tries' \in 0..Tries
           /\ pc' \in {"load", "txt", "report"}
           /\ pc' = "load" => tries' > 0
           /\ configFlag' \in BOOLEAN
<1>1. tries \in 0..Tries /\ Tries \in Nat
  BY StartupAssumption DEF TypeInv, TypeOK
<1>2. tries' = tries - 1
  BY DEF NextTry
<1>3. CASE tries > 1
  BY <1>1, <1>2, <1>3, SMT DEF NextTry
<1>4. CASE ~(tries > 1)
  BY <1>1, <1>2, <1>4, SMT DEF NextTry
<1> QED BY <1>3, <1>4

\* What is added to a table belongs to the table.
LEMMA AppendType == \A T : \A s \in Seq(T), e \in T : Append(s, e) \in Seq(T)
OBVIOUS

\* Rows that the loops add are rows of the table.
LEMMA AddRowType ==
    ASSUME TypeInv, NEW row \in Rows, AddRow(row)
    PROVE  initBypasses' \in Seq(Rows) /\ found' \in Seq(Rows)
BY DEF AddRow, TypeInv, TypeOK

\* Every row that the program makes of a file is one of the table.
LEMMA RowsAreRows ==
    \A file \in {"config", "blacklist", "txt"}, kind \in {"missing", "modified"} :
        Row(file, kind) \in Rows
BY DEF Row, Rows

\* A step that leaves the loop of loadConfigfile.
LEMMA ReturnType ==
    ASSUME TypeInv, Return
    PROVE  pc' \in {"txt", "report"} /\ configFlag' \in BOOLEAN
BY DEF TypeInv, TypeOK, Return

-----------------------------------------------------------------------------
\* The flags stay flags.
Flags == online \in BOOLEAN /\ isModified \in BOOLEAN /\ configFlag \in BOOLEAN

LEMMA FlagsStep == Flags /\ [Next]_vars => Flags'
<1> SUFFICES ASSUME Flags, [Next]_vars PROVE Flags'
  OBVIOUS
<1> USE DEF Flags
<1>1. CASE LoadMissing
  BY <1>1, Zenon DEF LoadMissing
<1>2. CASE LoadCorrupt
  BY <1>2, Zenon DEF LoadCorrupt
<1>3. CASE ReplaceConfig
  BY <1>3, Zenon DEF ReplaceConfig, NextTry
<1>4. CASE Load
  BY <1>4, Zenon DEF Load
<1>5. CASE Downloaded
  BY <1>5, Zenon DEF Downloaded, Return
<1>6. CASE UpdateConfig
  BY <1>6, Zenon DEF UpdateConfig
<1>7. CASE UpdateBlacklist
  BY <1>7, Zenon DEF UpdateBlacklist, NextTry, Return
<1>8. CASE LoadTxt
  BY <1>8, Zenon DEF LoadTxt
<1>9. CASE LogInitBypasses
  BY <1>9, Zenon DEF LogInitBypasses
<1>10. CASE Configure
  BY <1>10, Zenon DEF Configure
<1>11. CASE DontConfigure
  BY <1>11, Zenon DEF DontConfigure
<1>12. CASE Report
  BY <1>12, Zenon DEF Report
<1>13. CASE LoadBlacklist
  BY <1>13, Zenon DEF LoadBlacklist
<1>14. CASE LoadBlacklistFails
  BY <1>14, Zenon DEF LoadBlacklistFails
<1>15. CASE ReplaceBlacklist
  BY <1>15, Zenon DEF ReplaceBlacklist
<1>16. CASE Connection
  BY <1>16, Zenon DEF Connection
<1>17. CASE UNCHANGED vars
  BY <1>17, Zenon DEF vars
<1> QED
  BY <1>1, <1>2, <1>3, <1>4, <1>5, <1>6, <1>7, <1>8, <1>9, <1>10, <1>11, <1>12, <1>13,
     <1>14, <1>15, <1>16, <1>17 DEF Next, Progress

\* Every step keeps TypeInv.
LEMMA TypeStep == TypeInv /\ [Next]_vars => TypeInv'
<1> SUFFICES ASSUME TypeInv, [Next]_vars PROVE TypeInv'
  OBVIOUS
<1> USE DEF TypeInv, TypeOK, FileStates, Labels, InLoop, files, history
<1> online' \in BOOLEAN /\ isModified' \in BOOLEAN /\ configFlag' \in BOOLEAN
  BY FlagsStep DEF Flags
<1> Tries \in Nat \ {0} /\ Situations \subseteq {"refuse", "garble"}
  BY StartupAssumption
<1>1. CASE LoadMissing
  BY <1>1, RowsAreRows, AddRowType DEF LoadMissing
<1>2. CASE LoadCorrupt
  BY <1>2, RowsAreRows, AddRowType DEF LoadCorrupt
<1>3. CASE ReplaceConfig
  <2>1. config' \in {config, "good", "corrupt"} /\ mishaps' \subseteq Situations
    BY <1>3, DownloadType DEF ReplaceConfig
  <2>2. (configFlag \/ tries = 1) \in BOOLEAN
    OBVIOUS
  <2>3. /\ tries' \in 0..Tries
        /\ pc' \in {"load", "txt", "report"}
        /\ pc' = "load" => tries' > 0
    BY <1>3, <2>2, NextTryType DEF ReplaceConfig
  <2> QED BY <1>3, <2>1, <2>3 DEF ReplaceConfig
<1>4. CASE Load
  BY <1>4 DEF Load
<1>5. CASE Downloaded
  <2>1. pc' \in {"updateConfig", "txt", "report"}
    BY <1>5 DEF Downloaded, Return
  <2>2. mishaps' \subseteq Situations
    BY <1>5 DEF Downloaded
  <2>3. /\ pc = "downloaded"
        /\ UNCHANGED <<config, blacklist, txt, caller, tries, values, initBypasses, filter>>
        /\ UNCHANGED <<bypasses, first, found>>
    BY <1>5 DEF Downloaded
  <2> QED BY <2>1, <2>2, <2>3
<1>6. CASE UpdateConfig
  <2>1. config' \in {config, "good", "corrupt"} /\ mishaps' \subseteq Situations
    BY <1>6, DownloadType DEF UpdateConfig
  <2>2. initBypasses' \in Seq(Rows) /\ found' \in Seq(Rows)
    BY <1>6, RowsAreRows, AddRowType DEF UpdateConfig
  <2> QED BY <1>6, <2>1, <2>2 DEF UpdateConfig
<1>7. CASE UpdateBlacklist
  <2>1. blacklist' \in {blacklist, "good", "corrupt"} /\ mishaps' \subseteq Situations
    BY <1>7, DownloadType DEF UpdateBlacklist
  <2>2. initBypasses' \in Seq(Rows) /\ found' \in Seq(Rows)
    BY <1>7, RowsAreRows, AddRowType DEF UpdateBlacklist
  <2>3. /\ tries' \in 0..Tries
        /\ pc' \in {"load", "txt", "report"}
        /\ pc' = "load" => tries' > 0
    <3>1. CASE Return /\ UNCHANGED tries
      BY <3>1, ReturnType
    <3>2. CASE NextTry(configFlag)
      BY <1>7, <3>2, NextTryType DEF UpdateBlacklist
    <3> QED BY <1>7, <3>1, <3>2 DEF UpdateBlacklist
  <2> QED BY <1>7, <2>1, <2>2, <2>3 DEF UpdateBlacklist
<1>8. CASE LoadTxt
  BY <1>8, RowsAreRows, AddRowType DEF LoadTxt
<1>9. CASE LogInitBypasses
  <2>1. bypasses' \in Seq(Rows \cup {Blank})
    <3>1. bypasses' = bypasses \/ bypasses' = Append(bypasses, Blank)
      BY <1>9 DEF LogInitBypasses
    <3>2. Blank \in Rows \cup {Blank} /\ bypasses \in Seq(Rows \cup {Blank})
      OBVIOUS
    <3> QED BY <3>1, <3>2, AppendType
  <2>2. initBypasses' \in Seq(Rows)
    BY <1>9 DEF LogInitBypasses
  <2> QED BY <1>9, <2>1, <2>2 DEF LogInitBypasses
<1>10. CASE Configure
  BY <1>10, DownloadType DEF Configure
<1>11. CASE DontConfigure
  BY <1>11 DEF DontConfigure
<1>12. CASE Report
  BY <1>12 DEF Report
<1>13. CASE LoadBlacklist
  BY <1>13 DEF LoadBlacklist
<1>14. CASE LoadBlacklistFails
  <2>1. PICK row \in Rows :
             IF tries = Tries
             THEN bypasses' = Append(bypasses, row) /\ found' = Append(found, row)
             ELSE UNCHANGED <<bypasses, found>>
    BY <1>14, RowsAreRows DEF LoadBlacklistFails
  <2>2. found \in Seq(Rows) /\ bypasses \in Seq(Rows \cup {Blank}) /\ row \in Rows \cup {Blank}
    OBVIOUS
  <2>3. bypasses' \in Seq(Rows \cup {Blank})
    <3>1. bypasses' \in {bypasses, Append(bypasses, row)}
      BY <2>1
    <3> QED BY <2>2, <3>1, AppendType
  <2>4. found' \in Seq(Rows)
    <3>1. found' \in {found, Append(found, row)}
      BY <2>1
    <3>2. row \in Rows
      OBVIOUS
    <3>3. CASE found' = found
      BY <2>2, <3>3
    <3>4. CASE found' = Append(found, row)
      BY <2>2, <3>2, <3>4, AppendType
    <3> QED BY <3>1, <3>3, <3>4
  <2> QED BY <1>14, <2>3, <2>4 DEF LoadBlacklistFails
<1>15. CASE ReplaceBlacklist
  BY <1>15, DownloadType DEF ReplaceBlacklist
<1>16. CASE Connection
  BY <1>16 DEF Connection
<1>17. CASE UNCHANGED vars
  BY <1>17 DEF vars
<1> QED
  BY <1>1, <1>2, <1>3, <1>4, <1>5, <1>6, <1>7, <1>8, <1>9, <1>10, <1>11, <1>12, <1>13,
     <1>14, <1>15, <1>16, <1>17 DEF Next, Progress

\* Every variable stays in its type, and the tries never run below zero, whatever
\* the files are and the server does.
THEOREM TypeCorrect == Spec => []TypeOK
<1>1. Spec => []TypeInv
  BY TypeInit, TypeStep, PTL DEF Spec
<1>2. TypeInv => TypeOK
  BY DEF TypeInv
<1> QED BY <1>1, <1>2, PTL

-----------------------------------------------------------------------------
\* The rows that any of the files deserves.
Deserving == Deserved("config", first.config) \cup AllDeserved

\* A file that is not good was found so, and deserves the row it gets.
LEMMA RowDeserved ==
    ASSUME TypeInv, FilesInv
    PROVE  /\ config = "missing" => Row("config", "missing") \in Deserving
           /\ config \in {"corrupt", "changed"} => Row("config", "modified") \in Deserving
           /\ blacklist = "missing" => Row("blacklist", "missing") \in Deserving
           /\ blacklist \in {"corrupt", "changed"} => Row("blacklist", "modified") \in Deserving
           /\ txt = "corrupt" => Row("txt", "modified") \in Deserving
<1>1. \A file : /\ Row(file, "missing") \in Deserved(file, "missing")
                /\ Row(file, "modified") \in Deserved(file, "corrupt")
                /\ Row(file, "modified") \in Deserved(file, "changed")
  BY DEF Deserved
<1>2. /\ config # "good" => config = first.config
      /\ blacklist # "good" => blacklist = first.blacklist
      /\ txt = first.txt
  BY DEF FilesInv, TypeInv
<1> QED BY <1>1, <1>2 DEF Deserving, AllDeserved

\* A row that is deserved leaves the notes just.
LEMMA JustlyAdded ==
    ASSUME TypeInv, FoundJustly, "garble" \notin mishaps, UNCHANGED first,
           NEW row \in Rows, row \in Deserving, found' = Append(found, row)
    PROVE  FoundJustly'
<1>1. found \in Seq(Rows)
  BY DEF TypeInv, TypeOK
<1>2. \A n \in 1..Len(found) : found[n] \in Deserving
  BY DEF FoundJustly, Deserving
<1>3. Deserving' = Deserving
  BY DEF Deserving, AllDeserved
<1>4. \A n \in 1..Len(found') : found'[n] = row \/ (n \in 1..Len(found) /\ found'[n] = found[n])
  BY <1>1
<1>5. \A n \in 1..Len(found') : found'[n] \in Deserving
  BY <1>2, <1>4
<1> QED BY <1>3, <1>5 DEF FoundJustly, Deserving

\* Nothing that is noted, and the way the files were found, stays as it is.
LEMMA JustlyKept ==
    ASSUME FoundJustly, "garble" \notin mishaps, UNCHANGED <<first, found>>
    PROVE  FoundJustly'
BY DEF FoundJustly, AllDeserved

\* A download that is no page of garble leaves the file or makes it good.
LEMMA Downloads ==
    \A file, newFile : Download(file, newFile) =>
        /\ mishaps \subseteq mishaps'
        /\ "garble" \notin mishaps' => newFile \in {file, "good"}
        /\ mishaps' = {} => newFile = "good"
BY DEF Download

\* The mishaps are never forgotten, and what was found at first stays noted; a
\* file stays what it is or is replaced by the server's.
LEMMA FilesStep ==
    [Next]_vars =>
        /\ mishaps \subseteq mishaps' /\ UNCHANGED <<first, txt>>
        /\ "garble" \notin mishaps' =>
              config' \in {config, "good"} /\ blacklist' \in {blacklist, "good"}
<1> SUFFICES ASSUME [Next]_vars
             PROVE  /\ mishaps \subseteq mishaps' /\ UNCHANGED <<first, txt>>
                    /\ "garble" \notin mishaps' =>
                          config' \in {config, "good"} /\ blacklist' \in {blacklist, "good"}
  OBVIOUS
<1> USE DEF files, history
<1>1. CASE LoadMissing
  BY <1>1 DEF LoadMissing
<1>2. CASE LoadCorrupt
  BY <1>2 DEF LoadCorrupt
<1>3. CASE ReplaceConfig
  BY <1>3, Downloads DEF ReplaceConfig
<1>4. CASE Load
  BY <1>4 DEF Load
<1>5. CASE Downloaded
  BY <1>5 DEF Downloaded
<1>6. CASE UpdateConfig
  BY <1>6, Downloads DEF UpdateConfig
<1>7. CASE UpdateBlacklist
  BY <1>7, Downloads DEF UpdateBlacklist
<1>8. CASE LoadTxt
  BY <1>8 DEF LoadTxt
<1>9. CASE LogInitBypasses
  BY <1>9 DEF LogInitBypasses
<1>10. CASE Configure
  BY <1>10, Downloads DEF Configure
<1>11. CASE DontConfigure
  BY <1>11 DEF DontConfigure
<1>12. CASE Report
  BY <1>12 DEF Report
<1>13. CASE LoadBlacklist
  BY <1>13 DEF LoadBlacklist
<1>14. CASE LoadBlacklistFails
  BY <1>14 DEF LoadBlacklistFails
<1>15. CASE ReplaceBlacklist
  BY <1>15, Downloads DEF ReplaceBlacklist
<1>16. CASE Connection
  BY <1>16 DEF Connection
<1>17. CASE UNCHANGED vars
  BY <1>17 DEF vars
<1> QED
  BY <1>1, <1>2, <1>3, <1>4, <1>5, <1>6, <1>7, <1>8, <1>9, <1>10, <1>11, <1>12, <1>13,
     <1>14, <1>15, <1>16, <1>17 DEF Next, Progress

\* A step notes nothing, or a row that a file deserves.
LEMMA FoundStep ==
    ASSUME TypeInv, FilesInv, [Next]_vars
    PROVE  found' = found \/ \E row \in Rows : row \in Deserving /\ found' = Append(found, row)
<1> USE DEF files, history
<1>1. CASE LoadMissing
  BY <1>1, RowDeserved, RowsAreRows DEF LoadMissing, AddRow, IsNewer
<1>2. CASE LoadCorrupt
  BY <1>2, RowDeserved, RowsAreRows DEF LoadCorrupt, AddRow, IsNewer
<1>3. CASE ReplaceConfig
  BY <1>3 DEF ReplaceConfig
<1>4. CASE Load
  BY <1>4 DEF Load
<1>5. CASE Downloaded
  BY <1>5 DEF Downloaded
<1>6. CASE UpdateConfig
  BY <1>6, RowDeserved, RowsAreRows DEF UpdateConfig, AddRow, IsNewer
<1>7. CASE UpdateBlacklist
  BY <1>7, RowDeserved, RowsAreRows DEF UpdateBlacklist, AddRow, IsNewer
<1>8. CASE LoadTxt
  BY <1>8, RowDeserved, RowsAreRows DEF LoadTxt, AddRow, IsNewer
<1>9. CASE LogInitBypasses
  BY <1>9 DEF LogInitBypasses
<1>10. CASE Configure
  BY <1>10 DEF Configure
<1>11. CASE DontConfigure
  BY <1>11 DEF DontConfigure
<1>12. CASE Report
  BY <1>12 DEF Report
<1>13. CASE LoadBlacklist
  BY <1>13 DEF LoadBlacklist
<1>14. CASE LoadBlacklistFails
  BY <1>14, RowDeserved, RowsAreRows DEF LoadBlacklistFails, AddRow, IsNewer
<1>15. CASE ReplaceBlacklist
  BY <1>15 DEF ReplaceBlacklist
<1>16. CASE Connection
  BY <1>16 DEF Connection
<1>17. CASE UNCHANGED vars
  BY <1>17 DEF vars
<1> QED
  BY <1>1, <1>2, <1>3, <1>4, <1>5, <1>6, <1>7, <1>8, <1>9, <1>10, <1>11, <1>12, <1>13,
     <1>14, <1>15, <1>16, <1>17 DEF Next, Progress

\* JustlyInv holds at the start and every step keeps it.
LEMMA JustlyInit == Init => JustlyInv
BY DEF Init, JustlyInv, FilesInv, FoundJustly

LEMMA JustlyStep == TypeInv /\ JustlyInv /\ [Next]_vars => JustlyInv'
<1> SUFFICES ASSUME TypeInv, JustlyInv, [Next]_vars, "garble" \notin mishaps'
             PROVE  FilesInv' /\ FoundJustly'
  BY DEF JustlyInv
<1>1. "garble" \notin mishaps /\ UNCHANGED first
  BY FilesStep
<1>2. FilesInv /\ FoundJustly
  BY <1>1 DEF JustlyInv
<1>3. FilesInv'
  BY <1>1, <1>2, FilesStep DEF FilesInv
<1>4. FoundJustly'
  <2>1. CASE found' = found
    BY <1>1, <1>2, <2>1, JustlyKept
  <2>2. CASE \E row \in Rows : row \in Deserving /\ found' = Append(found, row)
    BY <1>1, <1>2, <2>2, JustlyAdded
  <2> QED BY <1>2, <2>1, <2>2, FoundStep
<1> QED BY <1>3, <1>4

\* However often the server refuses, no file is noted that was good when the
\* program started, and none for something that it was not.
THEOREM JustlyCorrect == Spec => []FoundJustly
<1>1. TypeInv /\ Init => JustlyInv
  BY JustlyInit
<1>2. JustlyInv => FoundJustly
  BY DEF JustlyInv, FoundJustly
<1> QED
  BY <1>1, <1>2, TypeInit, TypeStep, JustlyInit, JustlyStep, PTL DEF Spec

-----------------------------------------------------------------------------
\* A server that answers says when the files were downloaded.
LEMMA Answered == Downloaded /\ mishaps' = {} => pc' = "updateConfig" /\ UNCHANGED configFlag
BY DEF Downloaded

\* With two tries, and a server that answers, each step of the start leads where
\* it should.
LEMMA StageStep ==
    ASSUME Tries >= 2, TypeInv, FilesInv, StageInv, [Next]_vars, mishaps' = {}
    PROVE  StageInv'
<1> USE DEF files, history, StageInv, Done, Configured, InLoop, Between
<1> config \in FileStates /\ blacklist \in FileStates /\ pc \in Labels /\ Tries \in Nat
      /\ tries \in 0..Tries /\ caller \in {"options", "subsystem"}
  BY StartupAssumption DEF TypeInv, TypeOK
<1> USE DEF FileStates
<1>1. CASE LoadMissing
  BY <1>1 DEF LoadMissing
<1>2. CASE LoadCorrupt
  BY <1>2 DEF LoadCorrupt
<1>3. CASE ReplaceConfig
  BY <1>3, Downloads DEF ReplaceConfig, NextTry
<1>4. CASE Load
  BY <1>4 DEF Load
<1>5. CASE Downloaded
  BY <1>5, Answered DEF Downloaded
<1>6. CASE UpdateConfig
  BY <1>6, Downloads DEF UpdateConfig, IsNewer
<1>7. CASE UpdateBlacklist
  <2>1. /\ pc = "updateBlacklist"
        /\ UNCHANGED <<config, txt, caller, isModified, values, filter, first>>
    BY <1>7 DEF UpdateBlacklist
  <2>2. CASE /\ blacklist = "missing" \/ (~IsNewer(blacklist) /\ ~isModified)
             /\ Return
             /\ UNCHANGED <<blacklist, tries>>
    BY <2>1, <2>2 DEF Return, IsNewer, FilesInv
  <2>3. CASE blacklist = "good" /\ isModified /\ NextTry(configFlag) /\ UNCHANGED blacklist
    BY <2>1, <2>3 DEF NextTry
  <2>4. CASE blacklist' = "good" /\ NextTry(configFlag)
    BY <2>1, <2>4 DEF NextTry
  <2> QED BY <1>7, <2>2, <2>3, <2>4, Downloads DEF UpdateBlacklist
<1>8. CASE LoadTxt
  BY <1>8 DEF LoadTxt
<1>9. CASE LogInitBypasses
  BY <1>9 DEF LogInitBypasses
<1>10. CASE Configure
  BY <1>10, Downloads DEF Configure
<1>11. CASE DontConfigure
  BY <1>11 DEF DontConfigure
<1>12. CASE Report
  BY <1>12 DEF Report
<1>13. CASE LoadBlacklist
  BY <1>13 DEF LoadBlacklist
<1>14. CASE LoadBlacklistFails
  BY <1>14 DEF LoadBlacklistFails
<1>15. CASE ReplaceBlacklist
  BY <1>15, Downloads DEF ReplaceBlacklist
<1>16. CASE Connection
  BY <1>16 DEF Connection
<1>17. CASE UNCHANGED vars
  BY <1>17 DEF vars
<1> QED
  BY <1>1, <1>2, <1>3, <1>4, <1>5, <1>6, <1>7, <1>8, <1>9, <1>10, <1>11, <1>12, <1>13,
     <1>14, <1>15, <1>16, <1>17 DEF Next, Progress

-----------------------------------------------------------------------------
\* Where a row is noted.
Positions(s, row) == {n \in 1..Len(s) : s[n] = row}

\* A row that is added is noted once more, and no other.
LEMMA PositionsGrow ==
    ASSUME NEW s \in Seq(Rows), NEW added \in Rows, NEW row
    PROVE  /\ Cardinality(Positions(s, row)) \in Nat
           /\ Cardinality(Positions(Append(s, added), row)) =
                 Cardinality(Positions(s, row)) + IF row = added THEN 1 ELSE 0
<1> DEFINE P == Positions(s, row)
           Q == Positions(Append(s, added), row)
           last == Len(s) + 1
<1>1. Len(s) \in Nat /\ last \in Nat
  OBVIOUS
<1>2. IsFiniteSet(1..Len(s))
  BY <1>1, FS_Interval
<1>3. IsFiniteSet(P) /\ Cardinality(P) \in Nat
  BY <1>2, FS_Subset, FS_CardinalityType DEF Positions
<1>4. \A n : n \in 1..Len(Append(s, added)) <=> n \in 1..Len(s) \/ n = last
  BY <1>1
<1>5. Append(s, added)[last] = added /\ \A n \in 1..Len(s) : Append(s, added)[n] = s[n]
  OBVIOUS
<1>6. last \notin P
  BY <1>1 DEF Positions
<1>7. CASE row = added
  <2>1. Q = P \cup {last}
    BY <1>4, <1>5, <1>7 DEF Positions
  <2>2. Cardinality(Q) = Cardinality(P) + 1
    BY <1>3, <1>6, <2>1, FS_AddElement
  <2> QED BY <1>3, <1>7, <2>2
<1>8. CASE row # added
  <2>1. Q = P
    BY <1>4, <1>5, <1>8 DEF Positions
  <2> QED BY <1>3, <1>8, <2>1
<1> QED BY <1>7, <1>8

\* The rows that files of different names deserve are different.
LEMMA DeservedRows ==
    \A row, file, state :
        row \in Deserved(file, state) =>
            row.file = file /\ state \in {"missing", "corrupt", "changed"}
BY DEF Deserved, Row

\* What a file deserves.
LEMMA DeservedRow ==
    \A row, file :
        /\ row \in Deserved(file, "missing") <=> row = Row(file, "missing")
        /\ row \in Deserved(file, "corrupt") <=> row = Row(file, "modified")
        /\ row \in Deserved(file, "changed") <=> row = Row(file, "modified")
        /\ row \notin Deserved(file, "good")
BY DEF Deserved

\* What is noted, file by file.
LEMMA NotedRow ==
    \A row : row \in Noted <=>
        \/ NotedConfig /\ ~first.configure /\ row \in Deserved("config", first.config)
        \/ NotedBlacklist /\ row \in Deserved("blacklist", first.blacklist)
        \/ NotedTxt /\ row \in Deserved("txt", first.txt)
BY DEF Noted


\* A step that notes no file anew.
NotesKept ==
    /\ UNCHANGED <<first, found>>
    /\ first.configure \/ (NotedConfig' <=> NotedConfig)
    /\ NotedBlacklist' <=> NotedBlacklist
    /\ NotedTxt' <=> NotedTxt

\* A step that notes one row, of one file.
Notes(row) ==
    /\ UNCHANGED first
    /\ row \in Rows
    /\ found' = Append(found, row)
    /\ row \notin Noted
    /\ \A r : r \in Noted' <=> r \in Noted \/ r = row

\* The steps that only load, download or go on note nothing.
LEMMA NotesKeptStep ==
    ASSUME Tries >= 2, TypeInv, FilesInv, StageInv, mishaps' = {},
           \/ ReplaceConfig \/ Load \/ Downloaded \/ LogInitBypasses \/ Configure
           \/ DontConfigure \/ Report \/ LoadBlacklist \/ ReplaceBlacklist \/ Connection
           \/ UNCHANGED vars
    PROVE  NotesKept
<1> USE DEF files, history, StageInv, Done, Configured, InLoop, Between, NotesKept,
        NotedConfig, NotedBlacklist, NotedTxt
<1> config \in FileStates /\ blacklist \in FileStates /\ pc \in Labels /\ Tries \in Nat
      /\ tries \in 0..Tries /\ caller \in {"options", "subsystem"}
  BY StartupAssumption DEF TypeInv, TypeOK
<1> USE DEF FileStates
<1>1. CASE ReplaceConfig
  BY <1>1, Downloads DEF ReplaceConfig, NextTry
<1>2. CASE Load
  BY <1>2 DEF Load
<1>3. CASE Downloaded
  BY <1>3, Answered DEF Downloaded
<1>4. CASE LogInitBypasses
  BY <1>4 DEF LogInitBypasses
<1>5. CASE Configure
  BY <1>5, Downloads DEF Configure
<1>6. CASE DontConfigure
  BY <1>6 DEF DontConfigure
<1>7. CASE Report
  BY <1>7 DEF Report
<1>8. CASE LoadBlacklist
  BY <1>8 DEF LoadBlacklist
<1>9. CASE ReplaceBlacklist
  BY <1>9, Downloads DEF ReplaceBlacklist
<1>10. CASE Connection
  BY <1>10 DEF Connection
<1>11. CASE UNCHANGED vars
  BY <1>11 DEF vars
<1> QED
  BY <1>1, <1>2, <1>3, <1>4, <1>5, <1>6, <1>7, <1>8, <1>9, <1>10, <1>11

\* The row of a file that is in that state.
RowOf(file, state) == Row(file, IF state = "missing" THEN "missing" ELSE "modified")

\* It is a row of the table, the only one that the file deserves, and no other
\* file deserves it.
LEMMA RowOfDeserved ==
    ASSUME NEW file \in {"config", "blacklist", "txt"},
           NEW state \in {"missing", "corrupt", "changed"}
    PROVE  /\ RowOf(file, state) \in Rows
           /\ \A row : row \in Deserved(file, state) <=> row = RowOf(file, state)
           /\ \A other, state2 : RowOf(file, state) \in Deserved(other, state2) => other = file
<1>1. RowOf(file, state) \in Rows
  BY RowsAreRows DEF RowOf
<1>2. \A row : row \in Deserved(file, state) <=> row = RowOf(file, state)
  BY DeservedRow DEF RowOf
<1>3. RowOf(file, state).file = file
  BY DEF RowOf, Row
<1> QED BY <1>1, <1>2, <1>3, DeservedRows

\* The configuration file is noted.
LEMMA ConfigNoted ==
    ASSUME TypeInv, UNCHANGED first, config = first.config, config # "good",
           ~first.configure, ~NotedConfig, NotedConfig',
           NotedBlacklist' <=> NotedBlacklist, NotedTxt' <=> NotedTxt,
           found' = Append(found, RowOf("config", config))
    PROVE  Notes(RowOf("config", config))
<1>1. config \in {"missing", "corrupt", "changed"}
  BY DEF TypeInv, TypeOK, FileStates
<1> DEFINE row == RowOf("config", config)
<1>2. /\ row \in Rows
      /\ \A r : r \in Deserved("config", first.config) <=> r = row
      /\ \A file, state : row \in Deserved(file, state) => file = "config"
  BY <1>1, RowOfDeserved
<1>3. row \notin Noted
  BY <1>2, NotedRow
<1>4. \A r : r \in Noted' <=> r \in Noted \/ r = row
  BY <1>2, NotedRow DEF Noted
<1> QED BY <1>2, <1>3, <1>4 DEF Notes

\* The blacklist is noted.
LEMMA BlacklistNoted ==
    ASSUME TypeInv, UNCHANGED first, blacklist = first.blacklist, blacklist # "good",
           ~NotedBlacklist, NotedBlacklist',
           first.configure \/ (NotedConfig' <=> NotedConfig), NotedTxt' <=> NotedTxt,
           found' = Append(found, RowOf("blacklist", blacklist))
    PROVE  Notes(RowOf("blacklist", blacklist))
<1>1. blacklist \in {"missing", "corrupt", "changed"}
  BY DEF TypeInv, TypeOK, FileStates
<1> DEFINE row == RowOf("blacklist", blacklist)
<1>2. /\ row \in Rows
      /\ \A r : r \in Deserved("blacklist", first.blacklist) <=> r = row
      /\ \A file, state : row \in Deserved(file, state) => file = "blacklist"
  BY <1>1, RowOfDeserved
<1>3. row \notin Noted
  BY <1>2, NotedRow
<1>4. \A r : r \in Noted' <=> r \in Noted \/ r = row
  BY <1>2, NotedRow DEF Noted
<1> QED BY <1>2, <1>3, <1>4 DEF Notes

\* The texts are noted.
LEMMA TxtNoted ==
    ASSUME TypeInv, UNCHANGED first, txt = "corrupt", ~NotedTxt, NotedTxt',
           first.configure \/ (NotedConfig' <=> NotedConfig),
           NotedBlacklist' <=> NotedBlacklist,
           found' = Append(found, RowOf("txt", txt))
    PROVE  Notes(RowOf("txt", txt))
<1>1. txt \in {"missing", "corrupt", "changed"} /\ txt = first.txt
  BY DEF TypeInv
<1> DEFINE row == RowOf("txt", txt)
<1>2. /\ row \in Rows
      /\ \A r : r \in Deserved("txt", first.txt) <=> r = row
      /\ \A file, state : row \in Deserved(file, state) => file = "txt"
  BY <1>1, RowOfDeserved
<1>3. row \notin Noted
  BY <1>2, NotedRow
<1>4. \A r : r \in Noted' <=> r \in Noted \/ r = row
  BY <1>2, NotedRow DEF Noted
<1> QED BY <1>2, <1>3, <1>4 DEF Notes

\* Every step notes nothing, or one row that was not noted yet.
LEMMA NotedStep ==
    ASSUME Tries >= 2, TypeInv, FilesInv, StageInv, [Next]_vars, mishaps' = {}
    PROVE  NotesKept \/ (\E row : Notes(row)) \/ (found' = found /\ Noted' = Noted)
<1> USE DEF files, history, StageInv, Done, Configured, InLoop, Between
<1> config \in FileStates /\ blacklist \in FileStates /\ pc \in Labels /\ Tries \in Nat
      /\ tries \in 0..Tries /\ caller \in {"options", "subsystem"}
  BY StartupAssumption DEF TypeInv, TypeOK
<1> /\ config \in {first.config, "good"} /\ blacklist \in {first.blacklist, "good"}
    /\ txt = first.txt /\ txt \in {"corrupt", "good"}
  BY DEF FilesInv, TypeInv, TypeOK
<1> USE DEF FileStates
<1>1. CASE LoadMissing
  <2>1. found' = Append(found, RowOf("config", config)) /\ config = "missing"
    BY <1>1 DEF LoadMissing, AddRow, RowOf
  <2>2. ~first.configure /\ config = first.config /\ UNCHANGED first
    BY <1>1 DEF LoadMissing
  <2>3. /\ ~NotedConfig /\ NotedConfig'
        /\ NotedBlacklist' <=> NotedBlacklist
        /\ NotedTxt' <=> NotedTxt
    BY <1>1 DEF LoadMissing, NotedConfig, NotedBlacklist, NotedTxt
  <2> QED BY <2>1, <2>2, <2>3, ConfigNoted
<1>2. CASE LoadCorrupt
  <2>1. found' = Append(found, RowOf("config", config)) /\ config = "corrupt"
    BY <1>2 DEF LoadCorrupt, AddRow, RowOf
  <2>2. ~first.configure /\ config = first.config /\ UNCHANGED first
    BY <1>2 DEF LoadCorrupt
  <2>3. /\ ~NotedConfig /\ NotedConfig'
        /\ NotedBlacklist' <=> NotedBlacklist
        /\ NotedTxt' <=> NotedTxt
    BY <1>2 DEF LoadCorrupt, NotedConfig, NotedBlacklist, NotedTxt
  <2> QED BY <2>1, <2>2, <2>3, ConfigNoted
<1>3. CASE UpdateConfig /\ IsNewer(config)
  <2>1. found' = Append(found, RowOf("config", config)) /\ config = "changed" /\ config' = "good"
    BY <1>3, Downloads DEF UpdateConfig, AddRow, RowOf, IsNewer
  <2>2. ~first.configure /\ config = first.config /\ UNCHANGED first
    BY <1>3, <2>1 DEF UpdateConfig
  <2>3. /\ ~NotedConfig /\ NotedConfig'
        /\ NotedBlacklist' <=> NotedBlacklist
        /\ NotedTxt' <=> NotedTxt
    BY <1>3, <2>1 DEF UpdateConfig, NotedConfig, NotedBlacklist, NotedTxt
  <2> QED BY <2>1, <2>2, <2>3, ConfigNoted
<1>4. CASE UpdateConfig /\ ~IsNewer(config)
  BY <1>4 DEF UpdateConfig, NotesKept, NotedConfig, NotedBlacklist, NotedTxt
<1>5. CASE UpdateBlacklist /\ IsNewer(blacklist)
  <2>1. found' = Append(found, RowOf("blacklist", blacklist)) /\ blacklist' = "good"
    BY <1>5, Downloads DEF UpdateBlacklist, AddRow, RowOf, IsNewer
  <2>2. blacklist \in {"corrupt", "changed"} /\ blacklist = first.blacklist /\ UNCHANGED first
    BY <1>5 DEF UpdateBlacklist, IsNewer
  <2>3. /\ ~NotedBlacklist /\ NotedBlacklist'
        /\ NotedConfig' <=> NotedConfig
        /\ NotedTxt' <=> NotedTxt
    BY <1>5, <2>1, <2>2
       DEF UpdateBlacklist, NextTry, IsNewer, NotedConfig, NotedBlacklist, NotedTxt
  <2> QED BY <2>1, <2>2, <2>3, BlacklistNoted
<1>6. CASE UpdateBlacklist /\ ~IsNewer(blacklist)
  <2>1. UNCHANGED <<config, blacklist, caller, first, found>> /\ pc = "updateBlacklist"
    BY <1>6 DEF UpdateBlacklist
  <2>2. pc' \in {"load", "txt", "report"} /\ (pc' # "report" \/ caller = "subsystem")
    BY <1>6 DEF UpdateBlacklist, Return, NextTry
  <2> QED BY <2>1, <2>2 DEF NotesKept, NotedConfig, NotedBlacklist, NotedTxt
<1>7. CASE LoadTxt /\ txt = "corrupt"
  <2>1. found' = Append(found, RowOf("txt", txt)) /\ UNCHANGED first
    BY <1>7 DEF LoadTxt, AddRow, RowOf
  <2>2. /\ ~NotedTxt /\ NotedTxt'
        /\ NotedConfig' <=> NotedConfig
        /\ NotedBlacklist' <=> NotedBlacklist
    BY <1>7 DEF LoadTxt, NotedConfig, NotedBlacklist, NotedTxt
  <2> QED BY <1>7, <2>1, <2>2, TxtNoted
<1>8. CASE LoadTxt /\ txt = "good"
  <2>1. UNCHANGED <<first, found>>
    BY <1>8 DEF LoadTxt
  <2>2. NotedConfig' = NotedConfig /\ NotedBlacklist' = NotedBlacklist
    BY <1>8, SMT DEF LoadTxt, NotedConfig, NotedBlacklist
  <2>3. Deserved("txt", first.txt) = {}
    BY <1>8 DEF Deserved
  <2>4. Noted' = Noted
    BY <2>1, <2>2, <2>3 DEF Noted
  <2> QED BY <2>1, <2>4
<1>9. CASE LoadBlacklistFails
  <2>1. blacklist = "missing" /\ blacklist = first.blacklist /\ UNCHANGED first
    BY <1>9 DEF LoadBlacklistFails
  <2>2. found' = Append(found, RowOf("blacklist", blacklist))
    BY <1>9, <2>1 DEF LoadBlacklistFails, RowOf
  <2>3. /\ ~NotedBlacklist /\ NotedBlacklist'
        /\ NotedConfig' <=> NotedConfig
        /\ NotedTxt' <=> NotedTxt
    BY <1>9 DEF LoadBlacklistFails, NotedConfig, NotedBlacklist, NotedTxt
  <2> QED BY <2>1, <2>2, <2>3, BlacklistNoted
<1> QED
  BY <1>1, <1>2, <1>3, <1>4, <1>5, <1>6, <1>7, <1>8, <1>9, NotesKeptStep DEF Next, Progress

-----------------------------------------------------------------------------
\* The counts go with what is noted.
LEMMA CountStep ==
    ASSUME Tries >= 2, TypeInv, FilesInv, StageInv, CountInv, [Next]_vars, mishaps' = {}
    PROVE  CountInv'
<1>1. found \in Seq(Rows)
  BY DEF TypeInv, TypeOK
<1>2. CASE \E row : Notes(row)
  <2>1. PICK row : Notes(row)
    BY <1>2
  <2> SUFFICES ASSUME NEW r \in Rows
               PROVE  Count(r)' = IF r \in Noted' THEN 1 ELSE 0
    BY DEF CountInv
  <2>2. Count(r) = IF r \in Noted THEN 1 ELSE 0
    BY DEF CountInv
  <2>3. Count(r) = Cardinality(Positions(found, r))
    BY DEF Count, Positions
  <2>4. Count(r)' = Cardinality(Positions(Append(found, row), r))
    BY <2>1 DEF Notes, Count, Positions
  <2>5. row \in Rows /\ row \notin Noted /\ (r \in Noted' <=> r \in Noted \/ r = row)
    BY <2>1 DEF Notes
  <2>6. Count(r)' = Count(r) + IF r = row THEN 1 ELSE 0
    BY <1>1, <2>3, <2>4, <2>5, PositionsGrow
  <2> QED BY <2>2, <2>5, <2>6
<1>3. CASE UNCHANGED found /\ \A r : r \in Noted' <=> r \in Noted
  BY <1>3 DEF CountInv, Count
<1>4. NotesKept => UNCHANGED found /\ \A r : r \in Noted' <=> r \in Noted
  BY NotedRow DEF NotesKept, Noted
<1> QED BY <1>2, <1>3, <1>4, NotedStep

\* AnsweredInv holds at the start, before anything is noted.
LEMMA AnsweredInit == Tries >= 2 /\ Init => AnsweredInv
<1> SUFFICES ASSUME Tries >= 2, Init PROVE FilesInv /\ StageInv /\ CountInv
  BY DEF AnsweredInv
<1> USE DEF InLoop, Between
<1>1. FilesInv /\ first.configure = configFlag
  BY DEF Init, FilesInv
<1>2. pc = "load" \/ (pc = "txt" /\ first.configure /\ configFlag)
  BY DEF Init
<1>3. caller = "options" /\ tries = Tries
  BY DEF Init
<1>4. pc = "load" => ~first.configure
  BY DEF Init
<1>5. StageInv
  BY <1>1, <1>2, <1>3, <1>4 DEF StageInv, Configured
<1>6. Noted = {}
  <2>1. first.configure \/ Deserved("config", first.config) = {} \/ ~NotedConfig
    BY <1>2 DEF Init, NotedConfig, Deserved
  <2>2. Deserved("blacklist", first.blacklist) = {} \/ ~NotedBlacklist
    BY <1>2 DEF Init, NotedBlacklist, Deserved
  <2>3. ~NotedTxt
    BY <1>2, <1>3 DEF NotedTxt
  <2> QED BY <2>1, <2>2, <2>3 DEF Noted
<1>7. \A row : Count(row) = 0
  <2>1. \A row : {n \in 1..Len(found) : found[n] = row} = {}
    BY DEF Init
  <2> QED BY <2>1, FS_EmptySet DEF Count
<1> QED BY <1>1, <1>5, <1>6, <1>7 DEF CountInv

\* Every step keeps AnsweredInv, which claims nothing once there was a mishap.
LEMMA AnsweredStep == Tries >= 2 /\ TypeInv /\ AnsweredInv /\ [Next]_vars => AnsweredInv'
<1> SUFFICES ASSUME Tries >= 2, TypeInv, AnsweredInv, [Next]_vars, mishaps' = {}
             PROVE  FilesInv' /\ StageInv' /\ CountInv'
  BY DEF AnsweredInv
<1>1. mishaps = {} /\ UNCHANGED first
  BY FilesStep
<1>2. FilesInv /\ StageInv /\ CountInv
  BY <1>1 DEF AnsweredInv
<1>3. FilesInv'
  BY <1>1, <1>2, FilesStep DEF FilesInv
<1> QED BY <1>2, <1>3, StageStep, CountStep

\* AnsweredInv holds throughout.
LEMMA AlwaysAnswered == Tries >= 2 /\ Spec => [](TypeInv /\ AnsweredInv)
<1>1. ASSUME Tries >= 2 PROVE Spec => [](TypeInv /\ AnsweredInv)
  <2>1. Init => AnsweredInv
    BY <1>1, AnsweredInit
  <2>2. TypeInv /\ AnsweredInv /\ [Next]_vars => AnsweredInv'
    BY <1>1, AnsweredStep
  <2> QED BY <2>1, <2>2, TypeInit, TypeStep, PTL DEF Spec
<1> QED BY <1>1

\* With two tries or more (the code has three) the reports and the sniffer work
\* with the options of the file, and these are the server's, in whatever state
\* the files were, unless the server gave a wrong answer or the blacklist, whose
\* time modifiedFilesUpdate reads, was missing.
THEOREM ValuesCorrect == Tries >= 2 /\ Spec => []ValuesFromFile
<1>1. TypeInv /\ AnsweredInv => ValuesFromFile
  BY DEF AnsweredInv, StageInv, Done, ValuesFromFile
<1> QED BY <1>1, AlwaysAnswered, PTL

\* The sniffer then looks for what is in the server's blacklist.
THEOREM FilterCorrect == Tries >= 2 /\ Spec => []FiltersWithServersList
<1>1. TypeInv /\ AnsweredInv => FiltersWithServersList
  BY DEF AnsweredInv, StageInv, FiltersWithServersList
<1> QED BY <1>1, AlwaysAnswered, PTL

\* Each file that was found missing, corrupt or changed is noted once, whichever
\* of the three loops sees it and however often.
THEOREM NotedOnceCorrect == Tries >= 2 /\ Spec => []FoundOnce
<1>1. TypeInv /\ AnsweredInv => FoundOnce
  <2> SUFFICES ASSUME AnsweredInv, pc = "sniffing", mishaps = {}
               PROVE  \A row \in Rows : Count(row) = IF row \in AllDeserved THEN 1 ELSE 0
    BY DEF FoundOnce
  <2>1. config = "good" /\ blacklist = "good"
    BY DEF AnsweredInv, StageInv, Done, Configured
  <2>2. NotedConfig /\ NotedBlacklist /\ NotedTxt
    BY <2>1 DEF NotedConfig, NotedBlacklist, NotedTxt, InLoop
  <2>3. Noted = AllDeserved
    BY <2>2 DEF Noted, AllDeserved
  <2> QED BY <2>3 DEF AnsweredInv, CountInv
<1> QED BY <1>1, AlwaysAnswered, PTL

=============================================================================
