------------------------------ MODULE Startup ------------------------------
(***************************************************************************)
(* How the program gets its configuration and its blacklist when it starts *)
(* and what becomes of the files that somebody removed, damaged or         *)
(* changed: the constructor of Options loads the configuration, has the    *)
(* server say which files are newer than their download, and notes in      *)
(* initBypasses what it found; the constructor of Database logs these;     *)
(* ConfigSubsystem configures anew where that is asked for; Filter loads   *)
(* the blacklist.                                                          *)
(*                                                                         *)
(* A file is "missing", "corrupt" (it cannot be parsed, or lacks a value), *)
(* "changed" since its download but well-formed, or "good".  The clocks of *)
(* the computer and of the server agree to the 15 seconds of               *)
(* modifiedFilesUpdate.  Situations names what the server may do:          *)
(*    "refuse" - answer with an error, upon which nothing is saved;        *)
(*    "garble" - answer with a page that is saved as the file.             *)
(***************************************************************************)
EXTENDS Naturals, Sequences, FiniteSets

CONSTANTS Tries,     \* moreTries, how often a file is loaded at most
          Situations \* see above

FileStates == {"missing", "corrupt", "changed", "good"}

ASSUME StartupAssumption ==
    /\ Tries \in Nat \ {0}
    /\ Situations \subseteq {"refuse", "garble"}

VARIABLES
    config,       \* the configuration file
    blacklist,    \* the blacklist file
    txt,          \* the file of texts, which comes with the program
    online,       \* whether the server can be reached
    pc,
    caller,       \* who calls loadConfigfile: "options" or "subsystem"
    tries,        \* moreTries
    isModified,   \* that of modifiedFilesUpdate
    configFlag,   \* the property "config" of the application
    values,       \* the options in force: "unset", or those of a file
    initBypasses, \* the rows of Options::_initBypasses
    filter,       \* Filter::_blacklist: "none", or that of a file
    bypasses,     \* the table
    first,        \* the files as they were found, and configFlag (history)
    found,        \* the rows that were ever added anywhere (history)
    mishaps       \* the Situations the server was in so far (history)

files   == <<config, blacklist, txt>>
history == <<first, found, mishaps>>
vars    == <<files, online, pc, caller, tries, isModified, configFlag, values, initBypasses,
             filter, bypasses, history>>

Row(file, kind) == [file |-> file, kind |-> kind]

\* The row that logInitBypasses may insert: no type, no date, no details.
Blank == Row("none", "unknown")

Init ==
    /\ config \in FileStates
    /\ blacklist \in FileStates
    /\ txt \in {"corrupt", "good"}
    /\ online \in BOOLEAN
    /\ configFlag \in BOOLEAN   \* TRUE for --config and --install
    /\ pc = IF configFlag THEN "txt" ELSE "load"
    /\ caller = "options"
    /\ tries = Tries
    /\ isModified = FALSE
    /\ values = "unset"
    /\ initBypasses = <<>>
    /\ filter = "none"
    /\ bypasses = <<>>
    /\ first = [config |-> config, blacklist |-> blacklist, txt |-> txt, configure |-> configFlag]
    /\ found = <<>>
    /\ mishaps = {}

Connection ==
    /\ online' = ~online
    /\ UNCHANGED <<files, pc, caller, tries, isModified, configFlag, values, initBypasses,
                   filter, bypasses, history>>

-----------------------------------------------------------------------------
(***************************************************************************)
(* Request.  send tries for ever to reach the server.                      *)
(***************************************************************************)
\* What is left in the file after a download.
Download(file, newFile) ==
    /\ online
    /\ \/ /\ newFile = "good"
          /\ UNCHANGED mishaps
       \/ /\ "refuse" \in Situations
          /\ newFile = file
          /\ mishaps' = mishaps \cup {"refuse"}
       \/ /\ "garble" \in Situations
          /\ newFile = "corrupt"
          /\ mishaps' = mishaps \cup {"garble"}

\* modifiedFilesUpdate compares the time of the file with that of its download.
IsNewer(file) == file \in {"corrupt", "changed"}

AddRow(row) ==
    /\ initBypasses' = Append(initBypasses, row)
    /\ found' = Append(found, row)

\* loadConfigfile returns; in ConfigSubsystem::initialize the flag is reset.
Return ==
    IF caller = "options"
    THEN pc' = "txt" /\ UNCHANGED configFlag
    ELSE pc' = "report" /\ configFlag' = FALSE

\* A slip: one try too many.
NextTryOnceMore(flag) ==
    /\ tries' = tries - 1
    /\ IF tries > 0 THEN pc' = "load" /\ configFlag' = flag
       ELSE /\ pc' = IF caller = "options" THEN "txt" ELSE "report"
            /\ configFlag' = (flag /\ caller = "options")

\* The next turn of the loop in loadConfigfile, with that flag.
NextTry(flag) ==
    /\ tries' = tries - 1
    /\ IF tries > 1 THEN pc' = "load" /\ configFlag' = flag
       ELSE /\ pc' = IF caller = "options" THEN "txt" ELSE "report"
            /\ configFlag' = (flag /\ caller = "options")

-----------------------------------------------------------------------------
(***************************************************************************)
(* Options::loadConfigfile and Request::modifiedFilesUpdate.               *)
(***************************************************************************)
LoadMissing ==
    /\ pc = "load"
    /\ config = "missing"
    /\ AddRow(Row("config", "missing"))
    /\ IF caller = "options"
       THEN pc' = "txt" /\ configFlag' = TRUE
       ELSE pc' = "report" /\ configFlag' = FALSE
    /\ UNCHANGED <<files, online, caller, tries, isModified, values, filter, bypasses,
                   first, mishaps>>

\* The values that precede the error in the file are taken.
LoadCorrupt ==
    /\ pc = "load"
    /\ config = "corrupt"
    /\ values' \in {values, "corrupt"}
    /\ IF tries = Tries THEN AddRow(Row("config", "modified"))
       ELSE UNCHANGED <<initBypasses, found>>
    /\ pc' = "replaceConfig"
    /\ UNCHANGED <<files, online, caller, tries, isModified, configFlag, filter, bypasses,
                   first, mishaps>>

ReplaceConfig ==
    /\ pc = "replaceConfig"
    /\ Download(config, config')
    /\ NextTry(configFlag \/ tries = 1)
    /\ UNCHANGED <<blacklist, txt, online, caller, isModified, values, initBypasses, filter,
                   bypasses, first, found>>

Load ==
    /\ pc = "load"
    /\ config \in {"changed", "good"}
    /\ values' = config
    /\ isModified' = FALSE
    /\ pc' = "downloaded"
    /\ UNCHANGED <<files, online, caller, tries, configFlag, initBypasses, filter, bypasses,
                   history>>

\* The server says when the files were downloaded.  Anything else cannot be
\* parsed, and modifiedFilesUpdate returns false.
Downloaded ==
    /\ pc = "downloaded"
    /\ online
    /\ \/ /\ pc' = "updateConfig"
          /\ UNCHANGED <<configFlag, mishaps>>
       \/ /\ \E s \in Situations : mishaps' = mishaps \cup {s}
          /\ Return
    /\ UNCHANGED <<files, caller, tries, isModified, values, initBypasses, filter, bypasses,
                   online, first, found>>

\* Slips: the file is not downloaded; the row is added in any case.
UpdateConfigNot ==
    /\ pc = "updateConfig"
    /\ \/ /\ ~IsNewer(config)
          /\ UNCHANGED <<isModified, initBypasses, found>>
       \/ /\ IsNewer(config)
          /\ AddRow(Row("config", "modified"))
          /\ isModified' = TRUE
    /\ pc' = "updateBlacklist"
    /\ UNCHANGED <<files, online, caller, tries, configFlag, values, filter, bypasses,
                   first, mishaps>>

UpdateConfigAlways ==
    /\ pc = "updateConfig"
    /\ Download(config, config')
    /\ AddRow(Row("config", "modified"))
    /\ isModified' = TRUE
    /\ pc' = "updateBlacklist"
    /\ UNCHANGED <<blacklist, txt, online, caller, tries, configFlag, values, filter, bypasses,
                   first>>

UpdateConfig ==
    /\ pc = "updateConfig"
    /\ \/ /\ ~IsNewer(config)
          /\ UNCHANGED <<config, isModified, initBypasses, found, mishaps>>
       \/ /\ IsNewer(config)
          /\ Download(config, config')
          /\ AddRow(Row("config", "modified"))
          /\ isModified' = TRUE
    /\ pc' = "updateBlacklist"
    /\ UNCHANGED <<blacklist, txt, online, caller, tries, configFlag, values, filter, bypasses,
                   first>>

\* A slip: only what the blacklist was counts.
UpdateBlacklistOnly ==
    /\ pc = "updateBlacklist"
    /\ \/ /\ ~IsNewer(blacklist)
          /\ Return
          /\ UNCHANGED <<blacklist, tries, initBypasses, found, mishaps>>
       \/ /\ IsNewer(blacklist)
          /\ Download(blacklist, blacklist')
          /\ AddRow(Row("blacklist", "modified"))
          /\ NextTry(configFlag)
    /\ UNCHANGED <<config, txt, online, caller, isModified, values, filter, bypasses, first>>

\* Without a blacklist its time cannot be read, and modifiedFilesUpdate returns
\* false whatever it did before.
UpdateBlacklist ==
    /\ pc = "updateBlacklist"
    /\ \/ /\ blacklist = "missing" \/ (~IsNewer(blacklist) /\ ~isModified)
          /\ Return
          /\ UNCHANGED <<blacklist, tries, initBypasses, found, mishaps>>
       \/ /\ blacklist = "good" /\ isModified
          /\ NextTry(configFlag)
          /\ UNCHANGED <<blacklist, initBypasses, found, mishaps>>
       \/ /\ IsNewer(blacklist)
          /\ Download(blacklist, blacklist')
          /\ AddRow(Row("blacklist", "modified"))
          /\ NextTry(configFlag)
    /\ UNCHANGED <<config, txt, online, caller, isModified, values, filter, bypasses, first>>

-----------------------------------------------------------------------------
\* Options::loadTxt
LoadTxt ==
    /\ pc = "txt"
    /\ IF txt = "corrupt" THEN AddRow(Row("txt", "modified")) ELSE UNCHANGED <<initBypasses, found>>
    /\ pc' = "database"
    /\ UNCHANGED <<files, online, caller, tries, isModified, configFlag, values, filter,
                   bypasses, first, mishaps>>

\* Database::logInitBypasses.  The statement has four parameters and is given
\* one: it fails, or inserts a row of nulls, once for all rows.
LogInitBypasses ==
    /\ pc = "database"
    /\ bypasses' \in IF initBypasses = <<>> THEN {bypasses}
                     ELSE {bypasses, Append(bypasses, Blank)}
    /\ initBypasses' = <<>>
    /\ pc' = "configSubsystem"
    /\ UNCHANGED <<files, online, caller, tries, isModified, configFlag, values, filter, history>>

\* ConfigSubsystem::initialize, up to the call of loadConfigfile: addMac
\* downloads a configuration.
Configure ==
    /\ pc = "configSubsystem"
    /\ configFlag
    /\ Download(config, config')
    /\ caller' = "subsystem"
    /\ tries' = Tries
    /\ pc' = "load"
    /\ UNCHANGED <<blacklist, txt, online, isModified, configFlag, values, initBypasses, filter,
                   bypasses, first, found>>

DontConfigure ==
    /\ pc = "configSubsystem"
    /\ ~configFlag
    /\ pc' = "report"
    /\ UNCHANGED <<files, online, caller, tries, isModified, configFlag, values, initBypasses,
                   filter, bypasses, history>>

\* ReportSubsystem::initialize asks for the options; then a sniffer is wanted,
\* or not.  The report itself, which may wait for its servers, is in ReportCycle.
Report ==
    /\ pc = "report"
    /\ tries' = Tries
    /\ pc' \in {"filter", "stopped"}
    /\ UNCHANGED <<files, online, caller, isModified, configFlag, values, initBypasses, filter,
                   bypasses, history>>

-----------------------------------------------------------------------------
\* Filter::loadBlacklist.  Its bypasses go to the table directly.
LoadBlacklist ==
    /\ pc = "filter"
    /\ blacklist \in {"changed", "good"}
    /\ filter' = blacklist
    /\ pc' = "sniffing"
    /\ UNCHANGED <<files, online, caller, tries, isModified, configFlag, values, initBypasses,
                   bypasses, history>>

LoadBlacklistFails ==
    LET row == Row("blacklist", IF blacklist = "missing" THEN "missing" ELSE "modified") IN
    /\ pc = "filter"
    /\ blacklist \in {"missing", "corrupt"}
    /\ IF tries = Tries
       THEN bypasses' = Append(bypasses, row) /\ found' = Append(found, row)
       ELSE UNCHANGED <<bypasses, found>>
    /\ pc' = "replaceBlacklist"
    /\ UNCHANGED <<files, online, caller, tries, isModified, configFlag, values, initBypasses,
                   filter, first, mishaps>>

\* Slips: what was downloaded last is not loaded; the last try is repeated.
ReplaceBlacklistLast ==
    /\ pc = "replaceBlacklist"
    /\ Download(blacklist, blacklist')
    /\ pc' = "sniffing"
    /\ UNCHANGED <<config, txt, online, caller, tries, isModified, configFlag, values,
                   initBypasses, filter, bypasses, first, found>>

ReplaceBlacklistUntilGood ==
    /\ pc = "replaceBlacklist"
    /\ Download(blacklist, blacklist')
    /\ tries' = IF tries > 1 THEN tries - 1 ELSE tries
    /\ pc' = "filter"
    /\ UNCHANGED <<config, txt, online, caller, isModified, configFlag, values, initBypasses,
                   filter, bypasses, first, found>>

\* After the last try the sniffer has an empty blacklist.
ReplaceBlacklist ==
    /\ pc = "replaceBlacklist"
    /\ Download(blacklist, blacklist')
    /\ tries' = tries - 1
    /\ pc' = IF tries > 1 THEN "filter" ELSE "sniffing"
    /\ UNCHANGED <<config, txt, online, caller, isModified, configFlag, values, initBypasses,
                   filter, bypasses, first, found>>

-----------------------------------------------------------------------------
Progress ==
    \/ LoadMissing
    \/ LoadCorrupt
    \/ ReplaceConfig
    \/ Load
    \/ Downloaded
    \/ UpdateConfig
    \/ UpdateBlacklist
    \/ LoadTxt
    \/ LogInitBypasses
    \/ Configure
    \/ DontConfigure
    \/ Report
    \/ LoadBlacklist
    \/ LoadBlacklistFails
    \/ ReplaceBlacklist

Next == Progress \/ Connection

Spec == Init /\ [][Next]_vars

\* The program goes on by itself; nobody has to answer it but the server.
FairSpec == Spec /\ WF_vars(Progress)

-----------------------------------------------------------------------------
(***************************************************************************)
(* Properties.                                                             *)
(***************************************************************************)
Labels == {"load", "replaceConfig", "downloaded", "updateConfig", "updateBlacklist", "txt",
           "database", "configSubsystem", "report", "filter", "replaceBlacklist", "sniffing",
           "stopped"}

Rows == [file : {"config", "blacklist", "txt"}, kind : {"missing", "modified"}]

\* Every variable stays in its type; the tries in particular never run below
\* zero, which a loop that sets its own counter could make them.
TypeOK ==
    /\ config \in FileStates
    /\ blacklist \in FileStates
    /\ txt \in {"corrupt", "good"}
    /\ online \in BOOLEAN
    /\ pc \in Labels
    /\ caller \in {"options", "subsystem"}
    /\ tries \in 0..Tries
    /\ pc \in {"load", "replaceConfig", "filter", "replaceBlacklist"} => tries > 0
    /\ isModified \in BOOLEAN
    /\ configFlag \in BOOLEAN
    /\ values \in (FileStates \ {"missing"}) \cup {"unset"}
    /\ initBypasses \in Seq(Rows)
    /\ filter \in {"none", "changed", "good"}
    /\ bypasses \in Seq(Rows \cup {Blank})
    /\ found \in Seq(Rows)
    /\ mishaps \subseteq Situations

Configured == pc \in {"report", "filter", "replaceBlacklist", "sniffing", "stopped"}

\* "Load all options from the local configfile, or download a new one if it's
\* corrupt" (Options.h:173-174): the reports and the sniffer work with the
\* options that are in the file, and these are the server's, if it gave them.
\* (Without a blacklist the options of a replaced file stay in force.)
ValuesFromFile ==
    Configured /\ mishaps = {} /\ first.blacklist # "missing" =>
        values = config /\ config = "good"

\* "Update the config file and blacklist if they're modified" (Request.h:88):
\* what the sniffer looks for is in the server's blacklist, if it gave one,
\* whatever state the files were in.
FiltersWithServersList == pc = "sniffing" /\ mishaps = {} => filter = "good"

Count(row) == Cardinality({n \in 1..Len(found) : found[n] = row})

\* The row that a file deserves; a configuration that is to be replaced anyway
\* deserves none.
Deserved(file, state) ==
    CASE state = "missing" -> {Row(file, "missing")}
      [] state \in {"corrupt", "changed"} -> {Row(file, "modified")}
      [] OTHER -> {}

AllDeserved ==
    (IF first.configure THEN {} ELSE Deserved("config", first.config))
    \cup Deserved("blacklist", first.blacklist)
    \cup Deserved("txt", first.txt)

\* Each file that was found missing, corrupt or changed is noted once, although
\* up to three loops look at it one after another.
FoundOnce ==
    pc = "sniffing" /\ mishaps = {} =>
        \A row \in Rows : Count(row) = IF row \in AllDeserved THEN 1 ELSE 0

\* However often the server refuses, no file is noted that was good; only a page
\* that is no file can make it look damaged.
FoundJustly ==
    "garble" \notin mishaps => \A n \in 1..Len(found) : found[n] \in Deserved("config", first.config) \cup AllDeserved

\* The start does not end before the server is reached, but once it stays
\* reachable, whatever it answers, the start ends.  Report is one step here: that
\* a report waits for the mail server (ReportSubsystem.cpp:62-66), or for this
\* server once more, is no part of the claim but of CycleEnds in ReportCycle.
StartEnds == <>[]online => <>(pc \in {"sniffing", "stopped"})

=============================================================================
