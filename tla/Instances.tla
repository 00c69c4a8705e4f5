----------------------------- MODULE Instances -----------------------------
(***************************************************************************)
(* The instances of the program on one computer, from one boot to the next *)
(* halt: each reports first, if it has to, and then sniffs, if it finds in *)
(* the pidfile that it is the only instance.  Signals end them; each runs  *)
(* the same handler, whether it sniffs or not.                             *)
(*                                                                         *)
(* Situations names what the model lets happen besides instances that      *)
(* start one after another and of which only the one that sniffs is sent a *)
(* signal:                                                                 *)
(*    "overlap" - instances start at the same time;                        *)
(*    "foreign" - an instance that does not sniff is interrupted;          *)
(*    "reuse"   - the system gives the pid of a dead instance to another   *)
(*                program.                                                 *)
(***************************************************************************)
EXTENDS Naturals, FiniteSets

CONSTANTS Instances,  \* every start of the program, known by its pid
          Situations, \* see above
          None,       \* no pidfile
          Empty       \* a pidfile without a pid

ASSUME InstancesAssumption ==
    /\ Situations \subseteq {"overlap", "foreign", "reuse"}
    /\ None \notin Instances
    /\ Empty \notin Instances
    /\ None # Empty

VARIABLES
    pc,
    pidfile,  \* the pid in it
    reused,   \* the pids that other programs have now
    session,  \* the row of sessions for this boot: "none", "open" or "stopped"
    refused,  \* the instances that found another one (history)
    rightly,  \* those of them for which there was one (history)
    slandered \* whether a live instance was taken for a killed one (history)

vars == <<pc, pidfile, reused, session, refused, rightly, slandered>>

Init ==
    /\ pc = [i \in Instances |-> "new"]
    /\ pidfile = None
    /\ reused = {}
    /\ session = "none"
    /\ refused = {}
    /\ rightly = {}
    /\ slandered = FALSE

Sniffing == {i \in Instances : pc[i] = "sniffing"}

Starting == {i \in Instances : pc[i] \in {"report", "check", "logSessionStart", "open", "write"}}

Alive == Sniffing \cup Starting

Goto(i, label) == pc' = [pc EXCEPT ![i] = label]

-----------------------------------------------------------------------------
\* MainApplication::initialize, up to the start of the ReportSubsystem.
Start(i) ==
    /\ pc[i] = "new"
    /\ "overlap" \in Situations \/ Starting = {}
    /\ Goto(i, "report")
    /\ UNCHANGED <<pidfile, reused, session, refused, rightly, slandered>>

\* ReportSubsystem::initialize returns; with --no-sniffer that was all.
Report(i) ==
    /\ pc[i] = "report"
    /\ Goto(i, "check") \/ Goto(i, "dead")
    /\ UNCHANGED <<pidfile, reused, session, refused, rightly, slandered>>

\* Slips: the pid is not read from the file, or only the file is looked at.
OtherFoundUnread(i) == i \notin Instances

OtherFoundInFile(i) == pidfile \in Instances \ {i}

\* SnifferSubsystem::isOnlyInstance.  kill(pid, 0) succeeds for every process.
OtherFound(i) == pidfile \in (Alive \cup reused) \ {i}

Check(i) ==
    /\ pc[i] = "check"
    /\ IF OtherFound(i)
       THEN /\ Goto(i, "dead")
            /\ refused' = refused \cup {i}
            /\ rightly' = IF Alive \ {i} # {} THEN rightly \cup {i} ELSE rightly
       ELSE /\ Goto(i, "logSessionStart")
            /\ UNCHANGED <<refused, rightly>>
    /\ UNCHANGED <<pidfile, reused, session, slandered>>

\* A slip: the row of this boot is not opened again.
LogSessionStartOnce(i) ==
    /\ pc[i] = "logSessionStart"
    /\ slandered' = (slandered \/ (session = "open" /\ Sniffing # {}))
    /\ session' = IF session = "none" THEN "open" ELSE session
    /\ Goto(i, "open")
    /\ UNCHANGED <<pidfile, reused, refused, rightly>>

\* A session that is still open is that of an instance that was killed.
LogSessionStart(i) ==
    /\ pc[i] = "logSessionStart"
    /\ slandered' = (slandered \/ (session = "open" /\ Sniffing # {}))
    /\ session' = "open"
    /\ Goto(i, "open")
    /\ UNCHANGED <<pidfile, reused, refused, rightly>>

\* The file is created or truncated when it is opened, and written when it is
\* closed.
OpenPidfile(i) ==
    /\ pc[i] = "open"
    /\ pidfile' = Empty
    /\ Goto(i, "write")
    /\ UNCHANGED <<reused, session, refused, rightly, slandered>>

WritePidfile(i) ==
    /\ pc[i] = "write"
    /\ pidfile' = i
    /\ Goto(i, "sniffing")
    /\ UNCHANGED <<reused, session, refused, rightly, slandered>>

\* Sniffer::run returns when no device can be read any more: the instance ends
\* without a signal.
RunReturns(i) ==
    /\ pc[i] = "sniffing"
    /\ Goto(i, "dead")
    /\ UNCHANGED <<pidfile, reused, session, refused, rightly, slandered>>

-----------------------------------------------------------------------------
\* logSessionStop.  An instance that has not come to logSessionStart has never
\* set _sessionRowId, which may then be any row.
LogSessionStop(i) ==
    \/ /\ session # "none"
       /\ session' = "stopped"
    \/ /\ pc[i] \in {"report", "check", "logSessionStart"}
       /\ session' = session

\* A slip: the handler returns to what it interrupted.
TerminateNot(i) ==
    /\ i \in Alive
    /\ pc[i] = "sniffing" \/ "foreign" \in Situations
    /\ LogSessionStop(i)
    /\ pidfile' = None
    /\ UNCHANGED <<pc, reused, refused, rightly, slandered>>

\* signalHandler on SIGTERM, SIGINT and their like, and terminateNicely: the
\* session is stopped and the pidfile removed, whatever is in it.  (If there is
\* none the removal throws and that ends the instance.)
Terminate(i) ==
    /\ i \in Alive
    /\ pc[i] = "sniffing" \/ "foreign" \in Situations
    /\ LogSessionStop(i)
    /\ pidfile' = None
    /\ Goto(i, "dead")
    /\ UNCHANGED <<reused, refused, rightly, slandered>>

\* SIGKILL, or a fault.
Kill(i) ==
    /\ i \in Alive
    /\ Goto(i, "dead")
    /\ UNCHANGED <<pidfile, reused, session, refused, rightly, slandered>>

Reuse(i) ==
    /\ "reuse" \in Situations
    /\ pc[i] = "dead"
    /\ i \notin reused
    /\ reused' = reused \cup {i}
    /\ UNCHANGED <<pc, pidfile, session, refused, rightly, slandered>>

-----------------------------------------------------------------------------
Step(i) ==
    \/ Report(i)
    \/ Check(i)
    \/ LogSessionStart(i)
    \/ OpenPidfile(i)
    \/ WritePidfile(i)

Next == \E i \in Instances :
    \/ Start(i)
    \/ Step(i)
    \/ RunReturns(i)
    \/ Terminate(i)
    \/ Kill(i)
    \/ Reuse(i)

Spec == Init /\ [][Next]_vars

-----------------------------------------------------------------------------
(***************************************************************************)
(* Properties.                                                             *)
(***************************************************************************)
Labels == {"new", "report", "check", "logSessionStart", "open", "write", "sniffing", "dead"}

\* Every variable stays in its type.
TypeOK ==
    /\ pc \in [Instances -> Labels]
    /\ pidfile \in Instances \cup {None, Empty}
    /\ reused \subseteq Instances
    /\ session \in {"none", "open", "stopped"}
    /\ refused \subseteq Instances
    /\ rightly \subseteq refused
    /\ slandered \in BOOLEAN

\* "Determines if there is any other instance running, if so this one will not
\* survive" (SnifferSubsystem.h:63-64): two instances never sniff at the same
\* time, which would log every URL twice.
OneSniffer == \A i, j \in Sniffing : i = j

\* The converse: an instance gives way to another instance, and never to none,
\* so that the user is not left without a sniffer; at least as long as no other
\* program has the pid of a dead instance.
GivesWayToInstance == reused = {} => refused \subseteq rightly

\* The scripts find the instance that sniffs in the pidfile, to stop or to
\* reset it.
PidfileNamesSniffer == \A i \in Sniffing : pidfile = i

\* The bypass "killed" is logged for instances that died without stopping their
\* session, never for one that goes on sniffing.
KilledIsDead == ~slandered

\* What is stopped was stopped by the last to sniff: an instance that sniffs has
\* an open session.
SnifferHasSession == Sniffing # {} => session = "open"

\* What others rely on to find and to judge an instance that sniffs is in step
\* with it: the scripts the pidfile, the next start the session.
SnifferOnRecord == PidfileNamesSniffer /\ SnifferHasSession

\* The inductive invariant of instances that start one after another: past the
\* check an instance is alone.
OneAtATime ==
    /\ TypeOK
    /\ OneSniffer
    /\ PidfileNamesSniffer
    /\ SnifferHasSession
    /\ KilledIsDead
    /\ \A i, j \in Starting : i = j
    /\ \A i \in Starting : pc[i] \in {"logSessionStart", "open", "write"} => Sniffing = {}
    /\ \A i \in Starting : pc[i] \in {"open", "write"} => session = "open"
    /\ GivesWayToInstance

=============================================================================
