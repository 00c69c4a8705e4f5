-------------------------- MODULE InstancesProofs --------------------------
(***************************************************************************)
(* Instances that start one after another, of which only the one that      *)
(* sniffs is sent a signal: whatever their number, the pidfile does its    *)
(* work.                                                                   *)
(***************************************************************************)
EXTENDS Instances, TLAPS

\* Nobody starts the program twice at a time or interrupts an instance that does
\* not sniff.
Orderly == Situations \cap {"overlap", "foreign"} = {}

\* At first there is no instance and no pidfile.
LEMMA InitOneAtATime == Init => OneAtATime
BY DEF Init, OneAtATime, TypeOK, Labels, OneSniffer, PidfileNamesSniffer, SnifferHasSession,
       KilledIsDead, GivesWayToInstance, Sniffing, Starting

\* Every step of an orderly instance keeps it alone past its check.
LEMMA NextOneAtATime ==
    ASSUME Orderly, OneAtATime, [Next]_vars
    PROVE  OneAtATime'
<1> USE InstancesAssumption
<1> USE DEF Orderly, OneAtATime, TypeOK, Labels, OneSniffer, PidfileNamesSniffer,
            SnifferHasSession, KilledIsDead, GivesWayToInstance, Sniffing, Starting, Goto
<1>1. ASSUME NEW i \in Instances, Start(i)
      PROVE  OneAtATime'
      BY <1>1 DEF Start
<1>2. ASSUME NEW i \in Instances, Report(i)
      PROVE  OneAtATime'
      BY <1>2 DEF Report
<1>3. ASSUME NEW i \in Instances, Check(i)
      PROVE  OneAtATime'
  <2>1. CASE OtherFound(i)
    <3>1. reused = {} => pidfile \in Alive \ {i}
          BY <2>1 DEF OtherFound
    <3> QED
          BY <1>3, <2>1, <3>1 DEF Check, Alive
  <2>2. CASE ~OtherFound(i)
    <3>1. Sniffing = {}
          BY <1>3, <2>2 DEF OtherFound, Alive, Check
    <3> QED
          BY <1>3, <2>2, <3>1 DEF Check
  <2> QED
      BY <2>1, <2>2
<1>4. ASSUME NEW i \in Instances, LogSessionStart(i)
      PROVE  OneAtATime'
      BY <1>4 DEF LogSessionStart
<1>5. ASSUME NEW i \in Instances, OpenPidfile(i)
      PROVE  OneAtATime'
      BY <1>5 DEF OpenPidfile
<1>6. ASSUME NEW i \in Instances, WritePidfile(i)
      PROVE  OneAtATime'
      BY <1>6 DEF WritePidfile
<1>7. ASSUME NEW i \in Instances, RunReturns(i)
      PROVE  OneAtATime'
      BY <1>7 DEF RunReturns
<1>8. ASSUME NEW i \in Instances, Terminate(i)
      PROVE  OneAtATime'
      BY <1>8 DEF Terminate, LogSessionStop, Alive
<1>9. ASSUME NEW i \in Instances, Kill(i)
      PROVE  OneAtATime'
      BY <1>9 DEF Kill, Alive
<1>10. ASSUME NEW i \in Instances, Reuse(i)
       PROVE  OneAtATime'
       BY <1>10 DEF Reuse
<1>11. CASE UNCHANGED vars
       BY <1>11 DEF vars
<1> QED
    BY <1>1, <1>2, <1>3, <1>4, <1>5, <1>6, <1>7, <1>8, <1>9, <1>10, <1>11 DEF Next, Step

\* The inductive invariant holds throughout: any number of instances, also while
\* other programs get the pids of dead ones.
THEOREM AlwaysOneAtATime == Orderly /\ Spec => []OneAtATime
<1>1. ASSUME Orderly
      PROVE  Spec => []OneAtATime
  <2>1. Init => OneAtATime
        BY InitOneAtATime
  <2>2. OneAtATime /\ [Next]_vars => OneAtATime'
        BY <1>1, NextOneAtATime
  <2> QED
        BY <2>1, <2>2, PTL DEF Spec
<1> QED
    BY <1>1

\* "If so this one will not survive" (SnifferSubsystem.h:63-64): two instances
\* never sniff at a time, however many are started one after another.
THEOREM OneSnifferTheorem == Orderly /\ Spec => []OneSniffer
<1>1. OneAtATime => OneSniffer
      BY DEF OneAtATime
<1> QED
    BY <1>1, AlwaysOneAtATime, PTL

\* The scripts find the instance that sniffs in the pidfile, and its session is
\* open.
THEOREM OnRecordTheorem == Orderly /\ Spec => []SnifferOnRecord
<1>1. OneAtATime => SnifferOnRecord
      BY DEF OneAtATime, SnifferOnRecord
<1> QED
    BY <1>1, AlwaysOneAtATime, PTL

\* An instance gives way to an instance only, as long as no other program has the
\* pid of a dead one.
THEOREM GivesWayTheorem == Orderly /\ Spec => []GivesWayToInstance
<1>1. OneAtATime => GivesWayToInstance
      BY DEF OneAtATime
<1> QED
    BY <1>1, AlwaysOneAtATime, PTL

=============================================================================
