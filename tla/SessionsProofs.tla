--------------------------- MODULE SessionsProofs ---------------------------
(***************************************************************************)
(* Proofs about Sessions, for any gaps that are allowed, any number of     *)
(* boots, acts and attempts: what is read of wtmp is what the loop over it *)
(* computes, it is true, and the table of sessions has one open row while  *)
(* the program runs.                                                       *)
(***************************************************************************)
EXTENDS Sessions, FiniteSetTheorems, SequenceTheorems, TLAPS

\* The program is on its way from its start to sniffing.
Phases == {"select", "row", "delete", "start", "reopen"}

Orderly == mishaps \subseteq {"crash", "reset", "locked"}

\* TypeOK, with what the times need.
TypeInv ==
    /\ TypeOK
    /\ pc # "off" => boot # 0
    /\ boot <= now
    /\ since <= now
    /\ \A n \in 1..Len(wtmp) : wtmp[n].time \in 1..now
    /\ pc = "delete" => rows # <<>>

\* The boots that ever were.
Booted == DOMAIN halted \cup ({boot} \ {0})

\* The sessions of the computer follow one another.
ComputerInv ==
    /\ boot \notin DOMAIN halted
    /\ boot # 0 => boot <= since
    /\ \A b \in DOMAIN halted : halted[b] # 0 => b <= halted[b]
    /\ \A b \in DOMAIN halted, c \in Booted : b < c => halted[b] < c
    /\ \A b \in DOMAIN halted : boot # 0 => b < boot

IsBoot(n) == wtmp[n].kind = "boot"

\* wtmp has a record of each boot, and one of each halt right after it.
WtmpInv ==
    /\ \A n \in 1..Len(wtmp) : wtmp[n].kind \in {"boot", "down"}
    /\ \A m, n \in 1..Len(wtmp) : m < n => wtmp[m].time <= wtmp[n].time
    /\ \A m, n \in 1..Len(wtmp) : m < n /\ IsBoot(n) => wtmp[m].time < wtmp[n].time
    /\ \A n \in 1..Len(wtmp) : IsBoot(n) => wtmp[n].time \in Booted
    /\ \A b \in Booted : \E n \in 1..Len(wtmp) : IsBoot(n) /\ wtmp[n].time = b
    /\ \A n \in 1..Len(wtmp) : IsBoot(n) =>
          IF n = Len(wtmp)
          THEN wtmp[n].time = boot \/ (boot = 0 /\ halted[wtmp[n].time] = 0)
          ELSE /\ wtmp[n].time \in DOMAIN halted
               /\ halted[wtmp[n].time] = IF IsBoot(n + 1) THEN 0 ELSE wtmp[n + 1].time
    /\ \A n \in 1..Len(wtmp) : ~IsBoot(n) =>
          IF n = Len(wtmp) THEN boot = 0 ELSE IsBoot(n + 1)

\* What was read is true, but for the sessions that crashed: they take their halt
\* from a later one.
IsTrue(read) ==
    /\ DOMAIN read = DOMAIN halted \cup {boot}
    /\ read[boot] = now
    /\ \A b \in DOMAIN read : b <= read[b]
    /\ \A b \in DOMAIN halted :
          IF halted[b] # 0 THEN read[b] = halted[b]
          ELSE \E c \in DOMAIN read : b < c /\ read[c] = read[b]

ReadInv == pc \in Phases /\ "slow" \notin mishaps => IsTrue(boots)

\* The table has one row at most; where the program is tells of which boot.
TableInv ==
    /\ \A row, other \in sessions : row = other
    /\ \A row \in sessions : row.boot \in Booted /\ row.boot <= row.start
    /\ pc \in {"row", "delete"} =>
          /\ Len(rows) <= 1
          /\ IF rows = <<>> THEN \A row \in sessions : row.boot = boot
             ELSE sessions = {rows[1]} /\ seen = {rows[1].boot}
          /\ \A row \in sessions : seen = {row.boot}
          /\ \A f, g \in seen : f = g
          /\ seen \subseteq Booted
    /\ pc = "delete" => rows # <<>> /\ rows[1].boot # boot
    /\ pc = "start" => \A row \in sessions : row.boot = boot
    /\ pc = "reopen" => \E row \in sessions : row.boot = boot
    /\ pc = "running" => session = boot /\ \E row \in sessions : row.boot = boot /\ row.stop = 0

\* How the program went down can be seen from the table.
DownInv ==
    pc = "off" /\ boot # 0 =>
        IF how = "boot" THEN since = boot /\ \A row \in sessions : row.boot # boot
        ELSE \E row \in sessions :
                row.boot = boot /\ row.stop = IF how = "stopped" THEN since ELSE 0

OrderlyInv == Orderly => TableInv /\ DownInv

-----------------------------------------------------------------------------
\* The numbers are well-ordered.
LEMMA LeastNumber == \A S \in SUBSET Nat : S # {} => \E m \in S : \A n \in S : m <= n
<1> TAKE S \in SUBSET Nat
<1> HAVE S # {}
<1> DEFINE Less == {pair \in Nat \X Nat : pair[1] < pair[2]}
<1>1. IsWellFoundedOn(Less, Nat)
  BY NatLessThanWellFounded, Zenon DEF OpToRel
<1>2. \A m, n \in Nat : m < n => <<m, n>> \in Less
  OBVIOUS
<1> HIDE DEF Less
<1>3. PICK m \in S : \A n \in S : <<n, m>> \notin Less
  BY <1>1, WFMin
<1>4. \A n \in S : n \in Nat /\ m \in Nat /\ ~(n < m)
  BY <1>2, <1>3
<1>5. \A n \in S : m <= n
  BY <1>4
<1> QED BY <1>5

\* A set of numbers has a smallest one, and one that is bounded a largest one.
LEMMA MinIsMin ==
    \A S \in SUBSET Nat : S # {} => Min(S) \in S /\ \A n \in S : Min(S) <= n
<1> TAKE S \in SUBSET Nat
<1> HAVE S # {}
<1>1. \E m \in S : \A n \in S : m <= n
  BY LeastNumber
<1> QED BY <1>1 DEF Min

LEMMA MaxIsMax ==
    \A S \in SUBSET Nat, bound \in Nat :
        S # {} /\ (\A n \in S : n <= bound) => Max(S) \in S /\ \A n \in S : n <= Max(S)
<1> TAKE S \in SUBSET Nat, bound \in Nat
<1> HAVE S # {} /\ \A n \in S : n <= bound
<1> DEFINE Bounds == {u \in Nat : \A n \in S : n <= u}
<1>1. PICK u \in Bounds : \A v \in Bounds : u <= v
  <2>1. bound \in Bounds /\ Bounds \in SUBSET Nat
    OBVIOUS
  <2> HIDE DEF Bounds
  <2> QED BY <2>1, LeastNumber
<1>2. u \in S
  <2> SUFFICES ASSUME u \notin S PROVE FALSE
    OBVIOUS
  <2>1. \A n \in S : n < u
    OBVIOUS
  <2>2. u > 0 /\ u \in Nat
    <3>1. PICK n \in S : TRUE
      OBVIOUS
    <3> QED BY <2>1, <3>1
  <2>3. u - 1 \in Nat /\ \A n \in S : n <= u - 1
    BY <2>1, <2>2
  <2>4. u - 1 \in Bounds
    BY <2>3
  <2> QED BY <1>1, <2>4
<1>3. \E m \in S : \A n \in S : m >= n
  BY <1>2
<1> QED BY <1>3 DEF Max

\* A number that is above all others is the largest.
LEMMA MaxIs ==
    \A S \in SUBSET Nat : \A m \in S : (\A n \in S : n <= m) => Max(S) = m
<1> TAKE S \in SUBSET Nat
<1> TAKE m \in S
<1> HAVE \A n \in S : n <= m
<1>1. m \in Nat /\ S # {}
  OBVIOUS
<1>2. Max(S) \in S /\ \A n \in S : n <= Max(S)
  BY <1>1, MaxIsMax
<1>3. Max(S) \in Nat /\ Max(S) <= m /\ m <= Max(S)
  BY <1>2
<1> QED BY <1>1, <1>3

LEMMA MinIs ==
    \A S \in SUBSET Nat : \A m \in S : (\A n \in S : m <= n) => Min(S) = m
<1> TAKE S \in SUBSET Nat
<1> TAKE m \in S
<1> HAVE \A n \in S : m <= n
<1>1. Min(S) \in S /\ \A n \in S : Min(S) <= n
  BY MinIsMin
<1>2. Min(S) \in Nat /\ m \in Nat /\ Min(S) <= m /\ m <= Min(S)
  BY <1>1
<1> QED BY <1>2

-----------------------------------------------------------------------------
\* lastdown is the next halt of the file, or the time of the reading.
LEMMA LastDownIs ==
    ASSUME NEW file \in Seq(WtmpRecord), NEW n \in 1..Len(file), NEW time \in Nat
    PROVE  \/ /\ \A m \in n+1..Len(file) : file[m].kind # "down"
              /\ LastDown(file, n, time) = time
           \/ \E m \in n+1..Len(file) :
                 /\ file[m].kind = "down"
                 /\ \A k \in n+1..Len(file) : file[k].kind = "down" => m <= k
                 /\ LastDown(file, n, time) = file[m].time
<1> DEFINE downs == {m \in n+1..Len(file) : file[m].kind = "down"}
<1>1. LastDown(file, n, time) = IF downs = {} THEN time ELSE file[Min(downs)].time
  BY DEF LastDown
<1>2. downs \in SUBSET Nat
  OBVIOUS
<1>3. CASE downs = {}
  BY <1>1, <1>3
<1>4. CASE downs # {}
  <2> DEFINE m == Min(downs)
  <2>1. m \in downs /\ \A k \in downs : m <= k
    BY <1>2, <1>4, MinIsMin
  <2>2. LastDown(file, n, time) = file[m].time
    BY <1>1, <1>4
  <2> HIDE DEF m
  <2> QED BY <2>1, <2>2
<1> QED BY <1>3, <1>4

\* The map has the boots of the file, each with the halt after its record.
LEMMA ReadFileIs ==
    ASSUME NEW file \in Seq(WtmpRecord), NEW time \in Nat
    PROVE  /\ \A b : b \in DOMAIN ReadFile(file, time) <=>
                  \E n \in 1..Len(file) : file[n].kind = "boot" /\ file[n].time = b
           /\ \A b \in DOMAIN ReadFile(file, time) : \E n \in 1..Len(file) :
                 /\ file[n].kind = "boot"
                 /\ file[n].time = b
                 /\ ReadFile(file, time)[b] = LastDown(file, n, time)
<1> DEFINE Boots == {n \in 1..Len(file) : file[n].kind = "boot"}
           Of(b) == {n \in Boots : file[n].time = b}
           Dom == {file[n].time : n \in Boots}
<1>1. ReadFile(file, time) = [b \in Dom |-> LastDown(file, Max(Of(b)), time)]
  BY DEF ReadFile
<1>2. \A b : b \in Dom <=> \E n \in 1..Len(file) : file[n].kind = "boot" /\ file[n].time = b
  OBVIOUS
<1>3. ASSUME NEW b \in Dom
      PROVE  Max(Of(b)) \in Of(b)
  <2>1. Of(b) \in SUBSET Nat /\ Len(file) \in Nat /\ Of(b) # {}
    OBVIOUS
  <2>2. \A n \in Of(b) : n <= Len(file)
    OBVIOUS
  <2> HIDE DEF Of
  <2> QED BY <2>1, <2>2, MaxIsMax
<1>4. \A b \in Dom : \E n \in 1..Len(file) :
                 /\ file[n].kind = "boot"
                 /\ file[n].time = b
                 /\ ReadFile(file, time)[b] = LastDown(file, n, time)
  <2> TAKE b \in Dom
  <2> DEFINE n == Max(Of(b))
  <2>1. ReadFile(file, time)[b] = LastDown(file, n, time)
    BY <1>1
  <2>2. n \in 1..Len(file) /\ file[n].kind = "boot" /\ file[n].time = b
    BY <1>3
  <2> HIDE DEF n
  <2> QED BY <2>1, <2>2
<1>5. DOMAIN ReadFile(file, time) = Dom
  BY <1>1
<1> HIDE DEF Dom
<1> QED BY <1>2, <1>4, <1>5

\* Its times are times of the file, or that of the reading.
LEMMA ReadFileType ==
    ASSUME NEW file \in Seq(WtmpRecord), NEW time \in Nat \ {0},
           \A n \in 1..Len(file) : file[n].time \in 1..time
    PROVE  \A b \in DOMAIN ReadFile(file, time) :
              b \in 1..time /\ ReadFile(file, time)[b] \in 1..time
<1> TAKE b \in DOMAIN ReadFile(file, time)
<1>1. PICK n \in 1..Len(file) :
         file[n].time = b /\ ReadFile(file, time)[b] = LastDown(file, n, time)
  BY ReadFileIs
<1>2. LastDown(file, n, time) \in 1..time
  <2>1. LastDown(file, n, time) = time \/ \E m \in n+1..Len(file) : LastDown(file, n, time) = file[m].time
    BY LastDownIs
  <2>2. n+1..Len(file) \subseteq 1..Len(file)
    OBVIOUS
  <2>3. time \in 1..time
    OBVIOUS
  <2> QED BY <2>1, <2>2, <2>3
<1> QED BY <1>1, <1>2

\* The boot time that is found is that of a session that was read, or none.
LEMMA BootTimeType ==
    ASSUME NEW read, NEW bound \in Nat, NEW time, \A b \in DOMAIN read : b \in 1..bound
    PROVE  BootTime(read, time) \in 0..bound
<1> DEFINE S == {0} \cup {b \in DOMAIN read : time < read[b] + Fresh}
<1>1. S \in SUBSET Nat /\ S # {} /\ \A b \in S : b <= bound
  OBVIOUS
<1>2. Max(S) \in S
  <2> HIDE DEF S
  <2> QED BY <1>1, MaxIsMax
<1> QED BY <1>2 DEF BootTime

-----------------------------------------------------------------------------
(***************************************************************************)
(* The loop over wtmp.                                                     *)
(***************************************************************************)
\* What was read once the records with the numbers s were.
DownOf(file, time, s) ==
    LET downs == {m \in s : file[m].kind = "down"} IN
    IF downs = {} THEN time ELSE file[Min(downs)].time

BootsOf(file, s) == {n \in s : file[n].kind = "boot"}

LatestBoot(file, s, b) == Max({n \in BootsOf(file, s) : file[n].time = b})

After(s, n) == {m \in s : m > n}

BootMap(file, time, s) ==
    [b \in {file[n].time : n \in BootsOf(file, s)} |->
        DownOf(file, time, After(s, LatestBoot(file, s, b)))]

HasRead(file, time, s) ==
    [lastdown |-> DownOf(file, time, s), boots |-> BootMap(file, time, s)]

\* Of the boots at a time the one with the largest number counts.
LEMMA LatestBootIs ==
    ASSUME NEW file \in Seq(WtmpRecord), NEW s \in SUBSET (1..Len(file)),
           NEW n \in BootsOf(file, s)
    PROVE  /\ LatestBoot(file, s, file[n].time) \in BootsOf(file, s)
           /\ LatestBoot(file, s, file[n].time) \in s
<1> DEFINE S == {m \in BootsOf(file, s) : file[m].time = file[n].time}
<1>1. S \in SUBSET Nat /\ Len(file) \in Nat /\ S # {} /\ \A m \in S : m <= Len(file)
  <2>1. \A m \in s : m \in Nat /\ m <= Len(file)
    OBVIOUS
  <2>2. S \subseteq s /\ n \in S
    BY DEF BootsOf
  <2> HIDE DEF S
  <2> QED BY <2>1, <2>2
<1>2. Max(S) \in S
  <2> HIDE DEF S
  <2> QED BY <1>1, MaxIsMax
<1>3. LatestBoot(file, s, file[n].time) = Max(S)
  BY DEF LatestBoot
<1> QED BY <1>2, <1>3 DEF BootsOf

\* One turn of the loop.
LEMMA ReadRecordIs ==
    ASSUME NEW file \in Seq(WtmpRecord), NEW time \in Nat,
           NEW s \in SUBSET (1..Len(file)), s # {}
    PROVE  HasRead(file, time, s) = ReadRecord(file[Min(s)], HasRead(file, time, s \ {Min(s)}))
<1> DEFINE i == Min(s)
           t == s \ {i}
           Times(u) == {file[n].time : n \in BootsOf(file, u)}
<1>1. s \in SUBSET Nat /\ Len(file) \in Nat
  OBVIOUS
<1>2. i \in s /\ i \in Nat /\ \A n \in s : i <= n
  BY <1>1, MinIsMin
<1> HIDE DEF i
<1>3. t \in SUBSET (1..Len(file)) /\ \A n \in t : n \in s /\ n \in Nat /\ n > i
  BY <1>1, <1>2
<1>4. file[i] \in WtmpRecord /\ file[i].kind \in {"boot", "down", "other"}
  <2>1. file[i] \in WtmpRecord
    BY <1>2
  <2> QED BY <2>1 DEF WtmpRecord
<1>5. ASSUME NEW n, n \in t PROVE After(s, n) = After(t, n)
  BY <1>2, <1>3, <1>5 DEF After
<1>6. \A n \in BootsOf(file, t) : n \in t
  BY DEF BootsOf
<1> HIDE DEF t
\* The boots in t keep their halts.
<1>7. ASSUME NEW b \in Times(t)
      PROVE  /\ LatestBoot(file, s, b) = LatestBoot(file, t, b)
             /\ DownOf(file, time, After(s, LatestBoot(file, s, b))) = BootMap(file, time, t)[b]
  <2>1. PICK n \in BootsOf(file, t) : file[n].time = b
    OBVIOUS
  <2> DEFINE S == {m \in BootsOf(file, s) : file[m].time = b}
             T == {m \in BootsOf(file, t) : file[m].time = b}
  <2>2. Max(T) \in T /\ \A m \in T : m <= Max(T)
    <3>1. T \subseteq t /\ n \in T
      BY <2>1 DEF BootsOf
    <3> HIDE DEF T
    <3>2. \A m \in t : m \in Nat /\ m <= Len(file)
      BY <1>3
    <3>3. T \in SUBSET Nat /\ T # {} /\ \A m \in T : m <= Len(file)
      BY <3>1, <3>2
    <3> QED BY <1>1, <3>3, MaxIsMax
  <2>3. S \in SUBSET Nat /\ \A m \in S : m \in T \/ m = i
    BY <1>1 DEF BootsOf, t
  <2>4. T \subseteq S
    BY <1>3 DEF BootsOf
  <2>5. \A m \in T : m \in Nat /\ i < m
    BY <1>3 DEF BootsOf
  <2>6. LatestBoot(file, s, b) = Max(S) /\ LatestBoot(file, t, b) = Max(T)
    BY DEF LatestBoot
  <2> HIDE DEF S, T
  <2>7. Max(T) \in S /\ \A m \in S : m <= Max(T)
    <3>1. Max(T) \in S /\ Max(T) \in Nat /\ i < Max(T)
      BY <2>2, <2>4, <2>5
    <3>2. i <= Max(T)
      BY <1>2, <3>1
    <3> QED BY <2>2, <2>3, <3>1, <3>2, Zenon
  <2>8. Max(S) = Max(T)
    BY <2>3, <2>7, MaxIs
  <2>9. Max(T) \in t
    BY <1>6, <2>2 DEF T
  <2>10. BootMap(file, time, t)[b] = DownOf(file, time, After(t, LatestBoot(file, t, b)))
    BY DEF BootMap
  <2> QED BY <1>5, <2>6, <2>8, <2>9, <2>10, Zenon
<1>8. CASE file[i].kind = "down"
  <2>1. DownOf(file, time, s) = file[i].time
    <3> DEFINE downs == {m \in s : file[m].kind = "down"}
    <3>1. downs \in SUBSET Nat /\ i \in downs /\ \A m \in downs : i <= m
      BY <1>1, <1>2, <1>8
    <3>2. DownOf(file, time, s) = IF downs = {} THEN time ELSE file[Min(downs)].time
      BY DEF DownOf
    <3> HIDE DEF downs
    <3>3. Min(downs) = i
      BY <3>1, MinIs
    <3> QED BY <3>1, <3>2, <3>3
  <2>2. BootsOf(file, s) = BootsOf(file, t)
    BY <1>8, <1>3 DEF BootsOf, t
  <2>3. BootMap(file, time, s) = BootMap(file, time, t)
    BY <1>7, <2>2 DEF BootMap
  <2>4. ReadRecord(file[i], HasRead(file, time, t))
           = [HasRead(file, time, t) EXCEPT !.lastdown = file[i].time]
    BY <1>8 DEF ReadRecord
  <2> QED BY <2>1, <2>3, <2>4 DEF HasRead, i, t
<1>9. ASSUME file[i].kind # "down"
      PROVE  DownOf(file, time, s) = DownOf(file, time, t)
  <2>1. {m \in s : file[m].kind = "down"} = {m \in t : file[m].kind = "down"}
    BY <1>9 DEF t
  <2> QED BY <2>1 DEF DownOf
<1>10. CASE file[i].kind = "boot"
  <2> DEFINE new == file[i].time
             old == BootMap(file, time, t)
             last == DownOf(file, time, t)
  <2>1. BootsOf(file, s) = BootsOf(file, t) \cup {i}
    BY <1>2, <1>3, <1>10 DEF BootsOf, t
  <2>2. Times(s) = Times(t) \cup {new} /\ DOMAIN old = Times(t)
    BY <2>1 DEF BootMap
  <2>3. ASSUME new \notin Times(t)
        PROVE  DownOf(file, time, After(s, LatestBoot(file, s, new))) = last
    <3>1. {m \in BootsOf(file, s) : file[m].time = new} = {i}
      BY <2>1, <2>3
    <3>2. Max({i}) = i
      BY <1>2, MaxIs
    <3>3. After(s, i) = t
      <4>1. \A m \in s : m \in Nat /\ (m # i => m > i)
        BY <1>1, <1>2
      <4>2. ~(i > i)
        BY <1>2
      <4> QED BY <4>1, <4>2 DEF After, t
    <3> QED BY <3>1, <3>2, <3>3 DEF LatestBoot
  <2>4. DOMAIN BootMap(file, time, s) = Times(t) \cup {new}
    BY <2>2 DEF BootMap
  <2>5. \A b \in Times(t) \cup {new} : BootMap(file, time, s)[b] =
            IF b \in Times(t) THEN old[b] ELSE last
    <3> SUFFICES ASSUME NEW b \in Times(t) \cup {new}
                 PROVE  BootMap(file, time, s)[b] = IF b \in Times(t) THEN old[b] ELSE last
      OBVIOUS
    <3>1. BootMap(file, time, s)[b] = DownOf(file, time, After(s, LatestBoot(file, s, b)))
      BY <2>2 DEF BootMap
    <3> HIDE DEF old, last, new, Times
    <3> QED BY <1>7, <2>3, <3>1 DEF old
  <2> DEFINE sum == Insert(old, new, last)
  <2>6. sum = [b \in Times(t) \cup {new} |-> IF b \in Times(t) THEN old[b] ELSE last]
    BY <2>2 DEF Insert
  <2>7. BootMap(file, time, s) = sum
    <3>1. BootMap(file, time, s) = [b \in DOMAIN BootMap(file, time, s) |-> BootMap(file, time, s)[b]]
      BY DEF BootMap
    <3> HIDE DEF old, last, new, Times, sum
    <3> QED BY <2>4, <2>5, <2>6, <3>1
  <2>8. ReadRecord(file[i], HasRead(file, time, t))
           = [HasRead(file, time, t) EXCEPT !.boots = Insert(@, new, HasRead(file, time, t).lastdown)]
    BY <1>10 DEF ReadRecord
  <2>9. HasRead(file, time, t).lastdown = last /\ HasRead(file, time, t).boots = old
    BY DEF HasRead
  <2>10. ReadRecord(file[i], HasRead(file, time, t)) = [lastdown |-> last, boots |-> sum]
    BY <2>8, <2>9 DEF HasRead
  <2> QED BY <1>9, <1>10, <2>7, <2>10 DEF HasRead, i, t
<1>11. CASE file[i].kind = "other"
  <2>1. BootsOf(file, s) = BootsOf(file, t)
    BY <1>11, <1>3 DEF BootsOf, t
  <2>2. BootMap(file, time, s) = BootMap(file, time, t)
    BY <1>7, <2>1 DEF BootMap
  <2>3. ReadRecord(file[i], HasRead(file, time, t)) = HasRead(file, time, t)
    BY <1>11 DEF ReadRecord
  <2> QED BY <1>9, <1>11, <2>2, <2>3 DEF HasRead, i, t
<1> QED BY <1>4, <1>8, <1>10, <1>11

\* What ReadFile says at once of wtmp is what the loop of BootHistory::readFile over
\* its records, from the last to the first, comes to, for any file.
THEOREM ReadFileCorrect ==
    ASSUME NEW file \in Seq(WtmpRecord), NEW time \in Nat
    PROVE  ReadBackwards(file, time) = ReadFile(file, time)
<1> DEFINE base == [lastdown |-> time, boots |-> [b \in {} |-> 0]]
           Steps(h) == [s \in SUBSET DOMAIN file |->
                          IF s = {} THEN base ELSE ReadRecord(file[Min(s)], h[s \ {Min(s)}])]
           iter == CHOOSE h : h = Steps(h)
           n == Len(file)
<1>1. n \in Nat /\ DOMAIN file = 1..n
  OBVIOUS
<1>2. ReadBackwards(file, time) = iter[DOMAIN file].boots
  BY DEF ReadBackwards, FoldRight, MapThenFoldSet
<1>3. HasRead(file, time, {}) = base
  <2>1. DownOf(file, time, {}) = time
    BY DEF DownOf
  <2>2. {file[k].time : k \in BootsOf(file, {})} = {}
    BY DEF BootsOf
  <2>3. BootMap(file, time, {}) = [b \in {} |-> 0]
    BY <2>2 DEF BootMap
  <2> QED BY <2>1, <2>3 DEF HasRead
<1> HIDE DEF base
<1>4. iter = Steps(iter)
  <2> DEFINE h == [s \in SUBSET (1..n) |-> HasRead(file, time, s)]
  <2>1. ASSUME NEW s \in SUBSET (1..n)
        PROVE  h[s] = IF s = {} THEN base ELSE ReadRecord(file[Min(s)], h[s \ {Min(s)}])
    <3>1. s \ {Min(s)} \in SUBSET (1..n)
      OBVIOUS
    <3>2. h[s] = HasRead(file, time, s) /\ h[s \ {Min(s)}] = HasRead(file, time, s \ {Min(s)})
      BY <3>1
    <3> HIDE DEF h
    <3>3. CASE s = {}
      BY <1>3, <3>2, <3>3
    <3>4. CASE s # {}
      BY <3>2, <3>4, ReadRecordIs
    <3> QED BY <3>3, <3>4
  <2>2. h = Steps(h)
    BY <1>1, <2>1
  <2> HIDE DEF h, Steps
  <2> QED BY <2>2, Zenon
<1> HIDE DEF iter
<1>5. \A s \in SUBSET (1..n) :
          iter[s] = IF s = {} THEN base ELSE ReadRecord(file[Min(s)], iter[s \ {Min(s)}])
  BY <1>1, <1>4
<1> HIDE DEF n
<1>6. iter[1..n] = HasRead(file, time, 1..n)
  <2> DEFINE Rest(j) == n+1-j..n
             Wrong == {j \in 0..n : iter[Rest(j)] # HasRead(file, time, Rest(j))}
  <2>1. SUFFICES ASSUME Wrong # {} PROVE FALSE
    <3>1. Rest(n) = 1..n /\ n \in 0..n
      BY <1>1
    <3> HIDE DEF Rest
    <3> QED BY <3>1
  <2>2. Wrong \in SUBSET Nat
    BY <1>1
  <2>3. PICK j \in Wrong : \A k \in Wrong : j <= k
    <3> HIDE DEF Wrong
    <3> QED BY <2>1, <2>2, LeastNumber
  <2>4. j \in Nat /\ j <= n
    BY <1>1
  <2>5. CASE j = 0
    <3>1. Rest(0) = {} /\ {} \in SUBSET (1..n)
      BY <1>1
    <3> HIDE DEF Rest
    <3> QED BY <1>3, <1>5, <2>5, <3>1
  <2>6. CASE j > 0
    <3> DEFINE i == n+1-j
    <3>1. j-1 \in 0..n /\ ~(j <= j-1)
      BY <1>1, <2>4, <2>6
    <3>2. iter[Rest(j-1)] = HasRead(file, time, Rest(j-1))
      BY <2>3, <3>1
    <3>3. /\ Rest(j) \in SUBSET (1..n) /\ Rest(j) # {} /\ i \in Rest(j) /\ Rest(j) \in SUBSET Nat
          /\ \A k \in Rest(j) : i <= k
          /\ Rest(j) \ {i} = Rest(j-1)
      <4>1. i \in 1..n /\ n+1-(j-1) = i+1
        BY <1>1, <2>4, <2>6
      <4>2. Rest(j) = i..n /\ Rest(j-1) = i+1..n
        BY <4>1, Zenon
      <4> HIDE DEF Rest, i
      <4>3. /\ i..n \in SUBSET (1..n) /\ i..n # {} /\ i \in i..n /\ i..n \in SUBSET Nat
            /\ \A k \in i..n : i <= k
            /\ (i..n) \ {i} = i+1..n
        <5>1. i \in Nat /\ i >= 1 /\ i <= n /\ n \in Nat
          BY <1>1, <4>1
        <5>2. (i..n) \ {i} = i+1..n
          BY <5>1
        <5>3. \A k \in i..n : k \in Nat /\ k \in 1..n /\ i <= k
          BY <5>1
        <5>4. i \in i..n
          BY <5>1
        <5> QED BY <5>2, <5>3, <5>4
      <4> QED BY <4>2, <4>3, Zenon
    <3> HIDE DEF Rest, i
    <3>4. Min(Rest(j)) = i
      BY <3>3, MinIs
    <3>5. iter[Rest(j)] = ReadRecord(file[i], HasRead(file, time, Rest(j-1)))
      BY <1>5, <3>2, <3>3, <3>4
    <3>6. HasRead(file, time, Rest(j)) = ReadRecord(file[i], HasRead(file, time, Rest(j-1)))
      BY <3>3, <3>4, ReadRecordIs DEF n
    <3> QED BY <3>5, <3>6
  <2> QED BY <2>4, <2>5, <2>6
<1>7. ReadBackwards(file, time) = BootMap(file, time, 1..n)
  BY <1>1, <1>2, <1>6 DEF HasRead
<1>8. BootMap(file, time, 1..n) = ReadFile(file, time)
  <2> DEFINE Dom == {file[k].time : k \in BootsOf(file, 1..n)}
             last(b) == LatestBoot(file, 1..n, b)
  <2>1. ReadFile(file, time) = [b \in Dom |-> LastDown(file, last(b), time)]
    BY DEF ReadFile, BootsOf, LatestBoot, n
  <2>2. ASSUME NEW b \in Dom
        PROVE  LastDown(file, last(b), time) = DownOf(file, time, After(1..n, last(b)))
    <3>1. last(b) \in 1..n
      BY LatestBootIs DEF n
    <3> HIDE DEF last
    <3>2. {m \in last(b)+1..n : file[m].kind = "down"}
              = {m \in After(1..n, last(b)) : file[m].kind = "down"}
      BY <1>1, <3>1 DEF After
    <3> QED BY <3>2 DEF LastDown, DownOf, n
  <2>3. BootMap(file, time, 1..n) = [b \in Dom |-> DownOf(file, time, After(1..n, last(b)))]
    BY DEF BootMap
  <2> HIDE DEF Dom, last
  <2> QED BY <2>1, <2>2, <2>3
<1> QED BY <1>7, <1>8

-----------------------------------------------------------------------------
\* A table of finitely many possible rows is finite, so that it can be put in the
\* order of the boots.
LEMMA RowsFinite == IsFiniteSet(Row) /\ IsFiniteSet(BypassType)
<1>1. MaxTime \in Nat
  BY SessionsAssumption
<1>2. IsFiniteSet(1..MaxTime) /\ IsFiniteSet(0..MaxTime)
  BY <1>1, FS_Interval
<1>3. IsFiniteSet(Kinds)
  <2>1. Kinds = (((({"late"} \cup {"killed"}) \cup {"early"}) \cup {"restart"}) \cup {"omitted"})
    BY DEF Kinds
  <2>2. IsFiniteSet({"late"})
    BY FS_Singleton
  <2>3. IsFiniteSet({"late"} \cup {"killed"})
    BY <2>2, FS_AddElement
  <2>4. IsFiniteSet(({"late"} \cup {"killed"}) \cup {"early"})
    BY <2>3, FS_AddElement
  <2>5. IsFiniteSet((({"late"} \cup {"killed"}) \cup {"early"}) \cup {"restart"})
    BY <2>4, FS_AddElement
  <2>6. IsFiniteSet(((({"late"} \cup {"killed"}) \cup {"early"}) \cup {"restart"}) \cup {"omitted"})
    BY <2>5, FS_AddElement
  <2> QED BY <2>1, <2>6
<1>4. IsFiniteSet(Row)
  <2> DEFINE T == (1..MaxTime) \X ((1..MaxTime) \X (0..MaxTime))
             f == [r \in Row |-> <<r.boot, <<r.start, r.stop>>>>]
  <2>1. IsFiniteSet(T)
    BY <1>2, FS_Product
  <2>2. f \in Injection(Row, T)
    BY DEF Injection, IsInjective, Row
  <2> HIDE DEF f, T
  <2> QED BY <2>1, <2>2, FS_Injection
<1>5. IsFiniteSet(BypassType)
  <2> DEFINE T == (1..MaxTime) \X (Kinds \X (0..MaxTime))
             f == [x \in BypassType |-> <<x.boot, <<x.kind, x.gap>>>>]
  <2>1. IsFiniteSet(T)
    BY <1>2, <1>3, FS_Product
  <2>2. f \in Injection(BypassType, T)
    BY DEF Injection, IsInjective, BypassType
  <2> HIDE DEF f, T
  <2> QED BY <2>1, <2>2, FS_Injection
<1> QED BY <1>4, <1>5

\* A table in the order of the boots has each of its rows once.
LEMMA ByBootIs ==
    ASSUME NEW S, IsFiniteSet(S), NEW s \in ByBoot(S)
    PROVE  /\ s \in Seq(S)
           /\ Len(s) = Cardinality(S)
           /\ \A n \in 1..Len(s) : s[n] \in S
           /\ \A m, n \in 1..Len(s) : s[m] = s[n] => m = n
           /\ \A x \in S : \E n \in 1..Len(s) : s[n] = x
<1> DEFINE D == 1..Cardinality(S)
<1>1. Cardinality(S) \in Nat
  BY FS_CardinalityType
<1>2. s \in [D -> S] /\ \A m, n \in D : m # n => s[m] # s[n]
  BY DEF ByBoot, SetToSeqs
<1>3. s \in Seq(S) /\ Len(s) = Cardinality(S)
  BY <1>1, <1>2
<1>4. IsFiniteSet(D) /\ Cardinality(D) = Cardinality(S)
  BY <1>1, FS_Interval
<1>5. s \in Injection(D, S)
  BY <1>2 DEF Injection, IsInjective
<1>6. s \in Surjection(D, S)
  BY <1>4, <1>5, FS_Injection
<1>7. \A x \in S : \E n \in D : s[n] = x
  BY <1>6 DEF Surjection
<1> QED BY <1>2, <1>3, <1>7

-----------------------------------------------------------------------------
OutageType == [boot : 1..MaxTime, kind : Kinds, gap : 0..MaxTime, act : 0..MaxActs]

\* The outage o as it is remembered.
Remembered(o) == [boot |-> o.boot, kind |-> o.kind, gap |-> o.gap, act |-> acts]

\* An outage is remembered if the user is answerable for it.
LEMMA RecordIs ==
    ASSUME NEW o, Record(o)
    PROVE  outages' = IF Guilty(o) THEN outages \cup {Remembered(o)} ELSE outages
<1>1. CASE Guilty(o)
  <2>1. {x \in {o} : Guilty(x)} = {o}
    BY <1>1
  <2> QED BY <1>1, <2>1 DEF Record, Remembered
<1>2. CASE ~Guilty(o)
  <2>1. {x \in {o} : Guilty(x)} = {}
    BY <1>2
  <2> QED BY <1>2, <2>1 DEF Record, Remembered
<1> QED BY <1>1, <1>2

\* The gap of a time that is long enough to be counted is one.
LEMMA GuiltyGap ==
    ASSUME TypeInv, NEW kind \in Kinds, NEW b \in 1..MaxTime,
           Record(Outage(b, kind, now - since))
    PROVE  outages' \subseteq OutageType
<1>1. now - since \in 0..MaxTime /\ acts \in 0..MaxActs /\ outages \subseteq OutageType
  BY SessionsAssumption DEF TypeInv, TypeOK, OutageType
<1> DEFINE o == Outage(b, kind, now - since)
<1>2. Remembered(o) \in OutageType
  BY <1>1 DEF Outage, Remembered, OutageType
<1>3. outages' = outages \/ outages' = outages \cup {Remembered(o)}
  BY RecordIs
<1> QED BY <1>1, <1>2, <1>3

\* The rows, with another stop in those of that boot.
WithStop(table, b, stop) ==
    {IF row.boot = b THEN [row EXCEPT !.stop = stop] ELSE row : row \in table}

\* They are rows.
LEMMA StopsAreRows ==
    ASSUME NEW table \in SUBSET Row, NEW b, NEW stop \in 0..MaxTime
    PROVE  WithStop(table, b, stop) \subseteq Row
BY DEF Row, WithStop

\* The bypasses that a row shows belong to the table, and so do they after those
\* that were there.
LEMMA BypassesOfType ==
    ASSUME NEW row \in Row, NEW halt \in 1..MaxTime
    PROVE  BypassesOf(row, halt) \in Seq(BypassType)
<1> DEFINE late == IF row.start - row.boot > StartGap
                   THEN <<Outage(row.boot, "late", row.start - row.boot)>> ELSE <<>>
           early == row.stop # 0 /\ halt - row.stop > StartGap
           down == CASE row.stop = 0 -> <<Outage(row.boot, "killed", 0)>>
                     [] early -> <<Outage(row.boot, "early", halt - row.stop)>>
                     [] OTHER -> <<>>
<1>1. StartGap \in Nat /\ MaxTime \in Nat
  BY SessionsAssumption
<1>2. late \in Seq(BypassType)
  <2>1. row.start - row.boot > StartGap => Outage(row.boot, "late", row.start - row.boot) \in BypassType
    BY <1>1 DEF Row, BypassType, Outage, Kinds
  <2> QED BY <2>1
<1>3. down \in Seq(BypassType)
  <2>1. Outage(row.boot, "killed", 0) \in BypassType
    BY <1>1 DEF Row, BypassType, Outage, Kinds
  <2>2. early => Outage(row.boot, "early", halt - row.stop) \in BypassType
    BY <1>1 DEF Row, BypassType, Outage, Kinds
  <2>3. CASE row.stop = 0
    BY <2>1, <2>3
  <2>4. CASE early
    BY <2>2, <2>4
  <2>5. CASE row.stop # 0 /\ ~early
    BY <2>5
  <2> QED BY <2>3, <2>4, <2>5
<1>4. BypassesOf(row, halt) = late \o down
  BY DEF BypassesOf
<1> HIDE DEF late, down
<1> QED BY <1>2, <1>3, <1>4

\* The boot that is found running is one of those that were read.
LEMMA BootFound ==
    ASSUME TypeInv
    PROVE  BootTime(boots, now) \in 0..MaxTime
BY SessionsAssumption, BootTimeType DEF TypeInv, TypeOK

\* The halt time that is found is a time.
LEMMA HaltFound ==
    ASSUME TypeInv, NEW b
    PROVE  HaltTime(boots, b, now) \in 0..MaxTime
BY SessionsAssumption DEF TypeInv, TypeOK, HaltTime

\* What Fails changes.
LEMMA FailsType ==
    ASSUME TypeInv, NEW label, NEW onward, Fails(label, onward)
    PROVE  /\ attempt' \in 0..Finished
           /\ pc' \in {label, onward}
           /\ mishaps' \subseteq Situations
           /\ UNCHANGED <<computer, tables, boots, rows, seen, session, since, how, outages,
                          known, halted, acts>>
<1>1. attempt \in 0..Finished /\ Finished \in Nat /\ mishaps \subseteq Situations
  BY SessionsAssumption DEF TypeInv, TypeOK
<1>2. attempt' \in 0..Finished
  BY <1>1 DEF Fails
<1> QED BY <1>1, <1>2 DEF Fails, Mishap

-----------------------------------------------------------------------------
\* TypeInv holds at the start.
LEMMA TypeInit == Init => TypeInv
BY SessionsAssumption DEF Init, TypeInv, TypeOK, Labels

\* The computer's steps keep it.
LEMMA TypeComputer ==
    ASSUME TypeInv, Tick \/ Boot \/ Halt \/ Crash \/ Stop \/ Kill
    PROVE  TypeInv'
<1> USE SessionsAssumption
        DEF TypeInv, TypeOK, Labels, computer, tables, program, history, Terminate, Mishap, Act
<1>1. CASE Tick
  <2>1. now' = now + 1 /\ now' \in 0..MaxTime
    BY <1>1 DEF Tick
  <2>2. boot <= now' /\ since <= now' /\ \A n \in 1..Len(wtmp) : wtmp[n].time \in 1..now'
    BY <2>1
  <2> QED BY <1>1, <2>1, <2>2 DEF Tick
<1>2. CASE Boot
  <2>1. now \in 1..MaxTime
    BY <1>2 DEF Boot
  <2>2. [kind |-> "boot", time |-> now] \in WtmpRecord
    BY <2>1 DEF WtmpRecord
  <2>3. wtmp' \in Seq(WtmpRecord)
    BY <1>2, <2>2 DEF Boot
  <2>4. \A n \in 1..Len(wtmp') : wtmp'[n].time \in 1..now
    BY <1>2, <2>1 DEF Boot
  <2> QED BY <1>2, <2>1, <2>3, <2>4, SMTT(30) DEF Boot
<1>3. CASE Halt
  <2>1. now \in 1..MaxTime /\ boot \in 1..MaxTime
    BY <1>3 DEF Halt
  <2>2. [kind |-> "down", time |-> now] \in WtmpRecord
    BY <2>1 DEF WtmpRecord
  <2>3. wtmp' \in Seq(WtmpRecord)
    BY <1>3, <2>2 DEF Halt
  <2>4. \A n \in 1..Len(wtmp') : wtmp'[n].time \in 1..now
    BY <1>3, <2>1 DEF Halt
  <2>5. \A b \in DOMAIN halted' : b \in 1..MaxTime /\ halted'[b] \in 0..MaxTime
    BY <1>3, <2>1 DEF Halt, Ends
  <2>6. outages' \subseteq OutageType
    <3>1. AtHalt[how] \in Kinds
      BY DEF AtHalt, Kinds
    <3> QED BY <1>3, <2>1, <3>1, GuiltyGap DEF Halt, OutageType
  <2>7. sessions' \subseteq Row
    <3>1. sessions \in SUBSET Row /\ now \in 0..MaxTime
      OBVIOUS
    <3>2. WithStop(sessions, session, now) \subseteq Row
      BY <3>1, StopsAreRows
    <3>3. sessions' = sessions \/ sessions' = WithStop(sessions, session, now)
      BY <1>3 DEF Halt, LogSessionStop, WithStop
    <3> QED BY <3>1, <3>2, <3>3
  <2>8. pc' = "off" /\ boot' = 0 /\ session' \in 0..MaxTime
    BY <1>3 DEF Halt
  <2>9. UNCHANGED <<now, bypasses, boots, rows, seen, attempt, since, how, known, acts, mishaps>>
    BY <1>3 DEF Halt
  <2> QED BY <2>3, <2>4, <2>5, <2>6, <2>7, <2>8, <2>9 DEF OutageType
<1>4. CASE Crash
  <2>1. \A b \in DOMAIN halted' : b \in 1..MaxTime /\ halted'[b] \in 0..MaxTime
    BY <1>4 DEF Crash, Ends
  <2> QED BY <1>4, <2>1 DEF Crash
<1>5. CASE Stop
  <2>1. sessions' \subseteq Row
    <3>1. sessions \in SUBSET Row /\ now \in 0..MaxTime
      OBVIOUS
    <3>2. WithStop(sessions, session, now) \subseteq Row
      BY <3>1, StopsAreRows
    <3>3. sessions' = WithStop(sessions, session, now)
      BY <1>5 DEF Stop, LogSessionStop, WithStop
    <3> QED BY <3>2, <3>3
  <2>2. acts' \in 0..MaxActs
    BY <1>5 DEF Stop
  <2>3. outages' \subseteq OutageType
    BY <1>5 DEF Stop, OutageType
  <2> QED BY <1>5, <2>1, <2>2, <2>3 DEF Stop, OutageType
<1>6. CASE Kill
  BY <1>6 DEF Kill
<1> QED BY <1>1, <1>2, <1>3, <1>4, <1>5, <1>6

\* The start and the reset of the program keep it.
LEMMA TypeStart ==
    ASSUME TypeInv, Start \/ Reset
    PROVE  TypeInv'
<1> USE SessionsAssumption
        DEF TypeInv, TypeOK, Labels, computer, tables, program, history, Mishap, Act
<1>1. NewDatabase /\ boot # 0 /\ UNCHANGED <<computer, tables, since, how, known, halted>>
  BY DEF Start, Reset
<1>2. now \in Nat \ {0} /\ now \in 1..MaxTime
  BY <1>1
<1>3. \A b \in DOMAIN boots' : b \in 1..MaxTime /\ boots'[b] \in 1..MaxTime
  <2>1. wtmp \in Seq(WtmpRecord) /\ \A n \in 1..Len(wtmp) : wtmp[n].time \in 1..now
    OBVIOUS
  <2>2. \A b \in DOMAIN ReadFile(wtmp, now) : b \in 1..now /\ ReadFile(wtmp, now)[b] \in 1..now
    BY <1>2, <2>1, ReadFileType
  <2>3. boots' = ReadFile(wtmp, now) /\ 1..now \subseteq 1..MaxTime
    BY <1>1, <1>2 DEF NewDatabase
  <2> QED BY <2>2, <2>3
<1>4. outages' \subseteq OutageType
  <2>1. CASE Start
    <3>1. AtStart[how] \in Kinds /\ boot \in 1..MaxTime
      BY <1>1 DEF AtStart, Kinds
    <3> QED BY <2>1, <3>1, GuiltyGap DEF Start, OutageType
  <2>2. CASE Reset
    BY <2>2 DEF Reset, OutageType
  <2> QED BY <2>1, <2>2
<1>5. acts' \in 0..MaxActs
  <2>1. acts \in 0..MaxActs /\ MaxActs \in Nat
    OBVIOUS
  <2>2. acts' = acts \/ (acts < MaxActs /\ acts' = acts + 1)
    BY DEF Start, Reset
  <2> QED BY <2>1, <2>2
<1>6. mishaps' \subseteq Situations
  BY DEF Start, Reset
<1> QED BY <1>1, <1>3, <1>4, <1>5, <1>6, SMTT(30) DEF NewDatabase, OutageType

\* A bypass that is logged belongs to the table.
LEMMA BypassLogged ==
    ASSUME TypeInv, NEW b \in 1..MaxTime, NEW kind \in Kinds, NEW gap \in 0..MaxTime
    PROVE  Append(bypasses, Outage(b, kind, gap)) \in Seq(BypassType)
<1>1. Outage(b, kind, gap) \in BypassType
  BY DEF Outage, BypassType
<1>2. bypasses \in Seq(BypassType)
  BY DEF TypeInv, TypeOK
<1> QED BY <1>1, <1>2

\* The sessions that were omitted, as bypasses.
Omitted ==
    {Outage(b, "omitted", boots[b] - b) :
        b \in {b \in OmittedSessions(boots, seen, now) : boots[b] - b > StartGap}}

\* They belong to the table, and are finitely many.
LEMMA OmittedType == TypeInv => Omitted \subseteq BypassType /\ IsFiniteSet(Omitted)
<1> HAVE TypeInv
<1>1. StartGap \in Nat /\ MaxTime \in Nat
  BY SessionsAssumption
<1>2. ASSUME NEW b \in OmittedSessions(boots, seen, now), boots[b] - b > StartGap
      PROVE  Outage(b, "omitted", boots[b] - b) \in BypassType
  <2>1. b \in 1..MaxTime /\ boots[b] \in 1..MaxTime
    BY DEF OmittedSessions, TypeInv, TypeOK
  <2>2. boots[b] - b \in 0..MaxTime
    BY <1>1, <1>2, <2>1
  <2> QED BY <2>1, <2>2 DEF Outage, BypassType, Kinds
<1>3. Omitted \subseteq BypassType
  BY <1>2 DEF Omitted
<1> QED BY <1>3, RowsFinite, FS_Subset

\* What LogOmitted logs.
LEMMA LogOmittedIs ==
    ASSUME TypeInv, LogOmitted
    PROVE  \E logged \in ByBoot(Omitted) :
              bypasses' = bypasses \o logged /\ logged \in Seq(BypassType)
<1>1. PICK logged \in ByBoot(Omitted) : bypasses' = bypasses \o logged
  BY DEF LogOmitted, Omitted
<1>2. logged \in Seq(Omitted) /\ Omitted \subseteq BypassType
  BY OmittedType, ByBootIs
<1>3. logged \in Seq(BypassType)
  BY <1>2, SeqMonotonic
<1> QED BY <1>1, <1>3

\* The steps that look at the sessions of earlier boots keep TypeInv.
LEMMA TypePrevious ==
    ASSUME TypeInv,
           \/ SelectSessions \/ ProcessRow \/ DeleteRow \/ SelectFails \/ DeleteFails
           \/ LogOmitted
    PROVE  TypeInv'
<1> USE SessionsAssumption
        DEF TypeInv, TypeOK, Labels, computer, tables, program, history
<1>1. CASE SelectSessions
  <2>1. rows' \in Seq(sessions)
    <3>1. IsFiniteSet(sessions)
      BY RowsFinite, FS_Subset
    <3> QED BY <1>1, <3>1, ByBootIs DEF SelectSessions
  <2>2. rows' \in Seq(Row)
    BY <2>1, SeqMonotonic
  <2>3. seen' \subseteq 1..MaxTime
    BY <1>1 DEF SelectSessions, Row
  <2> QED BY <1>1, <2>2, <2>3 DEF SelectSessions
<1>2. CASE ProcessRow
  <2>1. bypasses' \in Seq(BypassType)
    <3> DEFINE halt == HaltTime(boots, rows[1].boot, now)
    <3>1. rows[1] \in Row
      BY <1>2, ElementOfSeq DEF ProcessRow
    <3>2. halt \in 0..MaxTime
      BY HaltFound
    <3>3. bypasses' = bypasses \/ (halt > 0 /\ bypasses' = bypasses \o BypassesOf(rows[1], halt))
      BY <1>2 DEF ProcessRow
    <3>4. bypasses \in Seq(BypassType)
      OBVIOUS
    <3> HIDE DEF halt
    <3>5. CASE halt > 0 /\ bypasses' = bypasses \o BypassesOf(rows[1], halt)
      <4>1. halt \in 1..MaxTime
        BY <3>2, <3>5
      <4>2. BypassesOf(rows[1], halt) \in Seq(BypassType)
        BY <3>1, <4>1, BypassesOfType
      <4> QED BY <3>4, <3>5, <4>2, ConcatProperties
    <3>6. CASE bypasses' = bypasses
      BY <3>4, <3>6
    <3> QED BY <3>3, <3>5, <3>6
  <2>2. rows' \in Seq(Row)
    <3>1. rows \in Seq(Row) /\ rows # <<>>
      BY <1>2 DEF ProcessRow
    <3>2. Tail(rows) \in Seq(Row)
      BY <3>1, HeadTailProperties
    <3>3. rows' = rows \/ rows' = Tail(rows)
      BY <1>2 DEF ProcessRow
    <3> QED BY <3>1, <3>2, <3>3
  <2>3. pc = "row" /\ pc' \in {"row", "delete"}
    BY <1>2 DEF ProcessRow
  <2>4. pc' = "delete" => rows' # <<>>
    BY <1>2 DEF ProcessRow
  <2> QED BY <1>2, <2>1, <2>2, <2>3, <2>4 DEF ProcessRow
<1>3. CASE DeleteRow
  <2>1. rows \in Seq(Row) /\ rows # <<>>
    BY <1>3 DEF DeleteRow
  <2>2. rows' \in Seq(Row)
    BY <1>3, <2>1, HeadTailProperties DEF DeleteRow
  <2>3. sessions' \subseteq Row
    BY <1>3 DEF DeleteRow
  <2> QED BY <1>3, <2>2, <2>3 DEF DeleteRow
<1>4. CASE SelectFails
  <2>1. Fails("select", "start") /\ pc = "select"
    BY <1>4 DEF SelectFails
  <2>2. /\ attempt' \in 0..Finished
        /\ pc' \in {"select", "start"}
        /\ mishaps' \subseteq Situations
    BY <2>1, FailsType
  <2>3. UNCHANGED <<computer, tables, boots, rows, seen, session, since, how, outages, known,
                    halted, acts>>
    BY <2>1, FailsType
  <2> QED BY <2>1, <2>2, <2>3
<1>5. CASE DeleteFails
  <2>1. Fails("select", "start") /\ pc = "delete"
    BY <1>5 DEF DeleteFails
  <2>2. /\ attempt' \in 0..Finished
        /\ pc' \in {"select", "start"}
        /\ mishaps' \subseteq Situations
    BY <2>1, FailsType
  <2>3. UNCHANGED <<computer, tables, boots, rows, seen, session, since, how, outages, known,
                    halted, acts>>
    BY <2>1, FailsType
  <2> QED BY <2>1, <2>2, <2>3
<1>6. CASE LogOmitted
  <2>1. bypasses' \in Seq(BypassType)
    <3>1. PICK logged \in Seq(BypassType) : bypasses' = bypasses \o logged
      BY <1>6, LogOmittedIs
    <3>2. bypasses \in Seq(BypassType)
      OBVIOUS
    <3> QED BY <3>1, <3>2, ConcatProperties
  <2> QED BY <1>6, <2>1 DEF LogOmitted
<1> QED BY <1>1, <1>2, <1>3, <1>4, <1>5, <1>6

\* The steps of logSessionStart keep it.
LEMMA TypeSession ==
    ASSUME TypeInv,
           \/ StartUnknown \/ StartFirst \/ StartUnset \/ StartAgain \/ Reopen \/ StartFails
    PROVE  TypeInv'
<1> USE SessionsAssumption
        DEF TypeInv, TypeOK, Labels, computer, tables, program, history
<1> DEFINE b == BootTime(boots, now)
<1>1. b \in 0..MaxTime /\ sessions \in SUBSET Row /\ now \in 0..MaxTime /\ MaxTime \in 0..MaxTime
  <2>1. b \in 0..MaxTime
    BY BootFound
  <2>2. sessions \in SUBSET Row /\ now \in 0..MaxTime /\ MaxTime \in Nat
    OBVIOUS
  <2> QED BY <2>1, <2>2
<1>2. CASE StartUnknown
  BY <1>2, SMTT(30) DEF StartUnknown
<1>3. CASE StartFirst
  <2>1. b \in 1..MaxTime /\ now \in 1..MaxTime
    BY <1>1, <1>3 DEF StartFirst
  <2>2. sessions' = sessions \cup {[boot |-> b, start |-> now, stop |-> 0]}
    BY <1>3 DEF StartFirst
  <2>3. [boot |-> b, start |-> now, stop |-> 0] \in Row
    BY <2>1 DEF Row
  <2>4. known' \subseteq 1..MaxTime /\ session' \in 0..MaxTime
    <3>1. known' = known \cup {b} /\ session' = b /\ known \subseteq 1..MaxTime
      BY <1>3 DEF StartFirst
    <3> HIDE DEF b
    <3> QED BY <1>1, <2>1, <3>1
  <2> HIDE DEF b
  <2>5. sessions' \subseteq Row
    BY <2>2, <2>3
  <2> QED BY <1>3, <2>4, <2>5 DEF StartFirst
<1>4. CASE StartUnset
  <2>1. b \in 1..MaxTime
    BY <1>1, <1>4 DEF StartUnset
  <2>2. bypasses' \in Seq(BypassType)
    <3>1. /\ Append(bypasses, Outage(b, "killed", 0)) \in Seq(BypassType)
          /\ Append(bypasses, Outage(b, "restart", MaxTime)) \in Seq(BypassType)
      BY <1>1, <2>1, BypassLogged DEF Kinds
    <3> QED BY <1>4, <3>1 DEF StartUnset
  <2>3. PICK any \in {0} \cup {row.boot : row \in sessions} :
           sessions' = WithStop(sessions, any, 0) /\ session' = any
    BY <1>4 DEF StartUnset, WithStop
  <2>4. sessions' \subseteq Row
    BY <1>1, <2>3, StopsAreRows
  <2>5. session' \in 0..MaxTime
    BY <2>3 DEF Row
  <2>6. mishaps' \subseteq Situations
    BY <1>4 DEF StartUnset, Mishap
  <2> QED BY <1>4, <2>2, <2>4, <2>5, <2>6 DEF StartUnset
<1>5. CASE StartAgain
  <2>1. bypasses' \in Seq(BypassType)
    <3>1. b \in 1..MaxTime
      BY <1>1, <1>5 DEF StartAgain
    <3>2. PICK row \in sessions :
             \/ bypasses' = Append(bypasses, Outage(b, "killed", 0))
             \/ now - row.stop > RestartGap /\
                bypasses' = Append(bypasses, Outage(b, "restart", now - row.stop))
             \/ bypasses' = bypasses
      BY <1>5 DEF StartAgain
    <3>3. now - row.stop > RestartGap => now - row.stop \in 0..MaxTime
      BY <1>1, SMTT(30) DEF Row
    <3> HIDE DEF b
    <3>4. "killed" \in Kinds /\ "restart" \in Kinds /\ 0 \in 0..MaxTime
      BY DEF Kinds
    <3>5. Append(bypasses, Outage(b, "killed", 0)) \in Seq(BypassType)
      BY <3>1, <3>4, BypassLogged
    <3>6. now - row.stop > RestartGap =>
             Append(bypasses, Outage(b, "restart", now - row.stop)) \in Seq(BypassType)
      BY <3>1, <3>3, <3>4, BypassLogged
    <3>7. bypasses \in Seq(BypassType)
      OBVIOUS
    <3> QED BY <3>2, <3>5, <3>6, <3>7
  <2> QED BY <1>5, <2>1 DEF StartAgain
<1>6. CASE Reopen
  <2>1. sessions' \subseteq Row
    <3>1. sessions' = WithStop(sessions, b, 0)
      BY <1>6 DEF Reopen, WithStop
    <3> QED BY <1>1, <3>1, StopsAreRows
  <2> QED BY <1>1, <1>6, <2>1 DEF Reopen
<1>7. CASE StartFails
  <2>1. Fails("start", "running") /\ pc \in {"start", "reopen"}
    BY <1>7 DEF StartFails
  <2>2. /\ attempt' \in 0..Finished
        /\ pc' \in {"start", "running"}
        /\ mishaps' \subseteq Situations
    BY <2>1, FailsType
  <2>3. UNCHANGED <<computer, tables, boots, rows, seen, session, since, how, outages, known,
                    halted, acts>>
    BY <2>1, FailsType
  <2> QED BY <2>1, <2>2, <2>3
<1> QED BY <1>2, <1>3, <1>4, <1>5, <1>6, <1>7

\* Every step keeps TypeInv.
LEMMA TypeStep == TypeInv /\ [Next]_vars => TypeInv'
<1> SUFFICES ASSUME TypeInv, [Next]_vars PROVE TypeInv'
  OBVIOUS
<1>1. CASE Next
  BY <1>1, TypeComputer, TypeStart, TypePrevious, TypeSession DEF Next, ProgramStep
<1>2. CASE UNCHANGED vars
  BY <1>2 DEF vars, computer, tables, program, history, TypeInv, TypeOK
<1> QED BY <1>1, <1>2

\* Every variable stays in its type, whatever happens.
THEOREM TypeCorrect == Spec => []TypeOK
<1>1. TypeInv => TypeOK
  BY DEF TypeInv
<1> QED BY <1>1, TypeInit, TypeStep, PTL DEF Spec

-----------------------------------------------------------------------------
\* Only a boot, a halt and a crash change what the computer went through.
LEMMA Uneventful ==
    ASSUME [Next]_vars, ~Boot, ~Halt, ~Crash
    PROVE  UNCHANGED <<boot, wtmp, halted>> /\ since' \in {since, now}
<1> USE DEF vars, computer, tables, program, history, NewDatabase, Fails
<1>1. CASE Tick \/ Stop \/ Kill \/ Start \/ Reset
  BY <1>1 DEF Tick, Stop, Kill, Start, Reset
<1>2. CASE ProgramStep
  <2>1. CASE SelectSessions \/ ProcessRow \/ DeleteRow \/ LogOmitted
    BY <2>1 DEF SelectSessions, ProcessRow, DeleteRow, LogOmitted
  <2>2. CASE SelectFails \/ DeleteFails \/ StartFails
    BY <2>2 DEF SelectFails, DeleteFails, StartFails
  <2>3. CASE StartUnknown \/ StartFirst \/ StartUnset \/ StartAgain \/ Reopen
    BY <2>3 DEF StartUnknown, StartFirst, StartUnset, StartAgain, Reopen
  <2> QED BY <1>2, <2>1, <2>2, <2>3 DEF ProgramStep
<1>3. CASE UNCHANGED vars
  BY <1>3
<1> QED BY <1>1, <1>2, <1>3 DEF Next

\* The boots that are over are before the time of the next boot, and so are
\* their halts.
LEMMA Earlier ==
    ASSUME TypeInv, WtmpInv, Boot
    PROVE  \A b \in DOMAIN halted : b < now /\ halted[b] < now
<1> TAKE b \in DOMAIN halted
<1>1. PICK n \in 1..Len(wtmp) : IsBoot(n) /\ wtmp[n].time = b
  BY DEF WtmpInv, Booted
<1>2. \A m \in 1..Len(wtmp) : wtmp[m].time \in Nat /\ wtmp[m].time < now
  <2>1. \A m \in 1..Len(wtmp) : wtmp[m].time \in 1..now
    BY DEF TypeInv
  <2>2. \A m \in 1..Len(wtmp) : wtmp[m].time + Fresh <= now
    BY DEF Boot
  <2>3. Fresh \in Nat \ {0} /\ now \in Nat
    BY BootHistoryAssumption DEF TypeInv, TypeOK
  <2> QED BY <2>1, <2>2, <2>3
<1>3. now \in Nat /\ now > 0 /\ boot = 0 /\ Len(wtmp) \in Nat
  BY DEF Boot, TypeInv, TypeOK
<1>4. wtmp[n].time # 0
  BY DEF TypeInv
<1>5. halted[b] < now
  <2>1. CASE n = Len(wtmp)
    <3>1. halted[b] = 0
      BY <1>1, <1>3, <1>4, <2>1 DEF WtmpInv
    <3> QED BY <1>3, <3>1
  <2>2. CASE n # Len(wtmp)
    <3>1. n + 1 \in 1..Len(wtmp)
      BY <1>3, <2>2
    <3>2. halted[b] = IF IsBoot(n + 1) THEN 0 ELSE wtmp[n + 1].time
      BY <1>1, <2>2 DEF WtmpInv
    <3> QED BY <1>2, <1>3, <3>1, <3>2
  <2> QED BY <2>1, <2>2
<1> QED BY <1>1, <1>2, <1>5

\* The sessions of the computer follow one another.
LEMMA ComputerStep ==
    TypeInv /\ ComputerInv /\ WtmpInv /\ [Next]_vars => ComputerInv'
<1> SUFFICES ASSUME TypeInv, ComputerInv, WtmpInv, [Next]_vars
             PROVE  ComputerInv'
  OBVIOUS
<1>1. /\ boot \in Nat /\ now \in Nat /\ since \in Nat /\ boot <= now
      /\ \A b \in DOMAIN halted : b \in Nat \ {0} /\ halted[b] \in Nat
  BY DEF TypeInv, TypeOK
<1>2. CASE Boot
  <2>1. boot = 0 /\ boot' = now /\ since' = now /\ halted' = halted /\ now > 0
    BY <1>2 DEF Boot
  <2>2. \A b \in DOMAIN halted : b < now /\ halted[b] < now
    BY <1>2, Earlier
  <2>3. Booted' = DOMAIN halted \cup {now} /\ Booted = DOMAIN halted
    BY <1>1, <2>1 DEF Booted
  <2> QED BY <1>1, <2>1, <2>2, <2>3 DEF ComputerInv
<1>3. ASSUME NEW time \in {0, now}, boot # 0, boot' = 0, Ends(time)
      PROVE  ComputerInv'
  <2>1. DOMAIN halted' = DOMAIN halted \cup {boot}
    BY <1>3 DEF Ends
  <2>2. halted'[boot] = time /\ \A b \in DOMAIN halted : halted'[b] = halted[b]
    BY <1>3 DEF Ends, ComputerInv
  <2>3. Booted' = DOMAIN halted' /\ Booted = DOMAIN halted'
    BY <1>1, <1>3, <2>1 DEF Booted
  <2>4. \A b \in DOMAIN halted : b < boot
    BY <1>3 DEF ComputerInv
  <2>5. \A b \in DOMAIN halted' : halted'[b] # 0 => b <= halted'[b]
    BY <1>1, <2>1, <2>2 DEF ComputerInv
  <2>6. ASSUME NEW b \in DOMAIN halted', NEW c \in Booted', b < c
        PROVE  halted'[b] < c
    <3>1. b # boot
      BY <1>1, <2>1, <2>3, <2>4, <2>6
    <3>2. b \in DOMAIN halted /\ c \in Booted
      BY <2>1, <2>3, <3>1
    <3> QED BY <2>2, <2>6, <3>2 DEF ComputerInv
  <2>7. boot' \notin DOMAIN halted'
    BY <1>1, <1>3, <2>1
  <2> QED BY <1>3, <2>5, <2>6, <2>7 DEF ComputerInv
<1>4. CASE Halt \/ Crash
  BY <1>3, <1>4 DEF Halt, Crash
<1>5. CASE ~Boot /\ ~Halt /\ ~Crash
  <2>1. UNCHANGED <<boot, wtmp, halted>> /\ since' \in {since, now}
    BY <1>5, Uneventful
  <2>2. boot' # 0 => boot' <= since'
    BY <1>1, <2>1 DEF ComputerInv
  <2> QED BY <2>1, <2>2 DEF ComputerInv, Booted
<1> QED BY <1>2, <1>4, <1>5

\* While the computer runs, its boot is the last record.
LEMMA LastBoot ==
    ASSUME TypeInv, ComputerInv, WtmpInv, boot # 0
    PROVE  Len(wtmp) \in 1..Len(wtmp) /\ IsBoot(Len(wtmp)) /\ wtmp[Len(wtmp)].time = boot
<1>1. boot \in Booted
  BY DEF Booted
<1>2. PICK n \in 1..Len(wtmp) : IsBoot(n) /\ wtmp[n].time = boot
  BY <1>1 DEF WtmpInv
<1>3. n = Len(wtmp)
  BY <1>2 DEF WtmpInv, ComputerInv
<1> QED BY <1>2, <1>3

\* wtmp has a record of each boot, and one of each halt right after it.
LEMMA WtmpStep ==
    TypeInv /\ ComputerInv /\ WtmpInv /\ [Next]_vars => WtmpInv'
<1> SUFFICES ASSUME TypeInv, ComputerInv, WtmpInv, [Next]_vars
             PROVE  WtmpInv'
  OBVIOUS
<1> DEFINE L == Len(wtmp)
<1>1. /\ wtmp \in Seq(WtmpRecord) /\ L \in Nat /\ boot \in Nat /\ now \in Nat
      /\ \A n \in 1..L : wtmp[n].time \in 1..now
      /\ \A b \in DOMAIN halted : b \in Nat \ {0} /\ halted[b] \in Nat
  BY DEF TypeInv, TypeOK
<1>2. CASE Boot
  <2>1. boot = 0 /\ boot' = now /\ halted' = halted /\ now > 0
    BY <1>2 DEF Boot
  <2>2. /\ Len(wtmp') = L + 1 /\ wtmp'[L + 1].kind = "boot" /\ wtmp'[L + 1].time = now
        /\ \A n \in 1..L : wtmp'[n] = wtmp[n]
    BY <1>1, <1>2 DEF Boot
  <2>3. \A n \in 1..L : wtmp[n].time < now
    <3>1. \A n \in 1..L : wtmp[n].time + Fresh <= now
      BY <1>2 DEF Boot
    <3> QED BY <1>1, <3>1, BootHistoryAssumption
  <2>4. Booted' = Booted \cup {now} /\ Booted = DOMAIN halted
    <3>1. Booted = DOMAIN halted
      BY <2>1 DEF Booted
    <3>2. Booted' = DOMAIN halted \cup {now}
      BY <2>1 DEF Booted
    <3> QED BY <3>1, <3>2
  <2>5. (\A n \in 1..Len(wtmp) : wtmp[n].kind \in {"boot", "down"})'
    BY <1>1, <2>2 DEF WtmpInv
  <2>6. (\A m, n \in 1..Len(wtmp) : m < n => wtmp[m].time <= wtmp[n].time)'
    <3>1. ASSUME NEW m \in 1..Len(wtmp'), NEW n \in 1..Len(wtmp'), m < n
          PROVE  wtmp'[m].time <= wtmp'[n].time
      <4>1. m \in 1..L /\ wtmp'[m].time = wtmp[m].time
        BY <1>1, <2>2, <3>1
      <4>2. CASE n = L + 1
        BY <1>1, <2>2, <4>1, <4>2
      <4>3. CASE n # L + 1
        <5>1. n \in 1..L /\ wtmp'[n].time = wtmp[n].time
          BY <1>1, <2>2, <4>3
        <5> QED BY <3>1, <4>1, <5>1 DEF WtmpInv
      <4> QED BY <4>2, <4>3
    <3> QED BY <3>1
  <2>7. (\A m, n \in 1..Len(wtmp) : m < n /\ IsBoot(n) => wtmp[m].time < wtmp[n].time)'
    BY <1>1, <2>2, <2>3 DEF WtmpInv, IsBoot
  <2>8. (\A n \in 1..Len(wtmp) : IsBoot(n) => wtmp[n].time \in Booted)'
    BY <1>1, <2>2, <2>4 DEF WtmpInv, IsBoot
  <2>9. (\A b \in Booted : \E n \in 1..Len(wtmp) : IsBoot(n) /\ wtmp[n].time = b)'
    <3>1. ASSUME NEW b \in Booted'
          PROVE  \E n \in 1..Len(wtmp') : wtmp'[n].kind = "boot" /\ wtmp'[n].time = b
      <4>1. CASE b = now
        BY <1>1, <2>2, <4>1
      <4>2. CASE b # now
        <5>1. PICK n \in 1..L : IsBoot(n) /\ wtmp[n].time = b
          BY <2>4, <3>1, <4>2 DEF WtmpInv
        <5> QED BY <1>1, <2>2, <5>1 DEF IsBoot
      <4> QED BY <4>1, <4>2
    <3> QED BY <3>1 DEF IsBoot
  <2>10. ASSUME NEW n \in 1..Len(wtmp'), IsBoot(n)'
         PROVE  IF n = Len(wtmp')
                THEN wtmp'[n].time = boot' \/ (boot' = 0 /\ halted'[wtmp'[n].time] = 0)
                ELSE /\ wtmp'[n].time \in DOMAIN halted'
                     /\ halted'[wtmp'[n].time] = IF IsBoot(n + 1)' THEN 0 ELSE wtmp'[n + 1].time
    <3>1. CASE n = L + 1
      BY <2>1, <2>2, <3>1
    <3>2. CASE n = L
      <4>1. wtmp'[n] = wtmp[n] /\ IsBoot(n) /\ IsBoot(n + 1)' /\ n # Len(wtmp') /\ n \in 1..L
        BY <1>1, <2>2, <2>10, <3>2 DEF IsBoot
      <4>2. wtmp[n].time \in DOMAIN halted /\ halted[wtmp[n].time] = 0
        BY <1>1, <2>1, <2>4, <3>2, <4>1 DEF WtmpInv
      <4> QED BY <2>1, <4>1, <4>2
    <3>3. CASE n < L
      <4>1. /\ wtmp'[n] = wtmp[n] /\ IsBoot(n) /\ wtmp'[n + 1] = wtmp[n + 1]
            /\ n # Len(wtmp') /\ n # L /\ n \in 1..L
        BY <1>1, <2>2, <2>10, <3>3 DEF IsBoot
      <4> QED BY <2>1, <4>1 DEF WtmpInv, IsBoot
    <3> QED BY <1>1, <2>2, <3>1, <3>2, <3>3
  <2>11. ASSUME NEW n \in 1..Len(wtmp'), ~IsBoot(n)'
         PROVE  IF n = Len(wtmp') THEN boot' = 0 ELSE IsBoot(n + 1)'
    <3>1. n \in 1..L /\ ~IsBoot(n) /\ n # Len(wtmp')
      BY <1>1, <2>2, <2>11 DEF IsBoot
    <3>2. CASE n = L
      BY <2>2, <3>1, <3>2 DEF IsBoot
    <3>3. CASE n # L
      <4>1. n + 1 \in 1..L /\ IsBoot(n + 1)
        BY <1>1, <3>1, <3>3 DEF WtmpInv
      <4> QED BY <2>2, <3>1, <4>1 DEF IsBoot
    <3> QED BY <3>2, <3>3
  <2> QED BY <2>5, <2>6, <2>7, <2>8, <2>9, <2>10, <2>11 DEF WtmpInv
<1>3. CASE Halt
  <2>1. boot # 0 /\ boot' = 0 /\ Ends(now)
    BY <1>3 DEF Halt
  <2>2. /\ Len(wtmp') = L + 1 /\ wtmp'[L + 1].kind = "down" /\ wtmp'[L + 1].time = now
        /\ \A n \in 1..L : wtmp'[n] = wtmp[n]
    BY <1>1, <1>3 DEF Halt
  <2>3. L \in 1..L /\ IsBoot(L) /\ wtmp[L].time = boot
    BY <2>1, LastBoot
  <2>4. /\ DOMAIN halted' = DOMAIN halted \cup {boot} /\ halted'[boot] = now
        /\ \A b \in DOMAIN halted : halted'[b] = halted[b]
    BY <2>1 DEF Ends, ComputerInv
  <2>5. Booted' = Booted
    BY <1>1, <2>1, <2>4 DEF Booted
  <2>6. (\A n \in 1..Len(wtmp) : wtmp[n].kind \in {"boot", "down"})'
    BY <1>1, <2>2 DEF WtmpInv
  <2>7. (\A m, n \in 1..Len(wtmp) : m < n => wtmp[m].time <= wtmp[n].time)'
    <3>1. ASSUME NEW m \in 1..Len(wtmp'), NEW n \in 1..Len(wtmp'), m < n
          PROVE  wtmp'[m].time <= wtmp'[n].time
      <4>1. m \in 1..L /\ wtmp'[m].time = wtmp[m].time
        BY <1>1, <2>2, <3>1
      <4>2. CASE n = L + 1
        BY <1>1, <2>2, <4>1, <4>2
      <4>3. CASE n # L + 1
        <5>1. n \in 1..L /\ wtmp'[n].time = wtmp[n].time
          BY <1>1, <2>2, <4>3
        <5> QED BY <3>1, <4>1, <5>1 DEF WtmpInv
      <4> QED BY <4>2, <4>3
    <3> QED BY <3>1
  <2>8. (\A m, n \in 1..Len(wtmp) : m < n /\ IsBoot(n) => wtmp[m].time < wtmp[n].time)'
    <3>1. ASSUME NEW m \in 1..Len(wtmp'), NEW n \in 1..Len(wtmp'), m < n, wtmp'[n].kind = "boot"
          PROVE  wtmp'[m].time < wtmp'[n].time
      <4>1. m \in 1..L /\ n \in 1..L /\ wtmp'[m] = wtmp[m] /\ wtmp'[n] = wtmp[n]
        BY <1>1, <2>2, <3>1
      <4> QED BY <3>1, <4>1 DEF WtmpInv, IsBoot
    <3> QED BY <3>1 DEF IsBoot
  <2>9. (\A n \in 1..Len(wtmp) : IsBoot(n) => wtmp[n].time \in Booted)'
    BY <1>1, <2>2, <2>5 DEF WtmpInv, IsBoot
  <2>10. (\A b \in Booted : \E n \in 1..Len(wtmp) : IsBoot(n) /\ wtmp[n].time = b)'
    BY <1>1, <2>2, <2>5 DEF WtmpInv, IsBoot
  <2>11. ASSUME NEW n \in 1..Len(wtmp'), IsBoot(n)'
         PROVE  IF n = Len(wtmp')
                THEN wtmp'[n].time = boot' \/ (boot' = 0 /\ halted'[wtmp'[n].time] = 0)
                ELSE /\ wtmp'[n].time \in DOMAIN halted'
                     /\ halted'[wtmp'[n].time] = IF IsBoot(n + 1)' THEN 0 ELSE wtmp'[n + 1].time
    <3>1. n # L + 1
      BY <2>2, <2>11 DEF IsBoot
    <3>2. CASE n = L
      BY <1>1, <2>2, <2>3, <2>4, <3>2 DEF IsBoot
    <3>3. CASE n < L
      <4>1. /\ wtmp'[n] = wtmp[n] /\ IsBoot(n) /\ wtmp'[n + 1] = wtmp[n + 1]
            /\ n # Len(wtmp') /\ n # L /\ n \in 1..L
        BY <1>1, <2>2, <2>11, <3>3 DEF IsBoot
      <4>2. wtmp[n].time \in DOMAIN halted
        BY <4>1 DEF WtmpInv
      <4> QED BY <2>4, <4>1, <4>2 DEF WtmpInv, IsBoot
    <3> QED BY <1>1, <2>2, <3>1, <3>2, <3>3
  <2>12. ASSUME NEW n \in 1..Len(wtmp'), ~IsBoot(n)'
         PROVE  IF n = Len(wtmp') THEN boot' = 0 ELSE IsBoot(n + 1)'
    <3>1. CASE n = L + 1
      BY <2>1, <2>2, <3>1
    <3>2. CASE n # L + 1
      <4>1. n \in 1..L /\ ~IsBoot(n) /\ n # L
        BY <1>1, <2>2, <2>3, <2>12, <3>2 DEF IsBoot
      <4>2. n + 1 \in 1..L /\ IsBoot(n + 1)
        BY <1>1, <4>1 DEF WtmpInv
      <4> QED BY <2>2, <3>2, <4>2 DEF IsBoot
    <3> QED BY <3>1, <3>2
  <2> QED BY <2>6, <2>7, <2>8, <2>9, <2>10, <2>11, <2>12 DEF WtmpInv
<1>4. CASE Crash
  <2>1. boot # 0 /\ boot' = 0 /\ Ends(0) /\ wtmp' = wtmp
    BY <1>4 DEF Crash
  <2>2. /\ DOMAIN halted' = DOMAIN halted \cup {boot} /\ halted'[boot] = 0
        /\ \A b \in DOMAIN halted : halted'[b] = halted[b]
    BY <2>1 DEF Ends, ComputerInv
  <2>3. Booted' = Booted
    BY <1>1, <2>1, <2>2 DEF Booted
  <2>4. L \in 1..L /\ IsBoot(L) /\ wtmp[L].time = boot
    BY <2>1, LastBoot
  <2>5. ASSUME NEW n \in 1..L, IsBoot(n)
        PROVE  IF n = L
               THEN wtmp[n].time = 0 \/ halted'[wtmp[n].time] = 0
               ELSE /\ wtmp[n].time \in DOMAIN halted'
                    /\ halted'[wtmp[n].time] = IF IsBoot(n + 1) THEN 0 ELSE wtmp[n + 1].time
    BY <2>2, <2>4, <2>5 DEF WtmpInv
  <2>6. \A n \in 1..L : ~IsBoot(n) => n # L /\ IsBoot(n + 1)
    BY <2>4 DEF WtmpInv
  <2> QED BY <2>1, <2>3, <2>5, <2>6 DEF WtmpInv, IsBoot
<1>5. CASE ~Boot /\ ~Halt /\ ~Crash
  <2>1. UNCHANGED <<boot, wtmp, halted>>
    BY <1>5, Uneventful
  <2> QED BY <2>1 DEF WtmpInv, Booted, IsBoot
<1> QED BY <1>2, <1>3, <1>4, <1>5

-----------------------------------------------------------------------------
\* A record that is no halt makes no difference.
LEMMA LastDownSkips ==
    ASSUME NEW file \in Seq(WtmpRecord), NEW n \in 1..Len(file), NEW time,
           n + 1 \in 1..Len(file), file[n + 1].kind # "down"
    PROVE  LastDown(file, n, time) = LastDown(file, n + 1, time)
<1>1. {m \in n+1..Len(file) : file[m].kind = "down"} = {m \in n+1+1..Len(file) : file[m].kind = "down"}
  OBVIOUS
<1> QED BY <1>1 DEF LastDown

\* What is read while the computer runs is true.
LEMMA ReadIsTrue ==
    ASSUME TypeInv, ComputerInv, WtmpInv, boot # 0
    PROVE  IsTrue(ReadFile(wtmp, now))
<1> DEFINE L == Len(wtmp)
           read == ReadFile(wtmp, now)
<1>1. /\ wtmp \in Seq(WtmpRecord) /\ L \in Nat /\ boot \in Nat \ {0} /\ now \in Nat
      /\ \A n \in 1..L : wtmp[n].time \in 1..now
      /\ \A b \in DOMAIN halted : b \in Nat \ {0} /\ halted[b] \in Nat
  BY DEF TypeInv, TypeOK
<1>2. L \in 1..L /\ IsBoot(L) /\ wtmp[L].time = boot
  BY LastBoot
<1>3. Booted = DOMAIN halted \cup {boot}
  BY <1>1 DEF Booted
<1>4. DOMAIN read = DOMAIN halted \cup {boot}
  <2>1. \A b : b \in DOMAIN read <=> \E n \in 1..L : IsBoot(n) /\ wtmp[n].time = b
    BY <1>1, ReadFileIs DEF IsBoot
  <2>2. \A b : b \in Booted <=> \E n \in 1..L : IsBoot(n) /\ wtmp[n].time = b
    BY DEF WtmpInv
  <2> HIDE DEF read
  <2> QED BY <1>3, <2>1, <2>2
<1>5. \A b \in DOMAIN read : \E n \in 1..L :
         IsBoot(n) /\ wtmp[n].time = b /\ read[b] = LastDown(wtmp, n, now)
  BY <1>1, ReadFileIs DEF IsBoot
<1> HIDE DEF read
<1>6. read[boot] = now
  <2>1. PICK n \in 1..L : IsBoot(n) /\ wtmp[n].time = boot /\ read[boot] = LastDown(wtmp, n, now)
    BY <1>4, <1>5
  <2>2. n = L
    BY <2>1 DEF WtmpInv, ComputerInv
  <2>3. n + 1..L = {}
    BY <1>1, <2>2
  <2> QED BY <1>1, <2>1, <2>3, LastDownIs
<1>7. ASSUME NEW b \in DOMAIN read PROVE b <= read[b]
  <2>1. PICK n \in 1..L : wtmp[n].time = b /\ read[b] = LastDown(wtmp, n, now)
    BY <1>5
  <2>2. read[b] = now \/ \E m \in n + 1..L : read[b] = wtmp[m].time
    BY <1>1, <2>1, LastDownIs
  <2>3. \A m \in n + 1..L : m \in 1..L /\ n < m /\ wtmp[n].time <= wtmp[m].time
    BY <1>1 DEF WtmpInv
  <2> QED BY <1>1, <2>1, <2>2, <2>3
<1>8. ASSUME NEW b \in DOMAIN halted
      PROVE  IF halted[b] # 0 THEN read[b] = halted[b]
             ELSE \E c \in DOMAIN read : b < c /\ read[c] = read[b]
  <2>1. PICK n \in 1..L : IsBoot(n) /\ wtmp[n].time = b /\ read[b] = LastDown(wtmp, n, now)
    BY <1>4, <1>5
  <2>2. n # L
    BY <1>2, <2>1 DEF ComputerInv
  <2>3. n + 1 \in 1..L /\ n + 1 \in n + 1..L /\ n < n + 1
    BY <1>1, <2>2
  <2>4. halted[b] = IF IsBoot(n + 1) THEN 0 ELSE wtmp[n + 1].time
    BY <2>1, <2>2 DEF WtmpInv
  <2>5. CASE IsBoot(n + 1)
    <3> DEFINE c == wtmp[n + 1].time
    <3>1. b < c
      BY <2>1, <2>3, <2>5 DEF WtmpInv
    <3>2. c \in DOMAIN read
      BY <1>3, <1>4, <2>3, <2>5 DEF WtmpInv
    <3>3. PICK k \in 1..L : IsBoot(k) /\ wtmp[k].time = c /\ read[c] = LastDown(wtmp, k, now)
      BY <1>5, <3>2
    <3>4. k = n + 1
      <4>1. ~(k < n + 1) /\ ~(n + 1 < k)
        BY <1>1, <2>3, <2>5, <3>3 DEF WtmpInv
      <4> QED BY <2>3, <4>1
    <3>5. LastDown(wtmp, n, now) = LastDown(wtmp, n + 1, now)
      BY <1>1, <2>3, <2>5, LastDownSkips DEF IsBoot
    <3>6. read[c] = read[b]
      BY <2>1, <3>3, <3>4, <3>5
    <3> QED BY <2>4, <2>5, <3>1, <3>2, <3>6
  <2>6. CASE ~IsBoot(n + 1)
    <3>1. wtmp[n + 1].kind = "down"
      BY <2>3, <2>6 DEF WtmpInv, IsBoot
    <3>2. read[b] = wtmp[n + 1].time
      <4>1. PICK m \in n + 1..L :
               /\ \A k \in n + 1..L : wtmp[k].kind = "down" => m <= k
               /\ LastDown(wtmp, n, now) = wtmp[m].time
        BY <1>1, <2>3, <3>1, LastDownIs
      <4>2. m = n + 1
        BY <1>1, <2>3, <3>1, <4>1
      <4> QED BY <2>1, <4>1, <4>2
    <3>3. wtmp[n + 1].time # 0
      BY <1>1, <2>3
    <3> QED BY <2>4, <2>6, <3>2, <3>3
  <2> QED BY <2>5, <2>6
<1> QED BY <1>4, <1>6, <1>7, <1>8 DEF IsTrue, read

\* From what is true the session that runs is found, and the halt of each other.
LEMMA TrueIsFound ==
    ASSUME TypeInv, ComputerInv, boot # 0, IsTrue(boots)
    PROVE  /\ BootTime(boots, now) = boot
           /\ \A b \in DOMAIN halted : HaltTime(boots, b, now) = halted[b]
<1>1. /\ boot \in Nat \ {0} /\ now \in Nat
      /\ \A b \in DOMAIN boots : b \in Nat /\ boots[b] \in Nat
      /\ \A b \in DOMAIN halted : b \in Nat \ {0} /\ halted[b] \in Nat
      /\ Fresh \in Nat \ {0}
  BY BootHistoryAssumption DEF TypeInv, TypeOK
<1>2. DOMAIN boots = DOMAIN halted \cup {boot} /\ boots[boot] = now
  BY DEF IsTrue
<1>3. BootTime(boots, now) = boot
  <2> DEFINE S == {0} \cup {b \in DOMAIN boots : now < boots[b] + Fresh}
  <2>1. S \in SUBSET Nat /\ boot \in S
    BY <1>1, <1>2
  <2>2. \A b \in S : b <= boot
    BY <1>1, <1>2 DEF ComputerInv
  <2>3. Max(S) = boot
    <3> HIDE DEF S
    <3> QED BY <2>1, <2>2, MaxIs
  <2> QED BY <2>3 DEF BootTime
<1>4. ASSUME NEW b \in DOMAIN halted
      PROVE  HaltTime(boots, b, now) = halted[b]
  <2>1. b \in DOMAIN boots /\ b # boot
    BY <1>2 DEF ComputerInv
  <2>2. CASE halted[b] = 0
    <3>1. PICK c \in DOMAIN boots : b < c /\ boots[c] = boots[b]
      BY <2>2 DEF IsTrue
    <3>2. c > b
      BY <1>1, <2>1, <3>1
    <3> QED BY <2>2, <3>1, <3>2 DEF HaltTime
  <2>3. CASE halted[b] # 0
    <3>1. boots[b] = halted[b]
      BY <2>3 DEF IsTrue
    <3>2. ASSUME NEW c \in DOMAIN boots, c > b PROVE boots[c] # boots[b]
      <4>1. c \in Booted /\ b < c
        BY <1>1, <1>2, <2>1, <3>2 DEF Booted
      <4>2. halted[b] < c /\ c <= boots[c]
        BY <4>1 DEF ComputerInv, IsTrue
      <4> QED BY <1>1, <3>1, <4>2
    <3> QED BY <1>3, <2>1, <3>1, <3>2 DEF HaltTime
  <2> QED BY <2>2, <2>3
<1> QED BY <1>3, <1>4

\* While the program starts only the table, the rows and the session change.
LEMMA StartingStep ==
    ASSUME ProgramStep
    PROVE  pc \in Phases /\ UNCHANGED <<now, boot, wtmp, boots, since, how, outages, halted, acts>>
<1> USE DEF computer, tables, program, history, Fails, Phases
<1>1. CASE SelectSessions \/ ProcessRow \/ DeleteRow \/ LogOmitted
  BY <1>1 DEF SelectSessions, ProcessRow, DeleteRow, LogOmitted
<1>2. CASE SelectFails \/ DeleteFails \/ StartFails
  BY <1>2 DEF SelectFails, DeleteFails, StartFails
<1>3. CASE StartUnknown \/ StartFirst \/ StartUnset \/ StartAgain \/ Reopen
  BY <1>3 DEF StartUnknown, StartFirst, StartUnset, StartAgain, Reopen
<1> QED BY <1>1, <1>2, <1>3 DEF ProgramStep

\* No mishap is forgotten.
LEMMA MishapsGrow == [Next]_vars => mishaps \subseteq mishaps'
<1> SUFFICES ASSUME [Next]_vars PROVE mishaps \subseteq mishaps'
  OBVIOUS
<1> USE DEF vars, computer, tables, program, history, NewDatabase, Fails, Mishap
<1>1. CASE Tick \/ Boot \/ Halt \/ Crash \/ Stop \/ Kill \/ Start \/ Reset
  BY <1>1 DEF Tick, Boot, Halt, Crash, Stop, Kill, Start, Reset
<1>2. CASE SelectSessions \/ ProcessRow \/ DeleteRow \/ LogOmitted
  BY <1>2 DEF SelectSessions, ProcessRow, DeleteRow, LogOmitted
<1>3. CASE SelectFails \/ DeleteFails \/ StartFails
  BY <1>3 DEF SelectFails, DeleteFails, StartFails
<1>4. CASE StartUnknown \/ StartFirst \/ StartUnset \/ StartAgain \/ Reopen
  BY <1>4 DEF StartUnknown, StartFirst, StartUnset, StartAgain, Reopen
<1>5. CASE UNCHANGED vars
  BY <1>5
<1> QED BY <1>1, <1>2, <1>3, <1>4, <1>5 DEF Next, ProgramStep

\* As long as the start takes no time, what was read stays true.
LEMMA ReadStep ==
    TypeInv /\ ComputerInv /\ WtmpInv /\ ReadInv /\ [Next]_vars => ReadInv'
<1> SUFFICES ASSUME TypeInv, ComputerInv, WtmpInv, ReadInv, [Next]_vars,
                    pc' \in Phases, "slow" \notin mishaps'
             PROVE  IsTrue(boots)'
  BY DEF ReadInv
<1>1. "slow" \notin mishaps
  BY MishapsGrow
<1>2. ASSUME pc \in Phases, UNCHANGED <<now, boot, boots, halted>>
      PROVE  IsTrue(boots)'
  <2>1. IsTrue(boots)
    BY <1>1, <1>2 DEF ReadInv
  <2> QED BY <1>2, <2>1 DEF IsTrue
<1>3. CASE Tick
  <2>1. pc \in {"off", "running"} /\ pc' = pc
    BY <1>3 DEF Tick, Mishap, program
  <2> QED BY <2>1 DEF Phases
<1>4. CASE Boot
  BY <1>4 DEF Boot, program, TypeInv, Phases
<1>5. CASE Halt \/ Crash \/ Stop \/ Kill
  BY <1>5 DEF Halt, Crash, Stop, Kill, Terminate, Phases, program
<1>6. CASE Start \/ Reset
  <2>1. boots' = ReadFile(wtmp, now) /\ boot # 0 /\ UNCHANGED <<now, boot, halted>>
    BY <1>6 DEF Start, Reset, NewDatabase, computer, TypeInv
  <2> QED BY <2>1, ReadIsTrue DEF IsTrue
<1>7. CASE ProgramStep
  BY <1>2, <1>7, StartingStep
<1>8. CASE UNCHANGED vars
  BY <1>2, <1>8 DEF vars, computer, program, history
<1> QED BY <1>3, <1>4, <1>5, <1>6, <1>7, <1>8 DEF Next

\* What the computer went through, and what the program knows of it.
ReadingInv == TypeInv /\ ComputerInv /\ WtmpInv /\ ReadInv

LEMMA ReadingCorrect == Spec => []ReadingInv
<1>1. Init => ReadingInv
  <2> SUFFICES ASSUME Init PROVE ReadingInv
    OBVIOUS
  <2>1. TypeInv
    BY TypeInit
  <2>2. ComputerInv /\ WtmpInv /\ ReadInv
    BY DEF Init, ComputerInv, WtmpInv, ReadInv, Booted, Phases
  <2> QED BY <2>1, <2>2 DEF ReadingInv
<1>2. ReadingInv /\ [Next]_vars => ReadingInv'
  BY TypeStep, ComputerStep, WtmpStep, ReadStep DEF ReadingInv
<1> QED BY <1>1, <1>2, PTL DEF Spec

\* wtmp has no record of a crash; still, right after the constructor of Database
\* the halt times found are those of the sessions that halted, and the session
\* that runs is found.
THEOREM HistoryCorrect == Spec => []HistoryIsTrue
<1>1. ReadingInv => HistoryIsTrue
  <2> SUFFICES ASSUME ReadingInv, pc = "select", "slow" \notin mishaps
               PROVE  /\ BootTime(boots, now) = boot
                      /\ \A b \in DOMAIN halted : HaltTime(boots, b, now) = halted[b]
    BY DEF HistoryIsTrue
  <2>1. boot # 0 /\ IsTrue(boots)
    BY DEF ReadingInv, TypeInv, ReadInv, Phases
  <2> QED BY <2>1, TrueIsFound DEF ReadingInv
<1> QED BY <1>1, ReadingCorrect, PTL

-----------------------------------------------------------------------------
\* Another stop leaves the boot and the start of a row as they are.
LEMMA WithStopIs ==
    ASSUME NEW table \in SUBSET Row, NEW b, NEW stop
    PROVE  /\ \A row \in WithStop(table, b, stop) : \E old \in table :
                 /\ row.boot = old.boot
                 /\ row.start = old.start
                 /\ row.stop = IF old.boot = b THEN stop ELSE old.stop
           /\ \A old \in table : \E row \in WithStop(table, b, stop) :
                 /\ row.boot = old.boot
                 /\ row.start = old.start
                 /\ row.stop = IF old.boot = b THEN stop ELSE old.stop
<1>1. ASSUME NEW old \in table
      PROVE  LET row == IF old.boot = b THEN [old EXCEPT !.stop = stop] ELSE old IN
             /\ row.boot = old.boot
             /\ row.start = old.start
             /\ row.stop = IF old.boot = b THEN stop ELSE old.stop
  BY DEF Row
<1> QED BY <1>1 DEF WithStop

\* And the table has no more rows than before.
LEMMA WithStopOne ==
    ASSUME NEW table, NEW b, NEW stop, \A row, other \in table : row = other
    PROVE  \A row, other \in WithStop(table, b, stop) : row = other
BY DEF WithStop

\* In an orderly start the boot that is found is the present one.
LEMMA OrderlyStart ==
    ASSUME ReadingInv, Orderly, pc \in Phases
    PROVE  /\ boot # 0
           /\ IsTrue(boots)
           /\ BootTime(boots, now) = boot
           /\ \A b \in DOMAIN halted : HaltTime(boots, b, now) = halted[b]
           /\ HaltTime(boots, boot, now) = 0
<1>1. boot # 0 /\ IsTrue(boots)
  BY DEF ReadingInv, TypeInv, ReadInv, Orderly, Phases
<1>2. /\ BootTime(boots, now) = boot
      /\ \A b \in DOMAIN halted : HaltTime(boots, b, now) = halted[b]
  BY <1>1, TrueIsFound DEF ReadingInv
<1> QED BY <1>1, <1>2 DEF HaltTime

\* What is selected is the only row of the table, if there is one.
LEMMA SelectedIs ==
    ASSUME TypeInv, SelectSessions, \A row, other \in sessions : row = other
    PROVE  /\ Len(rows') <= 1
           /\ IF rows' = <<>> THEN sessions = {} ELSE sessions = {rows'[1]}
<1>1. IsFiniteSet(sessions)
  BY RowsFinite, FS_Subset DEF TypeInv, TypeOK
<1>2. rows' \in ByBoot(sessions)
  BY DEF SelectSessions
<1>3. /\ rows' \in Seq(sessions)
      /\ \A n \in 1..Len(rows') : rows'[n] \in sessions
      /\ \A m, n \in 1..Len(rows') : rows'[m] = rows'[n] => m = n
      /\ \A x \in sessions : \E n \in 1..Len(rows') : rows'[n] = x
  BY <1>1, <1>2, ByBootIs
<1>4. Len(rows') \in Nat
  BY <1>3
<1>5. Len(rows') <= 1
  <2> SUFFICES ASSUME ~(Len(rows') <= 1) PROVE FALSE
    OBVIOUS
  <2>1. 1 \in 1..Len(rows') /\ 2 \in 1..Len(rows')
    BY <1>4
  <2>2. rows'[1] = rows'[2]
    BY <1>3, <2>1
  <2>3. 1 = 2
    BY <1>3, <2>1, <2>2
  <2> QED BY <2>3
<1>6. CASE rows' = <<>>
  BY <1>3, <1>5, <1>6
<1>7. CASE rows' # <<>>
  <2>1. 1 \in 1..Len(rows')
    BY <1>3, <1>4, <1>7, EmptySeq
  <2> QED BY <1>3, <1>5, <1>7, <2>1
<1> QED BY <1>5, <1>6, <1>7

\* The steps of the computer and the user keep the table in order.
LEMMA OrderlyComputer ==
    ASSUME ReadingInv, TableInv, DownInv, Orderly',
           Tick \/ Boot \/ Halt \/ Crash \/ Stop \/ Kill \/ Start \/ Reset
    PROVE  (TableInv /\ DownInv)'
<1> USE DEF computer, tables, program, history, Orderly
<1>1. /\ sessions \in SUBSET Row /\ boot \in Nat /\ now \in Nat /\ (pc # "off" => boot # 0)
      /\ \A row \in sessions : row.boot # 0
  BY SMTT(30) DEF ReadingInv, TypeInv, TypeOK, Row
<1>2. CASE Tick
  <2>1. pc \in {"off", "running"}
    BY <1>2 DEF Tick, Mishap
  <2> QED BY <1>2, <2>1 DEF Tick, TableInv, DownInv, Booted
<1>3. CASE Boot
  <2>1. pc = "off" /\ boot = 0
    BY <1>1, <1>3 DEF Boot
  <2>2. \A row \in sessions : row.boot # now
    <3>1. Booted = DOMAIN halted
      BY <2>1 DEF Booted
    <3>2. \A b \in DOMAIN halted : b < now
      BY <1>3, Earlier DEF ReadingInv
    <3>3. \A row \in sessions : row.boot \in Nat /\ row.boot < now
      BY <1>1, <3>1, <3>2 DEF TableInv, Row
    <3> QED BY <1>1, <3>3
  <2>3. DownInv'
    BY <1>3, <2>2 DEF Boot, DownInv
  <2>4. Booted \subseteq Booted'
    BY <1>3, <2>1 DEF Boot, Booted
  <2> QED BY <1>3, <2>1, <2>3, <2>4 DEF Boot, TableInv
<1>4. ASSUME NEW time, boot # 0, boot' = 0, Ends(time) PROVE Booted' = Booted
  BY <1>4 DEF Booted, Ends
<1>5. ASSUME NEW b, sessions' = WithStop(sessions, b, now)
      PROVE  /\ \A row, other \in sessions' : row = other
             /\ \A row \in sessions' : row.boot \in Booted /\ row.boot <= row.start
  <2>1. \A row, other \in sessions : row = other
    BY DEF TableInv
  <2>2. \A row, other \in sessions' : row = other
    BY <1>5, <2>1, WithStopOne
  <2>3. \A row \in sessions' : \E old \in sessions : row.boot = old.boot /\ row.start = old.start
    BY <1>1, <1>5, WithStopIs
  <2>4. \A row \in sessions : row.boot \in Booted /\ row.boot <= row.start
    BY DEF TableInv
  <2> QED BY <2>2, <2>3, <2>4
<1>6. CASE Halt
  <2>1. Booted' = Booted /\ boot' = 0 /\ pc' = "off"
    BY <1>4, <1>6 DEF Halt, Terminate
  <2>2. CASE sessions' = sessions
    BY <2>1, <2>2 DEF TableInv, DownInv
  <2>3. CASE sessions' = WithStop(sessions, session, now)
    BY <1>5, <2>1, <2>3 DEF TableInv, DownInv
  <2> QED BY <1>6, <2>2, <2>3 DEF Halt, LogSessionStop, WithStop
<1>7. CASE Crash
  <2>1. Booted' = Booted /\ boot' = 0 /\ pc' = "off" /\ sessions' = sessions
    BY <1>4, <1>7 DEF Crash, Terminate
  <2> QED BY <2>1 DEF TableInv, DownInv
<1>8. CASE Stop
  <2>1. /\ sessions' = WithStop(sessions, session, now) /\ pc = "running" /\ pc' = "off"
        /\ UNCHANGED <<boot, halted>> /\ how' = "stopped" /\ since' = now
    BY <1>8 DEF Stop, LogSessionStop, WithStop, Terminate
  <2>2. session = boot /\ \E row \in sessions : row.boot = boot
    BY <2>1 DEF TableInv
  <2>3. \E row \in sessions' : row.boot = boot /\ row.stop = now
    BY <1>1, <2>1, <2>2, WithStopIs
  <2>4. DownInv'
    BY <2>1, <2>3 DEF DownInv
  <2>5. Booted' = Booted
    BY <2>1 DEF Booted
  <2> QED BY <1>5, <2>1, <2>4, <2>5 DEF TableInv
<1>9. CASE Kill
  <2>1. pc = "running" /\ pc' = "off" /\ how' = "killed" /\ UNCHANGED <<boot, halted, sessions>>
    BY <1>9 DEF Kill, Terminate
  <2> QED BY <2>1 DEF TableInv, DownInv, Booted
<1>10. CASE Start \/ Reset
  <2>1. pc' = "select" /\ UNCHANGED <<boot, halted, sessions>>
    BY <1>10 DEF Start, Reset, NewDatabase
  <2> QED BY <2>1 DEF TableInv, DownInv, Booted
<1> QED BY <1>2, <1>3, <1>6, <1>7, <1>8, <1>9, <1>10

\* The steps of the start keep it in order.
LEMMA OrderlyProgram ==
    ASSUME ReadingInv, TableInv, Orderly, Orderly', ProgramStep
    PROVE  (TableInv /\ DownInv)'
<1>1. /\ pc \in Phases
      /\ UNCHANGED <<now, boot, wtmp, boots, since, how, outages, halted, acts>>
      /\ Booted' = Booted
  BY StartingStep DEF Booted
<1>2. /\ boot # 0
      /\ BootTime(boots, now) = boot
      /\ HaltTime(boots, boot, now) = 0
  BY <1>1, OrderlyStart
<1>3. /\ sessions \in SUBSET Row /\ boot \in Nat /\ now \in Nat /\ boot \in Booted /\ boot <= now
      /\ rows \in Seq(Row)
  BY <1>2 DEF ReadingInv, TypeInv, TypeOK, Booted
<1>4. \A label, onward : Fails(label, onward) => pc' = label /\ UNCHANGED <<sessions, rows, seen, session>>
  BY DEF Fails, Mishap, Orderly, tables
<1>5. CASE SelectSessions
  <2>1. pc' = "row" /\ sessions' = sessions /\ seen' = {row.boot : row \in sessions}
    BY <1>5 DEF SelectSessions, tables
  <2>2. /\ \A row, other \in sessions : row = other
        /\ \A row \in sessions : row.boot \in Booted /\ row.boot <= row.start
    BY DEF TableInv
  <2>3. Len(rows') <= 1 /\ IF rows' = <<>> THEN sessions = {} ELSE sessions = {rows'[1]}
    BY <1>5, <2>2, SelectedIs DEF ReadingInv
  <2>4. rows' # <<>> => seen' = {rows'[1].boot}
    BY <2>1, <2>3
  <2>5. /\ \A row \in sessions : seen' = {row.boot}
        /\ \A f, g \in seen' : f = g
        /\ seen' \subseteq Booted
    BY <2>1, <2>2
  <2>6. TableInv'
    BY <1>1, <2>1, <2>2, <2>3, <2>4, <2>5 DEF TableInv
  <2> QED BY <2>1, <2>6 DEF DownInv
<1>6. CASE ProcessRow
  <2>1. pc = "row" /\ rows # <<>> /\ sessions' = sessions /\ seen' = seen
    BY <1>6 DEF ProcessRow
  <2>2. Len(rows) <= 1 /\ sessions = {rows[1]} /\ seen = {rows[1].boot}
    BY <2>1 DEF TableInv
  <2>3. CASE pc' = "delete"
    <3>1. rows[1].boot # boot /\ rows' = rows
      BY <1>2, <1>6, <2>1, <2>3 DEF ProcessRow
    <3> QED BY <1>1, <2>1, <2>2, <2>3, <3>1 DEF TableInv, DownInv
  <2>4. CASE pc' # "delete"
    <3>1. pc' = "row" /\ rows[1].boot = boot /\ rows' = Tail(rows)
      BY <1>2, <1>6, <2>1, <2>4 DEF ProcessRow
    <3>2. rows' = <<>>
      BY <1>3, <2>1, <2>2, <3>1
    <3>3. \A row \in sessions : row.boot = boot
      BY <2>2, <3>1
    <3>4. Len(rows') <= 1
      BY <3>2
    <3> QED BY <1>1, <2>1, <3>1, <3>2, <3>3, <3>4 DEF TableInv, DownInv
  <2> QED BY <2>3, <2>4
<1>7. CASE DeleteRow
  <2>1. pc = "delete" /\ pc' = "row" /\ sessions' = sessions \ {rows[1]} /\ rows' = Tail(rows) /\ seen' = seen
    BY <1>7 DEF DeleteRow
  <2>2. Len(rows) <= 1 /\ rows # <<>> /\ sessions = {rows[1]}
    BY <2>1 DEF TableInv
  <2>3. rows' = <<>> /\ sessions' = {} /\ Len(rows') <= 1
    BY <1>3, <2>1, <2>2
  <2>4. (\A f, g \in seen : f = g) /\ seen \subseteq Booted
    BY <2>1 DEF TableInv
  <2> QED BY <1>1, <2>1, <2>3, <2>4 DEF TableInv, DownInv
<1>8. CASE SelectFails \/ DeleteFails
  <2>1. pc' = "select" /\ sessions' = sessions
    BY <1>4, <1>8 DEF SelectFails, DeleteFails
  <2> QED BY <1>1, <2>1 DEF TableInv, DownInv
<1>9. CASE LogOmitted
  <2>1. pc = "row" /\ rows = <<>> /\ pc' = "start" /\ sessions' = sessions
    BY <1>9 DEF LogOmitted
  <2> QED BY <1>1, <2>1 DEF TableInv, DownInv
<1>10. CASE StartUnknown \/ StartUnset
  <2>1. BootTime(boots, now) = 0 \/ "unset" \in mishaps'
    BY <1>10 DEF StartUnknown, StartUnset, Mishap
  <2> QED BY <1>2, <2>1 DEF Orderly
<1>11. CASE StartFirst
  <2> DEFINE new == [boot |-> boot, start |-> now, stop |-> 0]
  <2>1. /\ pc = "start" /\ pc' = "running" /\ session' = boot /\ sessions' = sessions \cup {new}
        /\ \A row \in sessions : row.boot # boot
    BY <1>2, <1>11 DEF StartFirst
  <2>2. sessions = {}
    BY <2>1 DEF TableInv
  <2>3. sessions' = {new} /\ new.boot = boot /\ new.start = now /\ new.stop = 0
    BY <2>1, <2>2
  <2> HIDE DEF new
  <2> QED BY <1>1, <1>3, <2>1, <2>3 DEF TableInv, DownInv
<1>12. CASE StartAgain
  <2>1. pc = "start" /\ pc' = "reopen" /\ sessions' = sessions /\ \E row \in sessions : row.boot = boot
    BY <1>2, <1>12 DEF StartAgain
  <2> QED BY <1>1, <2>1 DEF TableInv, DownInv
<1>13. CASE Reopen
  <2>1. pc = "reopen" /\ pc' = "running" /\ session' = boot /\ sessions' = WithStop(sessions, boot, 0)
    BY <1>2, <1>13 DEF Reopen, WithStop
  <2>2. /\ \A row, other \in sessions : row = other
        /\ \A row \in sessions : row.boot \in Booted /\ row.boot <= row.start
        /\ \E row \in sessions : row.boot = boot
    BY <2>1 DEF TableInv
  <2>3. \A row, other \in sessions' : row = other
    BY <2>1, <2>2, WithStopOne
  <2>4. \A row \in sessions' : row.boot \in Booted /\ row.boot <= row.start
    <3>1. \A row \in sessions' : \E old \in sessions : row.boot = old.boot /\ row.start = old.start
      BY <1>3, <2>1, WithStopIs
    <3> QED BY <2>2, <3>1
  <2>5. \E row \in sessions' : row.boot = boot /\ row.stop = 0
    <3>1. PICK old \in sessions : old.boot = boot
      BY <2>2
    <3>2. \E row \in sessions' : row.boot = old.boot /\ row.stop = IF old.boot = boot THEN 0 ELSE old.stop
      BY <1>3, <2>1, WithStopIs
    <3> QED BY <3>1, <3>2
  <2> QED BY <1>1, <2>1, <2>3, <2>4, <2>5 DEF TableInv, DownInv
<1>14. CASE StartFails
  <2>1. pc \in {"start", "reopen"} /\ pc' = "start" /\ sessions' = sessions
    BY <1>4, <1>14 DEF StartFails
  <2>2. \A row \in sessions : row.boot = boot
    BY <2>1 DEF TableInv
  <2> QED BY <1>1, <2>1, <2>2 DEF TableInv, DownInv
<1> QED BY <1>5, <1>6, <1>7, <1>8, <1>9, <1>10, <1>11, <1>12, <1>13, <1>14 DEF ProgramStep

\* Every step keeps it in order.
LEMMA OrderlyStep == ReadingInv /\ OrderlyInv /\ [Next]_vars => OrderlyInv'
<1> SUFFICES ASSUME ReadingInv, OrderlyInv, [Next]_vars, Orderly'
             PROVE  (TableInv /\ DownInv)'
  BY DEF OrderlyInv
<1>1. Orderly
  BY MishapsGrow DEF Orderly
<1>2. TableInv /\ DownInv
  BY <1>1 DEF OrderlyInv
<1>3. CASE Next
  BY <1>1, <1>2, <1>3, OrderlyComputer, OrderlyProgram DEF Next
<1>4. CASE UNCHANGED vars
  BY <1>2, <1>4 DEF vars, computer, tables, program, history, TableInv, DownInv, Booted
<1> QED BY <1>3, <1>4

LEMMA OrderlyCorrect == Spec => [](ReadingInv /\ OrderlyInv)
<1>1. Init => OrderlyInv
  BY DEF Init, OrderlyInv, TableInv, DownInv
<1>2. Init /\ [][Next]_vars => []ReadingInv
  BY ReadingCorrect DEF Spec
<1>3. Init /\ [][Next]_vars => []OrderlyInv
  BY <1>1, <1>2, OrderlyStep, PTL
<1> QED BY <1>2, <1>3, PTL DEF Spec

\* While the program runs, the table has one row, open and of this boot, also
\* after crashes, resets and statements that failed.
THEOREM SessionOpenCorrect == Spec => []SessionIsOpen
<1>1. OrderlyInv => SessionIsOpen
  BY DEF OrderlyInv, Orderly, TableInv, SessionIsOpen, Sniffing
<1> QED BY <1>1, OrderlyCorrect, PTL

=============================================================================
