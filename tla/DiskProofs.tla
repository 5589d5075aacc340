----------------------------- MODULE DiskProofs ------------------------------
(***************************************************************************)
(* Proofs about Disk, for every set of requesters, size of the disks and   *)
(* pattern of transfers: a request is in one place, a transfer that no     *)
(* abort has met moves exactly what was asked for, and, if no request      *)
(* comes after the shutdown has begun, no request is lost and no driver    *)
(* finds its queue empty.                                                  *)
(***************************************************************************)
EXTENDS Disk, QueueLemmas

(* The process that owns request i waits for it, or is about to. *)
Away(i) == at[i] \in {"inserted", "waiting"}

(* A request is never in two of the places in which it can be, each        *)
(* request is with the unit it is for, and its process waits.              *)
OnePlace ==
  /\ \A u \in Units :
       /\ Once(queue[u])
       /\ \A i \in Entries(queue[u]) : Away(i) /\ sem[i] = 0 /\ info[i].unit = u
       /\ Working(u) =>
            /\ Away(driver[u].cur) /\ sem[driver[u].cur] = 0
            /\ info[driver[u].cur].unit = u /\ driver[u].cur \notin Entries(queue[u])
  /\ \A i \in Infos : sem[i] = 1 => Away(i)

(* Who waits has its request in one of them, *)
Placed ==
  \A i \in Infos : Away(i) =>
    \/ sem[i] = 1
    \/ i \in Entries(queue[info[i].unit])
    \/ Working(info[i].unit) /\ driver[info[i].unit].cur = i

(* and P2DiskShutdown is alone.  *)
Undisturbed ==
  /\ boss \notin {"size", "run", "closing"} => \A p \in Requesters : at[p] = "returned"
  /\ boss # "failed"

(* Where P2_Startup is, and where its own two requests are. *)
Phases ==
  /\ boss = "size" => \A u \in Units : u # turn => at[u] = "returned"
  /\ boss \in {"run", "closing", "free"} => \A u \in Units : at[u] = "returned"
  /\ boss = "await" => \A u \in Units : u < turn => at[u] = "heard"
  /\ boss \in {"empty", "join"} => \A u \in Units : at[u] = "heard"

(* Every transfer has passed the checks of P2DiskReaderWriterHelper. *)
Fits(r) ==
  /\ r.sectors > 0 /\ r.first < TrackSize /\ r.track < Tracks
  /\ r.track * TrackSize + r.first + r.sectors <= Tracks * TrackSize

AllFit == \A i \in Infos : info[i].op = "transfer" => Fits(info[i])

Consecutive(r, n) == [k \in 1 .. n |-> r.track * TrackSize + r.first + k - 1]

(* The driver stands where the request begins and as much further as it    *)
(* believes to have moved: what it has, if no wait of it was aborted.      *)
Progress(u) ==
  LET d == driver[u]  r == info[d.cur]
  IN  /\ d.pc \in {"remove", "take"} => moved[u] = << >>
      /\ d.pc = "tracks" => r.op = "tracks"
      /\ d.pc \in {"seek", "sector"} =>
           /\ r.op = "transfer" /\ d.i <= r.sectors /\ d.sector <= TrackSize
           /\ d.track * TrackSize + d.sector = r.track * TrackSize + r.first + d.i
           /\ aborted[u] = "no" => moved[u] = Consecutive(r, d.i)
      /\ d.pc = "seek" => d.i < r.sectors
      /\ d.pc = "sector" /\ aborted[u] = "no" => arm[u] = d.track
      /\ d.pc = "answer" /\ r.op = "transfer" /\ d.rc = "ok" /\ aborted[u] = "no"
           => moved[u] = Consecutive(r, r.sectors)

DiskInv ==
  /\ DiskTypeOK /\ OnePlace /\ Phases /\ AllFit
  /\ \A u \in Units : Progress(u)
  /\ ~Late => Placed /\ ReadyCountsQueue /\ Undisturbed
-----------------------------------------------------------------------------
LEMMA DiskTypeInit == DiskInit => DiskTypeOK
<1> SUFFICES ASSUME DiskInit PROVE DiskTypeOK
  OBVIOUS
<1>1. queue \in [Units -> Seq(Infos)] /\ moved \in [Units -> Seq(Nat)]
  BY DEF DiskInit
<1>2. info \in [Infos -> Request]
  BY DEF DiskInit, Request, Plain, Units
<1>3. driver \in [Units -> DriverType]
  BY DEF DiskInit, Between, Infos, DriverType, PCs
<1> QED BY <1>1, <1>2, <1>3 DEF DiskInit, DiskTypeOK, Units

LEMMA TurnType ==
  ASSUME NEW where, NEW next, Turn(where, next), turn \in Units
  PROVE  turn' \in Units /\ boss' \in {where, next}
BY DEF Turn, Units

LEMMA PlainType ==
  ASSUME NEW u \in Units, NEW op \in {"tracks", "abort"}
  PROVE  Plain(op, u) \in Request
BY DEF Plain, Request

LEMMA InsertType ==
  ASSUME DiskTypeOK, NEW i \in Infos, NEW r \in Request, Insert(i, r)
  PROVE  /\ queue' \in [Units -> Seq(Infos)] /\ info' \in [Infos -> Request]
         /\ at' \in [Infos -> {"returned", "inserted", "waiting", "heard"}]
         /\ UNCHANGED << ready, sem, returnVal, driverVars >>
<1>1. r.unit \in Units
  BY DEF Request
<1>2. Append(queue[r.unit], i) \in Seq(Infos)
  BY <1>1, AppendProperties DEF DiskTypeOK
<1> QED BY <1>1, <1>2 DEF Insert, DiskTypeOK

LEMMA ReturnedType ==
  ASSUME DiskTypeOK, NEW i \in Infos, Returned(i)
  PROVE  /\ sem' \in [Infos -> {0, 1}] /\ info' \in [Infos -> Request]
         /\ at' \in [Infos -> {"returned", "inserted", "waiting", "heard"}]
         /\ returnVal' \in [Infos -> {"none", "ok", "error"}]
         /\ UNCHANGED << queue, ready, driverVars >>
<1>1. Plain("tracks", 0) \in Request
  BY PlainType DEF Units
<1> QED BY <1>1 DEF Returned, DiskTypeOK

LEMMA SignalReadyType ==
  ASSUME DiskTypeOK, NEW i \in Infos, SignalReady(i) PROVE DiskTypeOK'
<1>1. info[i].unit \in Units
  BY DEF DiskTypeOK, Request
<1>2. ready' \in [Units -> Nat]
  <2>1. ready \in [Units -> Nat] /\ ready[info[i].unit] + 1 \in Nat
    BY <1>1 DEF DiskTypeOK
  <2> QED BY <2>1 DEF SignalReady
<1>3. at' \in [Infos -> {"returned", "inserted", "waiting", "heard"}]
  BY DEF SignalReady, DiskTypeOK
<1> QED BY <1>2, <1>3 DEF SignalReady, driverVars, bossVars, DiskTypeOK

LEMMA TransferType == Transfers \subseteq Request
<1> SUFFICES ASSUME NEW r \in Transfers PROVE r \in Request
  OBVIOUS
<1>1. PICK u \in Units, k \in 0 .. Tracks, f \in 0 .. TrackSize, n \in Counts :
        r = [op |-> "transfer", unit |-> u, track |-> k, first |-> f, sectors |-> n]
  BY DEF Transfers
<1>2. k \in Nat /\ f \in Nat /\ n \in Nat
  BY DiskAssumption
<1> QED BY <1>1, <1>2 DEF Request

(* What a step changes of a driver keeps its type. *)
LEMMA DriverFields ==
  ASSUME DiskTypeOK, NEW u \in Units
  PROVE  /\ driver \in [Units -> DriverType]
         /\ driver[u].pc \in PCs /\ driver[u].cur \in Infos /\ driver[u].rc \in {"ok", "error"}
         /\ driver[u].track \in Nat /\ driver[u].sector \in Nat /\ driver[u].i \in Nat
BY DEF DiskTypeOK, DriverType

LEMMA DriverSet ==
  ASSUME driver \in [Units -> DriverType], NEW u \in Units,
         NEW pc \in PCs, NEW rc \in {"ok", "error"}, NEW track \in Nat, NEW sector \in Nat,
         NEW i \in Nat
  PROVE  /\ [driver EXCEPT ![u].pc = pc] \in [Units -> DriverType]
         /\ [driver EXCEPT ![u].pc = pc, ![u].rc = rc] \in [Units -> DriverType]
         /\ [driver EXCEPT ![u].sector = sector, ![u].i = i] \in [Units -> DriverType]
         /\ [driver EXCEPT ![u].pc = pc, ![u].track = track, ![u].sector = sector]
              \in [Units -> DriverType]
<1>1. [driver EXCEPT ![u].pc = pc] \in [Units -> DriverType]
  BY DEF DriverType
<1>2. [driver EXCEPT ![u].pc = pc, ![u].rc = rc] \in [Units -> DriverType]
  BY DEF DriverType
<1>3. [driver EXCEPT ![u].sector = sector, ![u].i = i] \in [Units -> DriverType]
  BY DEF DriverType
<1>4. [driver EXCEPT ![u].pc = pc, ![u].track = track, ![u].sector = sector]
        \in [Units -> DriverType]
  <2>1. [driver[u] EXCEPT !.pc = pc, !.track = track, !.sector = sector] \in DriverType
    BY DEF DriverType
  <2> QED BY <2>1
<1> QED BY <1>1, <1>2, <1>3, <1>4

LEMMA DriverGoesOn ==
  ASSUME driver \in [Units -> DriverType], NEW u \in Units, NEW pc \in PCs
  PROVE  [driver EXCEPT ![u].pc = pc] \in [Units -> DriverType]
BY DEF DriverType

LEMMA DriverAnswers ==
  ASSUME driver \in [Units -> DriverType], NEW u \in Units, NEW rc \in {"ok", "error"}
  PROVE  [driver EXCEPT ![u].pc = "answer", ![u].rc = rc] \in [Units -> DriverType]
<1>1. [driver[u] EXCEPT !.pc = "answer", !.rc = rc] \in DriverType
  BY DEF DriverType, PCs
<1> QED BY <1>1

LEMMA WaitType ==
  ASSUME DiskTypeOK, NEW u \in Units, DriverWait(u)
  PROVE  aborted' \in [Units -> {"no", "now", "past"}]
BY DEF DriverWait, DiskTypeOK

(* Only an aborted wait that has failed is a success, and a wait is        *)
(* aborted now or never.                                                   *)
LEMMA WaitAborted ==
  ASSUME DiskTypeOK, NEW u \in Units, DriverWait(u)
  PROVE  /\ aborted'[u] = "no" => aborted[u] = "no"
         /\ \A worked \in BOOLEAN :
              Success(u, worked) /\ aborted'[u] = "no" => worked
         /\ \A v \in Units : v # u => aborted'[v] = aborted[v]
BY DEF DriverWait, Success, DiskTypeOK

LEMMA DriverTypeNext ==
  ASSUME DiskTypeOK, NEW u \in Units, DriverStep(u) PROVE DiskTypeOK'
<1>0. USE DriverFields
<1>1. CASE RemoveWait(u)
  <2>1. driver' \in [Units -> DriverType]
    BY <1>1, DriverGoesOn DEF RemoveWait, PCs
  <2>2. ready' \in [Units -> Nat]
    BY <1>1 DEF RemoveWait, DiskTypeOK
  <2> QED BY <1>1, <2>1, <2>2 DEF RemoveWait, requestVars, bossVars, DiskTypeOK
<1>2. CASE Take(u)
  <2>1. CASE queue[u] = << >>
    <3>0. driver' = [driver EXCEPT ![u].pc = "quit"]
      BY <1>2, <2>1 DEF Take
    <3>1. driver' \in [Units -> DriverType]
      BY <3>0, DriverGoesOn DEF PCs
    <3> QED BY <1>2, <2>1, <3>1 DEF Take, requestVars, bossVars, DiskTypeOK
  <2>2. CASE queue[u] # << >>
    <3>1. Tail(queue[u]) \in Seq(Infos) /\ Head(queue[u]) \in Infos
      BY <2>2, HeadTailProperties DEF DiskTypeOK
    <3> DEFINE h == Head(queue[u])
    <3> HIDE DEF h
    <3>2. info[h].track \in Nat /\ info[h].first \in Nat /\ h \in Infos
          /\ info[h].op \in {"transfer", "tracks", "abort"}
      BY <3>1 DEF h, DiskTypeOK, Request
    <3>3. PICK pc \in PCs : driver' = [driver EXCEPT ![u] =
            [pc |-> pc, cur |-> h, track |-> info[h].track, sector |-> info[h].first,
             i |-> 0, rc |-> "error"]]
      BY <1>2, <2>2, <3>2 DEF Take, h, PCs
    <3>4. [pc |-> pc, cur |-> h, track |-> info[h].track, sector |-> info[h].first,
           i |-> 0, rc |-> "error"] \in DriverType
      BY <3>2 DEF DriverType
    <3>5. driver' \in [Units -> DriverType]
      BY <3>3, <3>4
    <3>6. queue' \in [Units -> Seq(Infos)]
      BY <1>2, <2>2, <3>1 DEF Take, Rest, DiskTypeOK
    <3> QED BY <1>2, <3>5, <3>6 DEF Take, requestVars, bossVars, DiskTypeOK
  <2> QED BY <2>1, <2>2
<1>3. CASE Seek(u)
  <2>1. driver' \in [Units -> DriverType]
    <3>1. CASE driver' = [driver EXCEPT ![u].pc = "sector"]
      BY <3>1, DriverGoesOn DEF PCs
    <3>2. CASE Fail(u)
      BY <3>2, DriverSet DEF Fail, PCs
    <3> QED BY <1>3, <3>1, <3>2 DEF Seek
  <2>2. arm' \in [Units -> Nat]
    <3>1. driver[u].track \in Nat /\ arm \in [Units -> Nat]
      BY DEF DiskTypeOK
    <3>2. arm' = arm \/ arm' = [arm EXCEPT ![u] = driver[u].track]
      BY <1>3 DEF Seek
    <3> QED BY <3>1, <3>2
  <2>3. aborted' \in [Units -> {"no", "now", "past"}]
    BY <1>3, WaitType DEF Seek
  <2> QED BY <1>3, <2>1, <2>2, <2>3 DEF Seek, requestVars, bossVars, DiskTypeOK
<1>4. CASE NextSector(u)
  <2>1. driver' \in [Units -> DriverType]
    <3>1. CASE NextTrack(u)
      <4>1. driver' = [driver EXCEPT ![u].pc = "seek", ![u].track = @ + 1, ![u].sector = 0]
        BY <3>1 DEF NextTrack
      <4>2. driver[u].track + 1 \in Nat /\ 0 \in Nat /\ "seek" \in PCs
        BY DEF PCs
      <4> QED BY <4>1, <4>2, DriverSet
    <3>2. CASE driver' = [driver EXCEPT ![u].sector = @ + 1, ![u].i = @ + 1]
      <4>1. driver[u].sector + 1 \in Nat /\ driver[u].i + 1 \in Nat
        OBVIOUS
      <4> QED BY <3>2, <4>1 DEF DriverType
    <3>3. CASE Fail(u)
      BY <3>3, DriverAnswers DEF Fail
    <3>4. CASE driver' = [driver EXCEPT ![u].pc = "answer", ![u].rc = "ok"]
      BY <3>4, DriverAnswers
    <3> QED BY <1>4, <3>1, <3>2, <3>3, <3>4 DEF NextSector, OneSector
  <2>2. moved' \in [Units -> Seq(Nat)]
    <3>1. arm[u] * TrackSize + driver[u].sector \in Nat
      <4>1. arm[u] \in Nat /\ driver[u].sector \in Nat /\ TrackSize \in Nat
        BY DiskAssumption DEF DiskTypeOK, DriverType
      <4> HIDE DEF DiskTypeOK
      <4> QED BY <4>1
    <3>2. Append(moved[u], arm[u] * TrackSize + driver[u].sector) \in Seq(Nat)
      BY <3>1, AppendProperties DEF DiskTypeOK
    <3>3. moved' = moved \/ moved' = [moved EXCEPT ![u] = Append(@, arm[u] * TrackSize + driver[u].sector)]
      BY <1>4 DEF NextSector, NextTrack, OneSector
    <3> QED BY <3>2, <3>3 DEF DiskTypeOK
  <2>3. aborted' \in [Units -> {"no", "now", "past"}]
    BY <1>4, WaitType DEF NextSector, NextTrack, OneSector, DiskTypeOK
  <2> QED BY <1>4, <2>1, <2>2, <2>3 DEF NextSector, requestVars, bossVars, DiskTypeOK
<1>5. CASE AskTracks(u)
  <2>1. PICK rc \in {"ok", "error"} : driver' = [driver EXCEPT ![u].pc = "answer", ![u].rc = rc]
    BY <1>5 DEF AskTracks
  <2>2. driver' \in [Units -> DriverType]
    <3>1. "answer" \in PCs
      BY DEF PCs
    <3> QED BY <2>1, <3>1, DriverSet
  <2>3. aborted' \in [Units -> {"no", "now", "past"}]
    BY <1>5, WaitType DEF AskTracks
  <2> QED BY <1>5, <2>2, <2>3 DEF AskTracks, requestVars, bossVars, DiskTypeOK
<1>6. CASE Answer(u)
  <2>1. driver' \in [Units -> DriverType]
    BY <1>6, DriverGoesOn DEF Answer, PCs
  <2>2. returnVal' \in [Infos -> {"none", "ok", "error"}] /\ sem' \in [Infos -> {0, 1}]
    BY <1>6 DEF Answer, DiskTypeOK
  <2> QED BY <1>6, <2>1, <2>2 DEF Answer, bossVars, DiskTypeOK
<1>7. CASE GoOn(u)
  <2>1. PICK pc \in {"quit", "remove"} : driver' = [driver EXCEPT ![u] = Between(pc, u)]
    BY <1>7 DEF GoOn
  <2>2. Between(pc, u) \in DriverType
    BY DEF Between, DriverType, Infos, PCs
  <2>3. driver' \in [Units -> DriverType]
    BY <2>1, <2>2
  <2>4. moved' \in [Units -> Seq(Nat)]
    BY <1>7 DEF GoOn, DiskTypeOK
  <2>5. aborted' \in [Units -> {"no", "now", "past"}]
    BY <1>7 DEF GoOn, DiskTypeOK
  <2> QED BY <1>7, <2>3, <2>4, <2>5 DEF GoOn, requestVars, bossVars, DiskTypeOK
<1> QED BY <1>1, <1>2, <1>3, <1>4, <1>5, <1>6, <1>7 DEF DriverStep

LEMMA BossTypeNext ==
  ASSUME DiskTypeOK, BossStep PROVE DiskTypeOK'
<1> USE DEF DiskTypeOK
<1>0. turn \in Infos /\ \A u \in Units : u \in Infos
  BY DEF Infos
<1>1. CASE SizeInsert
  BY <1>0, <1>1, InsertType, PlainType DEF SizeInsert, bossVars, driverVars
<1>2. CASE SizeReturn
  <2>1. diskSize' \in [Units -> {-1, 0, Tracks}]
    BY <1>2 DEF SizeReturn
  <2> QED BY <1>0, <1>2, <2>1, ReturnedType, TurnType DEF SizeReturn, driverVars
<1>3. CASE FreeAllRequestQueue
  <2>1. queue' \in [Units -> Seq(Infos)]
    BY <1>3 DEF FreeAllRequestQueue
  <2> QED BY <1>3, <2>1, TurnType DEF FreeAllRequestQueue, requestVars, driverVars
<1>4. CASE AbortInsert
  BY <1>0, <1>4, InsertType, PlainType, TurnType DEF AbortInsert, driverVars
<1>5. CASE AwaitAnswer
  BY <1>0, <1>5, TurnType DEF AwaitAnswer, driverVars
<1>6. CASE AssertEmpty
  BY <1>6 DEF AssertEmpty, requestVars, driverVars
<1>7. CASE Join
  <2>1. at' \in [Infos -> {"returned", "inserted", "waiting", "heard"}]
    BY <1>7 DEF Join
  <2> QED BY <1>7, <2>1, TurnType DEF Join, driverVars
<1>8. ASSUME NEW u \in Units, SignalReady(u) PROVE DiskTypeOK'
  BY <1>0, <1>8, SignalReadyType
<1> QED BY <1>1, <1>2, <1>3, <1>4, <1>5, <1>6, <1>7, <1>8 DEF BossStep

LEMMA DiskTypeNext == DiskTypeOK /\ [DiskNext]_dskVars => DiskTypeOK'
<1> SUFFICES ASSUME DiskTypeOK, [DiskNext]_dskVars PROVE DiskTypeOK'
  OBVIOUS
<1> USE DEF DiskTypeOK
<1>0. Requesters \subseteq Infos
  BY DEF Infos
<1>1. ASSUME NEW p \in Requesters, Transfer(p) PROVE DiskTypeOK'
  BY <1>0, <1>1, InsertType, TransferType DEF Transfer, bossVars, driverVars
<1>2. ASSUME NEW p \in Requesters, AskSize(p) PROVE DiskTypeOK'
  BY <1>0, <1>2, InsertType, PlainType DEF AskSize, bossVars, driverVars
<1>3. ASSUME NEW p \in Requesters, SignalReady(p) PROVE DiskTypeOK'
  BY <1>0, <1>3, SignalReadyType
<1>4. ASSUME NEW p \in Requesters, Return(p) PROVE DiskTypeOK'
  BY <1>0, <1>4, ReturnedType DEF Return, bossVars, driverVars
<1>5. ASSUME Shutdown PROVE DiskTypeOK'
  BY <1>5 DEF Shutdown, requestVars, driverVars
<1>6. CASE UNCHANGED dskVars
  BY <1>6 DEF dskVars, requestVars, driverVars, bossVars
<1>7. ASSUME ClockShutdown PROVE DiskTypeOK'
  <2>1. aborted' \in [Units -> {"no", "now", "past"}]
    BY <1>7 DEF ClockShutdown
  <2> QED BY <1>7, <2>1 DEF ClockShutdown, requestVars
<1> QED
  BY <1>1, <1>2, <1>3, <1>4, <1>5, <1>6, <1>7, DriverTypeNext, BossTypeNext DEF DiskNext

-----------------------------------------------------------------------------
LEMMA Infos0 ==
  /\ Requesters \subseteq Infos /\ Units \subseteq Infos /\ IsFiniteSet(Infos)
  /\ 0 \in Units /\ 1 \in Units
<1>1. Units = {0} \cup {1}
  BY DEF Units
<1>2. IsFiniteSet(Units)
  BY <1>1, FS_Singleton, FS_Union
<1> QED BY <1>2, FS_Union, DiskAssumption DEF Infos, Units

LEMMA EntriesInfos ==
  ASSUME DiskTypeOK, NEW u \in Units
  PROVE  queue[u] \in Seq(Infos) /\ Entries(queue[u]) \subseteq Infos
<1>1. queue[u] \in Seq(Infos)
  BY DEF DiskTypeOK
<1>2. \A k \in 1 .. Len(queue[u]) : queue[u][k] \in Infos
  BY <1>1, ElementOfSeq
<1> QED BY <1>1, <1>2 DEF Entries

LEMMA InsertPlace ==
  ASSUME DiskTypeOK, OnePlace, NEW i \in Infos, NEW r \in Request, Insert(i, r)
  PROVE  /\ OnePlace'
         /\ r.unit \in Units /\ Len(queue[r.unit])' = Len(queue[r.unit]) + 1
         /\ Entries(queue[r.unit])' = Entries(queue[r.unit]) \cup {i}
         /\ \A u \in Units : u # r.unit => queue'[u] = queue[u]
         /\ \A u \in Units : Working(u) => driver[u].cur # i
<1>1. r.unit \in Units
  BY DEF Request
<1>2. /\ \A u \in Units : i \notin Entries(queue[u])
      /\ \A u \in Units : Working(u) => driver[u].cur # i
      /\ sem[i] = 0
  <2>1. ~Away(i)
    BY DEF Insert, Away
  <2>2. sem[i] \in {0, 1}
    BY DEF DiskTypeOK
  <2> QED BY <2>1, <2>2 DEF OnePlace
<1>3. /\ queue'[r.unit] = Append(queue[r.unit], i)
      /\ \A u \in Units : u # r.unit => queue'[u] = queue[u]
      /\ at'[i] = "inserted" /\ info'[i] = r
      /\ \A j \in Infos : j # i => at'[j] = at[j] /\ info'[j] = info[j]
      /\ sem' = sem /\ driver' = driver
  BY <1>1 DEF Insert, DiskTypeOK, driverVars
<1>4. /\ Once(queue'[r.unit]) /\ Entries(queue'[r.unit]) = Entries(queue[r.unit]) \cup {i}
      /\ Len(queue'[r.unit]) = Len(queue[r.unit]) + 1
  BY <1>1, <1>2, <1>3, EntriesInfos, AppendEntries DEF OnePlace
<1>5. ASSUME NEW u \in Units PROVE Once(queue'[u])
  BY <1>3, <1>4 DEF OnePlace
<1>6. ASSUME NEW u \in Units, NEW j \in Entries(queue'[u])
      PROVE  Away(j)' /\ sem'[j] = 0 /\ info'[j].unit = u
  <2>1. CASE j = i
    <3>1. u = r.unit
      BY <1>2, <1>3, <2>1
    <3> QED BY <1>2, <1>3, <2>1, <3>1 DEF Away
  <2>2. CASE j # i
    <3>1. j \in Entries(queue[u]) /\ j \in Infos
      BY <1>3, <1>4, <2>2, EntriesInfos
    <3> QED BY <1>3, <2>2, <3>1 DEF OnePlace, Away
  <2> QED BY <2>1, <2>2
<1>7. ASSUME NEW u \in Units, Working(u)'
      PROVE  /\ Away(driver[u].cur)' /\ sem'[driver[u].cur] = 0
             /\ info'[driver[u].cur].unit = u /\ driver[u].cur \notin Entries(queue'[u])
  <2>1. Working(u) /\ driver[u].cur \in Infos /\ driver[u].cur # i
    BY <1>2, <1>3, <1>7, DriverFields DEF Working
  <2>2. driver[u].cur \notin Entries(queue[u])
    BY <2>1 DEF OnePlace
  <2>4. driver[u].cur \notin Entries(queue'[u])
    <3>1. CASE u = r.unit
      BY <1>4, <2>1, <2>2, <3>1
    <3>2. CASE u # r.unit
      BY <1>3, <2>2, <3>2
    <3> QED BY <3>1, <3>2
  <2>3. /\ at[driver[u].cur] \in {"inserted", "waiting"} /\ sem[driver[u].cur] = 0
        /\ info[driver[u].cur].unit = u
    BY <2>1 DEF OnePlace, Away
  <2> QED BY <1>3, <2>1, <2>4, <2>3 DEF Away
<1>8. ASSUME NEW j \in Infos, sem'[j] = 1 PROVE Away(j)'
  BY <1>2, <1>3, <1>8 DEF OnePlace, Away
<1>9. OnePlace'
  BY <1>3, <1>5, <1>6, <1>7, <1>8 DEF OnePlace
<1> QED BY <1>1, <1>2, <1>3, <1>4, <1>9

LEMMA SignalPlace ==
  ASSUME DiskTypeOK, OnePlace, NEW i \in Infos, SignalReady(i)
  PROVE  OnePlace'
<1>1. /\ \A j \in Infos : Away(j) => Away(j)'
      /\ UNCHANGED << queue, info, sem, driver >>
  BY DEF SignalReady, DiskTypeOK, driverVars, Away
<1>2. \A u \in Units : Entries(queue[u]) \subseteq Infos /\ driver[u].cur \in Infos
  BY EntriesInfos, DriverFields
<1> QED BY <1>1, <1>2 DEF OnePlace, Working

(* Who has an answer is in no queue and no driver works for it. *)
LEMMA AnsweredFree ==
  ASSUME DiskTypeOK, OnePlace, NEW i \in Infos, sem[i] = 1
  PROVE  \A u \in Units : i \notin Entries(queue[u]) /\ (Working(u) => driver[u].cur # i)
BY DEF OnePlace

LEMMA ReturnedPlace ==
  ASSUME DiskTypeOK, OnePlace, NEW i \in Infos, sem[i] = 1,
         sem' = [sem EXCEPT ![i] = 0], UNCHANGED << queue, driver >>,
         \A j \in Infos : j # i => at'[j] = at[j] /\ info'[j] = info[j]
  PROVE  OnePlace'
<1>1. \A j \in Infos : sem'[j] = IF j = i THEN 0 ELSE sem[j]
  BY DEF DiskTypeOK
<1>2. \A j \in Infos : j # i => (Away(j)' <=> Away(j))
  BY DEF Away
<1>3. \A u \in Units : Entries(queue[u]) \subseteq Infos /\ driver[u].cur \in Infos
  BY EntriesInfos, DriverFields
<1> QED BY <1>1, <1>2, <1>3, AnsweredFree DEF OnePlace, Working

-----------------------------------------------------------------------------
(* A step of one driver leaves the other one alone. *)
LEMMA DriverElse ==
  ASSUME DiskTypeOK, NEW u \in Units, DriverStep(u), NEW v \in Units, v # u
  PROVE  /\ queue'[v] = queue[v] /\ ready'[v] = ready[v] /\ driver'[v] = driver[v]
         /\ arm'[v] = arm[v] /\ moved'[v] = moved[v]
         /\ aborted'[v] = aborted[v]
<1>1. CASE RemoveWait(u)
  BY <1>1 DEF RemoveWait, DiskTypeOK
<1>2. CASE Take(u)
  BY <1>2 DEF Take, DiskTypeOK
<1>3. CASE Seek(u)
  <2>1. aborted'[v] = aborted[v]
    BY <1>3 DEF Seek, DriverWait, DiskTypeOK
  <2>2. driver'[v] = driver[v] /\ arm'[v] = arm[v]
    BY <1>3 DEF Seek, Fail, DiskTypeOK
  <2> QED BY <1>3, <2>1, <2>2 DEF Seek
<1>4. CASE NextSector(u)
  <2>1. CASE OneSector(u)
    <3>1. aborted'[v] = aborted[v]
      BY <2>1 DEF OneSector, DriverWait, DiskTypeOK
    <3> QED BY <1>4, <2>1, <3>1 DEF NextSector, OneSector, Fail, DiskTypeOK
  <2>2. CASE NextTrack(u)
    BY <1>4, <2>2 DEF NextSector, NextTrack, DiskTypeOK
  <2>3. CASE driver[u].i >= info[driver[u].cur].sectors /\ UNCHANGED << moved, aborted >>
                /\ driver' = [driver EXCEPT ![u].pc = "answer", ![u].rc = "ok"]
    BY <1>4, <2>3 DEF NextSector, DiskTypeOK
  <2> QED BY <1>4, <2>1, <2>2, <2>3 DEF NextSector
<1>5. CASE AskTracks(u)
  BY <1>5 DEF AskTracks, DriverWait, DiskTypeOK
<1>6. CASE Answer(u)
  BY <1>6 DEF Answer, DiskTypeOK
<1>7. CASE GoOn(u)
  BY <1>7 DEF GoOn, DiskTypeOK
<1> QED BY <1>1, <1>2, <1>3, <1>4, <1>5, <1>6, <1>7 DEF DriverStep

LEMMA DriverKeeps ==
  ASSUME NEW u \in Units, DriverStep(u)
  PROVE  UNCHANGED << info, at, bossVars >>
BY DEF DriverStep, RemoveWait, Take, Seek, NextSector, AskTracks, Answer, GoOn, requestVars

(* NextSector goes on to the next track, moves a sector, fails or ends. *)
LEMMA NextSectorCases ==
  ASSUME DiskTypeOK, NEW u \in Units, NextSector(u)
  PROVE  LET d == driver[u]  e == driver'[u]
         IN  /\ e.cur = d.cur /\ (aborted'[u] = "no" => aborted[u] = "no")
             /\ \/ /\ d.i < info[d.cur].sectors /\ d.sector >= TrackSize
                   /\ e.pc = "seek" /\ e.track = d.track + 1 /\ e.sector = 0 /\ e.i = d.i
                   /\ moved' = moved
                \/ /\ d.i < info[d.cur].sectors /\ d.sector < TrackSize
                   /\ e.pc = "sector" /\ e.track = d.track /\ e.sector = d.sector + 1
                   /\ e.i = d.i + 1
                   /\ aborted'[u] = "no" =>
                        moved'[u] = Append(moved[u], arm[u] * TrackSize + d.sector)
                \/ e.pc = "answer" /\ e.rc = "error"
                \/ /\ d.i >= info[d.cur].sectors /\ e.pc = "answer" /\ moved' = moved
<1> USE DriverFields DEF DriverType
<1>1. CASE NextTrack(u) /\ driver[u].i < info[driver[u].cur].sectors
  BY <1>1 DEF NextTrack
<1>2. CASE OneSector(u) /\ driver[u].i < info[driver[u].cur].sectors
  <2>0. PICK worked \in BOOLEAN :
          /\ moved' = IF worked THEN [moved EXCEPT ![u] = Append(@, arm[u] * TrackSize + driver[u].sector)]
                                ELSE moved
          /\ IF Success(u, worked) THEN driver' = [driver EXCEPT ![u].sector = @ + 1, ![u].i = @ + 1]
                                   ELSE Fail(u)
    BY <1>2 DEF OneSector
  <2>1. /\ aborted'[u] = "no" => aborted[u] = "no"
        /\ Success(u, worked) /\ aborted'[u] = "no" => worked
    BY <1>2, WaitAborted DEF OneSector
  <2>2. CASE Success(u, worked)
    <3>1. aborted'[u] = "no" => moved'[u] = Append(moved[u], arm[u] * TrackSize + driver[u].sector)
      BY <2>0, <2>1, <2>2 DEF DiskTypeOK
    <3>2. driver'[u] = [driver[u] EXCEPT !.sector = @ + 1, !.i = @ + 1]
      BY <2>0, <2>2
    <3>3. /\ driver'[u].pc = driver[u].pc /\ driver'[u].cur = driver[u].cur
          /\ driver'[u].track = driver[u].track
          /\ driver'[u].sector = driver[u].sector + 1 /\ driver'[u].i = driver[u].i + 1
      BY <3>2
    <3>4. driver[u].pc = "sector" /\ driver[u].sector < TrackSize
      BY <1>2 DEF NextSector, OneSector
    <3> QED BY <1>2, <2>1, <3>1, <3>3, <3>4
  <2>3. CASE ~Success(u, worked)
    <3>1. driver'[u].pc = "answer" /\ driver'[u].rc = "error" /\ driver'[u].cur = driver[u].cur
      BY <2>0, <2>3 DEF Fail
    <3> QED BY <2>1, <3>1
  <2> QED BY <2>2, <2>3
<1>3. CASE /\ driver[u].i >= info[driver[u].cur].sectors
           /\ driver' = [driver EXCEPT ![u].pc = "answer", ![u].rc = "ok"]
           /\ UNCHANGED << moved, aborted >>
  BY <1>3
<1> QED BY <1>1, <1>2, <1>3 DEF NextSector

(* What the step of a driver does to the driver itself: it goes on with    *)
(* the same request, *)
LEMMA DriverSame ==
  ASSUME DiskTypeOK, NEW u \in Units, DriverStep(u), ~Take(u), ~Answer(u)
  PROVE  /\ UNCHANGED << queue, sem, returnVal >>
         /\ Working(u)' <=> Working(u)
         /\ ~GoOn(u) => driver'[u].cur = driver[u].cur
<1> USE DriverFields
<1>1. CASE RemoveWait(u)
  BY <1>1 DEF RemoveWait, requestVars, DriverType, Working, GoOn
<1>3. CASE Seek(u)
  BY <1>3 DEF Seek, Fail, requestVars, DriverType, Working
<1>4. CASE NextSector(u)
  <2>1. driver[u].pc = "sector" /\ UNCHANGED << queue, sem, returnVal >>
    BY <1>4 DEF NextSector, requestVars
  <2>2. driver'[u].pc \in {"seek", "sector", "answer"} /\ driver'[u].cur = driver[u].cur
    BY <1>4, NextSectorCases, <2>1
  <2> QED BY <2>1, <2>2 DEF Working
<1>5. CASE AskTracks(u)
  BY <1>5 DEF AskTracks, requestVars, DriverType, Working
<1>7. CASE GoOn(u)
  <2>1. driver[u].pc = "answered" /\ UNCHANGED << queue, sem, returnVal >>
    BY <1>7 DEF GoOn, requestVars
  <2>2. driver'[u].pc \in {"quit", "remove"}
    BY <1>7 DEF GoOn, Between
  <2> QED BY <1>7, <2>1, <2>2 DEF Working
<1> QED BY <1>1, <1>3, <1>4, <1>5, <1>7 DEF DriverStep

(* takes the next one, *)
LEMMA TakeSame ==
  ASSUME DiskTypeOK, NEW u \in Units, Take(u)
  PROVE  /\ UNCHANGED << sem, ready, moved, arm, aborted, returnVal >> /\ ~Working(u)
         /\ queue[u] = << >> => ~Working(u)' /\ driver'[u].pc = "quit" /\ UNCHANGED queue
         /\ queue[u] # << >> =>
              LET h == Head(queue[u])
              IN  /\ h \in Infos /\ queue'[u] = Tail(queue[u]) /\ Working(u)'
                  /\ driver'[u].cur = h /\ driver'[u].track = info[h].track
                  /\ driver'[u].sector = info[h].first /\ driver'[u].i = 0
                  /\ driver'[u].rc = "error"
                  /\ info[h].op = "transfer" => driver'[u].pc = "seek"
                  /\ info[h].op = "tracks" => driver'[u].pc = "tracks"
                  /\ info[h].op = "abort" => driver'[u].pc = "answer"
<1>0. /\ UNCHANGED << sem, ready, moved, arm, aborted, returnVal >> /\ ~Working(u)
  BY DEF Take, Working, requestVars
<1>1. ASSUME queue[u] = << >>
      PROVE  ~Working(u)' /\ driver'[u].pc = "quit" /\ UNCHANGED queue
  BY <1>1, DriverFields DEF Take, Working, DriverType
<1>2. ASSUME queue[u] # << >>
      PROVE  LET h == Head(queue[u])
              IN  /\ h \in Infos /\ queue'[u] = Tail(queue[u]) /\ Working(u)'
                  /\ driver'[u].cur = h /\ driver'[u].track = info[h].track
                  /\ driver'[u].sector = info[h].first /\ driver'[u].i = 0
                  /\ driver'[u].rc = "error"
                  /\ info[h].op = "transfer" => driver'[u].pc = "seek"
                  /\ info[h].op = "tracks" => driver'[u].pc = "tracks"
                  /\ info[h].op = "abort" => driver'[u].pc = "answer"
  <2> DEFINE h == Head(queue[u])
             then == CASE info[h].op = "transfer" -> "seek"
                       [] info[h].op = "tracks" -> "tracks"
                       [] info[h].op = "abort" -> "answer"
  <2>1. h \in Infos
    BY <1>2, EntriesInfos, HeadTailProperties
  <2>2. info[h].op \in {"transfer", "tracks", "abort"}
    BY <2>1 DEF DiskTypeOK, Request
  <2>3. /\ then \in {"seek", "tracks", "answer"}
        /\ info[h].op = "transfer" => then = "seek"
        /\ info[h].op = "tracks" => then = "tracks"
        /\ info[h].op = "abort" => then = "answer"
    BY <2>2
  <2>4. /\ queue'[u] = Tail(queue[u])
        /\ driver' = [driver EXCEPT ![u] =
                        [pc |-> then, cur |-> h, track |-> info[h].track,
                         sector |-> info[h].first, i |-> 0, rc |-> "error"]]
    BY <1>2 DEF Take, Rest, DiskTypeOK
  <2> HIDE DEF h, then
  <2>5. driver'[u] = [pc |-> then, cur |-> h, track |-> info[h].track,
                      sector |-> info[h].first, i |-> 0, rc |-> "error"]
    BY <2>4, DriverFields
  <2>6. Working(u)'
    BY <2>3, <2>5 DEF Working
  <2> QED BY <2>1, <2>3, <2>4, <2>5, <2>6 DEF h
<1> QED BY <1>0, <1>1, <1>2

(* or answers. *)
LEMMA AnswerSame ==
  ASSUME DiskTypeOK, NEW u \in Units, Answer(u)
  PROVE  /\ driver[u].cur \in Infos /\ UNCHANGED << queue, ready, arm, moved >>
         /\ Working(u) /\ ~Working(u)' /\ driver'[u].cur = driver[u].cur
         /\ driver'[u].pc = "answered"
         /\ \A j \in Infos : sem'[j] = IF j = driver[u].cur THEN 1 ELSE sem[j]
<1>1. /\ driver[u].cur \in Infos /\ UNCHANGED << queue, ready, arm, moved >> /\ Working(u)
  BY DriverFields DEF Answer, Working
<1>2. driver'[u].cur = driver[u].cur /\ driver'[u].pc = "answered" /\ ~Working(u)'
  BY DriverFields DEF Answer, Working, DriverType
<1>3. \A j \in Infos : sem'[j] = IF j = driver[u].cur THEN 1 ELSE sem[j]
  BY <1>1 DEF Answer, DiskTypeOK
<1> QED BY <1>1, <1>2, <1>3

-----------------------------------------------------------------------------
(* A request stays in one place while a driver does it. *)
LEMMA DriverPlace ==
  ASSUME DiskTypeOK, OnePlace, NEW u \in Units, DriverStep(u)
  PROVE  OnePlace'
<1>0. /\ \A v \in Units : Entries(queue[v]) \subseteq Infos /\ driver[v].cur \in Infos
      /\ UNCHANGED << info, at >>
      /\ \A v \in Units : v # u =>
           queue'[v] = queue[v] /\ driver'[v] = driver[v]
  BY EntriesInfos, DriverFields, DriverElse, DriverKeeps
<1>1. CASE Take(u)
  <2>1. CASE queue[u] = << >>
    <3>1. UNCHANGED << queue, sem >> /\ ~Working(u)'
      BY <1>1, <2>1, TakeSame
    <3> QED BY <1>0, <3>1 DEF OnePlace, Away, Working
  <2>2. CASE queue[u] # << >>
    <3>0. PICK h \in Infos : h = Head(queue[u])
      BY <1>1, <2>2, TakeSame
    <3>1. /\ h \in Entries(queue[u]) /\ Once(queue'[u])
          /\ Entries(queue'[u]) = Entries(queue[u]) \ {h}
          /\ UNCHANGED sem /\ driver'[u].cur = h
      <4>1. queue[u] \in Seq(Infos) /\ Once(queue[u])
        BY EntriesInfos DEF OnePlace
      <4> QED BY <1>1, <2>2, <3>0, <4>1, TakeSame, TailEntries
    <3>2. \A v \in Units : Once(queue'[v]) /\ Entries(queue'[v]) \subseteq Entries(queue[v])
      BY <1>0, <3>1 DEF OnePlace
    <3>3. \A v \in Units : \A i \in Entries(queue'[v]) :
            Away(i)' /\ sem'[i] = 0 /\ info'[i].unit = v
      BY <1>0, <3>1, <3>2 DEF OnePlace, Away
    <3>4. Away(h)' /\ sem'[h] = 0 /\ info'[h].unit = u
      BY <1>0, <3>1 DEF OnePlace, Away
    <3>5. \A v \in Units : v # u /\ Working(v)' =>
            /\ Away(driver[v].cur)' /\ sem'[driver[v].cur] = 0
            /\ info'[driver[v].cur].unit = v /\ driver[v].cur \notin Entries(queue'[v])
      BY <1>0, <3>1, <3>2 DEF OnePlace, Away, Working
    <3> QED BY <1>0, <3>1, <3>2, <3>3, <3>4, <3>5 DEF OnePlace, Away
  <2> QED BY <2>1, <2>2
<1>2. CASE Answer(u)
  <2>1. /\ UNCHANGED queue /\ ~Working(u)' /\ Working(u) /\ driver[u].cur \in Infos
        /\ \A j \in Infos : sem'[j] = IF j = driver[u].cur THEN 1 ELSE sem[j]
    BY <1>2, AnswerSame
  <2>2. \A v \in Units : driver[u].cur \notin Entries(queue[v])
    BY <2>1 DEF OnePlace
  <2>3. \A v \in Units : v # u /\ Working(v) => driver[v].cur # driver[u].cur
    BY <2>1 DEF OnePlace
  <2> QED BY <1>0, <2>1, <2>2, <2>3 DEF OnePlace, Away, Working
<1>3. CASE ~Take(u) /\ ~Answer(u)
  <2>1. /\ UNCHANGED << queue, sem >> /\ (Working(u)' <=> Working(u))
        /\ Working(u) => driver'[u].cur = driver[u].cur
    BY <1>3, DriverSame DEF GoOn, Working
  <2> QED BY <1>0, <2>1 DEF OnePlace, Away, Working
<1> QED BY <1>1, <1>2, <1>3

(* The steps of P2_Startup that are not shared with the requesters *)
LEMMA BossPlace ==
  ASSUME DiskTypeOK, OnePlace, Phases,
         FreeAllRequestQueue \/ AwaitAnswer \/ AssertEmpty \/ Join
  PROVE  OnePlace'
<1>0. /\ \A v \in Units : Entries(queue[v]) \subseteq Infos /\ driver[v].cur \in Infos
      /\ turn \in Infos
  BY EntriesInfos, DriverFields, Infos0 DEF DiskTypeOK
<1>1. CASE FreeAllRequestQueue
  <2>1. /\ UNCHANGED << at, info, sem, driver >>
        /\ \A v \in Units : queue'[v] = queue[v] \/ queue'[v] = << >>
    BY <1>1 DEF FreeAllRequestQueue, requestVars, driverVars, DiskTypeOK
  <2>2. \A v \in Units : Once(queue'[v]) /\ Entries(queue'[v]) \subseteq Entries(queue[v])
    BY <2>1, NoEntries DEF OnePlace
  <2> QED BY <1>0, <2>1, <2>2 DEF OnePlace, Away, Working
<1>2. CASE AwaitAnswer
  <2>1. /\ sem[turn] = 1 /\ sem' = [sem EXCEPT ![turn] = 0] /\ UNCHANGED << queue, driver, info >>
        /\ \A j \in Infos : j # turn => at'[j] = at[j]
    BY <1>2 DEF AwaitAnswer, Answered, driverVars, DiskTypeOK
  <2> QED BY <1>0, <2>1, ReturnedPlace
<1>3. CASE AssertEmpty
  <2>1. UNCHANGED << at, info, sem, driver, queue >>
    BY <1>3 DEF AssertEmpty, requestVars, driverVars
  <2> QED BY <2>1 DEF OnePlace, Away, Working
<1>4. CASE Join
  <2>1. UNCHANGED << info, sem, driver, queue >>
    BY <1>4 DEF Join, driverVars
  <2>2. \A i \in Infos : Away(i) => Away(i)'
    <3>1. ASSUME NEW i \in Infos, Away(i) PROVE i \notin Units
      BY <1>4, <3>1 DEF Join, Phases, Away
    <3>2. at' = at \/ at' = [i \in Infos |-> IF i \in Units THEN "returned" ELSE at[i]]
      BY <1>4 DEF Join
    <3> QED BY <3>1, <3>2 DEF Away
  <2> QED BY <1>0, <2>1, <2>2 DEF OnePlace, Working
<1> QED BY <1>1, <1>2, <1>3, <1>4

-----------------------------------------------------------------------------
(* Numbers of processes between the two halves of diskRequestQueueInsert *)
Entering(u) == {i \in Infos : at[i] = "inserted" /\ info[i].unit = u}

LEMMA EnteringFinite ==
  ASSUME NEW u
  PROVE  IsFiniteSet(Entering(u)) /\ Cardinality(Entering(u)) \in Nat
<1>1. Entering(u) \subseteq Infos
  BY DEF Entering
<1> QED BY <1>1, Infos0, FS_Subset, FS_CardinalityType

LEMMA InsertCounted ==
  ASSUME DiskTypeOK, OnePlace, Placed, ReadyCountsQueue,
         NEW i \in Infos, NEW r \in Request, Insert(i, r)
  PROVE  Placed' /\ ReadyCountsQueue'
<1>1. /\ r.unit \in Units /\ Len(queue'[r.unit]) = Len(queue[r.unit]) + 1
      /\ Entries(queue'[r.unit]) = Entries(queue[r.unit]) \cup {i}
      /\ \A u \in Units : u # r.unit => queue'[u] = queue[u]
  BY InsertPlace
<1>2. /\ at[i] = "returned" /\ at'[i] = "inserted" /\ info'[i] = r
      /\ \A j \in Infos : j # i => at'[j] = at[j] /\ info'[j] = info[j]
      /\ UNCHANGED << ready, sem, driver >>
  BY DEF Insert, DiskTypeOK, driverVars
<1>3. Placed'
  <2> SUFFICES ASSUME NEW j \in Infos, Away(j)'
               PROVE  \/ sem'[j] = 1
                      \/ j \in Entries(queue'[info'[j].unit])
                      \/ Working(info[j].unit)' /\ driver'[info'[j].unit].cur = j
    BY DEF Placed
  <2>1. CASE j = i
    BY <1>1, <1>2, <2>1
  <2>2. CASE j # i
    <3>1. Away(j) /\ info[j].unit \in Units
      BY <1>2, <2>2 DEF Away, DiskTypeOK, Request
    <3>2. Entries(queue[info[j].unit]) \subseteq Entries(queue'[info[j].unit])
      BY <1>1, <3>1
    <3> QED BY <1>2, <2>2, <3>1, <3>2 DEF Placed, Working
  <2> QED BY <2>1, <2>2
<1>4. ReadyCountsQueue'
  <2> SUFFICES ASSUME NEW u \in Units
               PROVE  Len(queue'[u]) = ready'[u] + (IF driver'[u].pc = "take" THEN 1 ELSE 0)
                                       + Cardinality(Entering(u)')
    BY DEF ReadyCountsQueue, Entering
  <2>1. Len(queue[u]) = ready[u] + (IF driver[u].pc = "take" THEN 1 ELSE 0)
                        + Cardinality(Entering(u))
    BY DEF ReadyCountsQueue, Entering
  <2>2. ready[u] \in Nat /\ Cardinality(Entering(u)) \in Nat /\ IsFiniteSet(Entering(u))
    BY EnteringFinite DEF DiskTypeOK
  <2>3. CASE u = r.unit
    <3>1. Entering(u)' = Entering(u) \cup {i} /\ i \notin Entering(u)
      BY <1>2, <2>3 DEF Entering
    <3>2. Cardinality(Entering(u)') = Cardinality(Entering(u)) + 1
      BY <2>2, <3>1, FS_AddElement
    <3>3. Len(queue'[u]) = Len(queue[u]) + 1
      BY <1>1, <2>3
    <3>4. ready'[u] = ready[u] /\ driver'[u] = driver[u]
      BY <1>2
    <3> QED BY <2>1, <2>2, <3>2, <3>3, <3>4
  <2>4. CASE u # r.unit
    <3>1. Entering(u)' = Entering(u)
      BY <1>2, <2>4 DEF Entering
    <3> QED BY <1>1, <1>2, <2>1, <2>4, <3>1
  <2> QED BY <2>3, <2>4
<1> QED BY <1>3, <1>4

LEMMA SignalCounted ==
  ASSUME DiskTypeOK, Placed, ReadyCountsQueue, NEW i \in Infos, SignalReady(i)
  PROVE  Placed' /\ ReadyCountsQueue'
<1>1. /\ at[i] = "inserted" /\ at'[i] = "waiting" /\ info[i].unit \in Units
      /\ \A j \in Infos : j # i => at'[j] = at[j]
      /\ \A u \in Units : ready'[u] = IF u = info[i].unit THEN ready[u] + 1 ELSE ready[u]
      /\ UNCHANGED << queue, info, sem, driver >>
  <2>1. info[i].unit \in Units
    BY DEF DiskTypeOK, Request
  <2> QED BY <2>1 DEF SignalReady, DiskTypeOK, driverVars
<1>2. Placed'
  <2>1. \A j \in Infos : Away(j)' => Away(j)
    BY <1>1 DEF Away
  <2> QED BY <1>1, <2>1 DEF Placed, Working
<1>3. ReadyCountsQueue'
  <2> SUFFICES ASSUME NEW u \in Units
               PROVE  Len(queue'[u]) = ready'[u] + (IF driver'[u].pc = "take" THEN 1 ELSE 0)
                                       + Cardinality(Entering(u)')
    BY DEF ReadyCountsQueue, Entering
  <2>1. Len(queue[u]) = ready[u] + (IF driver[u].pc = "take" THEN 1 ELSE 0)
                        + Cardinality(Entering(u))
    BY DEF ReadyCountsQueue, Entering
  <2>2. ready[u] \in Nat /\ Cardinality(Entering(u)) \in Nat /\ IsFiniteSet(Entering(u))
    BY EnteringFinite DEF DiskTypeOK
  <2>3. CASE u = info[i].unit
    <3>1. Entering(u)' = Entering(u) \ {i} /\ i \in Entering(u)
      BY <1>1, <2>3 DEF Entering
    <3>2. Cardinality(Entering(u)') = Cardinality(Entering(u)) - 1
      BY <2>2, <3>1, FS_RemoveElement
    <3>3. ready'[u] + (IF driver'[u].pc = "take" THEN 1 ELSE 0)
            = ready[u] + (IF driver[u].pc = "take" THEN 1 ELSE 0) + 1
      BY <1>1, <2>2, <2>3
    <3>4. PICK n \in Nat : n = Cardinality(Entering(u))
      BY <2>2
    <3> QED BY <1>1, <2>1, <2>2, <3>2, <3>3, <3>4
  <2>4. CASE u # info[i].unit
    <3>1. Entering(u)' = Entering(u)
      BY <1>1, <2>4 DEF Entering
    <3> QED BY <1>1, <2>1, <2>4, <3>1
  <2> QED BY <2>3, <2>4
<1> QED BY <1>2, <1>3

(* A process that goes on was answered, so nothing changes in the queues. *)
LEMMA ReturnedCounted ==
  ASSUME DiskTypeOK, Placed, ReadyCountsQueue, NEW i \in Infos,
         at[i] = "waiting", at'[i] \in {"returned", "heard"},
         UNCHANGED << queue, ready, driver >>,
         \A j \in Infos : j # i => at'[j] = at[j] /\ info'[j] = info[j] /\ sem'[j] = sem[j]
  PROVE  Placed' /\ ReadyCountsQueue'
<1>1. Placed'
  <2> SUFFICES ASSUME NEW j \in Infos, Away(j)'
               PROVE  \/ sem'[j] = 1
                      \/ j \in Entries(queue'[info'[j].unit])
                      \/ Working(info[j].unit)' /\ driver'[info'[j].unit].cur = j
    BY DEF Placed
  <2>1. j # i /\ Away(j)
    BY DEF Away
  <2> QED BY <2>1 DEF Placed, Working
<1>2. \A u \in Units : Entering(u)' = Entering(u)
  BY DEF Entering
<1> QED BY <1>1, <1>2 DEF ReadyCountsQueue, Entering

LEMMA DriverReady ==
  ASSUME DiskTypeOK, NEW u \in Units, DriverStep(u), ~Take(u)
  PROVE  ready'[u] + (IF driver'[u].pc = "take" THEN 1 ELSE 0)
           = ready[u] + (IF driver[u].pc = "take" THEN 1 ELSE 0)
<1>1. CASE RemoveWait(u)
  <2>1. driver[u].pc = "remove" /\ driver'[u].pc = "take"
    BY <1>1, DriverFields DEF RemoveWait, DriverType
  <2>2. ready[u] \in Nat /\ ready'[u] = ready[u] - 1
    BY <1>1 DEF RemoveWait, DiskTypeOK
  <2> QED BY <2>1, <2>2
<1>2. CASE Answer(u)
  BY <1>2, AnswerSame DEF Answer
<1>3. CASE Seek(u) \/ NextSector(u) \/ AskTracks(u)
  <2>1. ~Answer(u)
    BY <1>3 DEF Seek, NextSector, AskTracks, Answer
  <2>2. Working(u)' /\ Working(u)
    BY <1>3, <2>1, DriverSame DEF Working, Seek, NextSector, AskTracks
  <2>3. ready' = ready
    BY <1>3 DEF Seek, NextSector, AskTracks
  <2> QED BY <2>2, <2>3 DEF Working
<1>4. CASE GoOn(u)
  <2>1. driver[u].pc = "answered" /\ ready' = ready
    BY <1>4 DEF GoOn
  <2>2. driver'[u].pc \in {"quit", "remove"}
    BY <1>4, DriverFields DEF GoOn, Between
  <2> QED BY <2>1, <2>2
<1> QED BY <1>1, <1>2, <1>3, <1>4 DEF DriverStep

LEMMA DriverCounted ==
  ASSUME DiskTypeOK, OnePlace, Placed, ReadyCountsQueue, NEW u \in Units, DriverStep(u)
  PROVE  /\ Placed' /\ ReadyCountsQueue'
         /\ Take(u) => queue[u] # << >>
<1>0. /\ UNCHANGED << info, at >>
      /\ \A v \in Units : v # u =>
           queue'[v] = queue[v] /\ driver'[v] = driver[v] /\ ready'[v] = ready[v]
      /\ \A i \in Infos : info[i].unit \in Units
      /\ \A v \in Units : Entering(v)' = Entering(v) /\ Cardinality(Entering(v)) \in Nat
  <2>1. UNCHANGED << info, at >>
    BY DriverKeeps
  <2>2. \A v \in Units : v # u =>
           queue'[v] = queue[v] /\ driver'[v] = driver[v] /\ ready'[v] = ready[v]
    BY DriverElse
  <2>3. \A i \in Infos : info[i].unit \in Units
    BY DEF DiskTypeOK, Request
  <2>4. \A v \in Units : Entering(v)' = Entering(v) /\ Cardinality(Entering(v)) \in Nat
    BY <2>1, EnteringFinite DEF Entering
  <2> QED BY <2>1, <2>2, <2>3, <2>4
<1>1. \A v \in Units : Len(queue[v]) = ready[v] + (IF driver[v].pc = "take" THEN 1 ELSE 0)
                                       + Cardinality(Entering(v))
  BY DEF ReadyCountsQueue, Entering
<1>2. ASSUME \A v \in Units : Len(queue'[v]) = ready'[v] + (IF driver'[v].pc = "take" THEN 1 ELSE 0)
                                       + Cardinality(Entering(v))
      PROVE  ReadyCountsQueue'
  BY <1>0, <1>2 DEF ReadyCountsQueue, Entering
<1>3. CASE Take(u)
  <2>1. queue[u] # << >>
    <3>1. driver[u].pc = "take" /\ ready[u] \in Nat
      BY <1>3 DEF Take, DiskTypeOK
    <3>2. PICK n \in Nat : n = Cardinality(Entering(u))
      BY <1>0
    <3>3. Len(queue[u]) = ready[u] + 1 + n
      BY <1>1, <3>1, <3>2
    <3> QED BY <3>1, <3>2, <3>3
  <2>2. PICK h \in Infos : h = Head(queue[u])
    BY <1>3, <2>1, TakeSame
  <2>3. /\ Working(u)' /\ driver'[u].cur = h /\ queue'[u] = Tail(queue[u])
        /\ UNCHANGED << ready, sem >>
    BY <1>3, <2>1, <2>2, TakeSame
  <2>4. Entries(queue'[u]) = Entries(queue[u]) \ {h} /\ Len(queue'[u]) = Len(queue[u]) - 1
    BY <2>1, <2>2, <2>3, EntriesInfos, TailEntries DEF OnePlace
  <2>5. ReadyCountsQueue'
    <3>1. driver[u].pc = "take" /\ driver'[u].pc # "take" /\ Len(queue[u]) \in Nat /\ ready[u] \in Nat
      BY <1>3, <2>3, EntriesInfos, LenProperties DEF Take, Working, DiskTypeOK
    <3>2. PICK n \in Nat : n = Cardinality(Entering(u))
      BY <1>0
    <3>3. Len(queue[u]) = ready[u] + 1 + n
      BY <1>1, <3>1, <3>2
    <3>4. Len(queue'[u]) = ready'[u] + (IF driver'[u].pc = "take" THEN 1 ELSE 0)
                           + Cardinality(Entering(u))
      BY <2>3, <2>4, <3>1, <3>2, <3>3
    <3> QED BY <1>0, <1>1, <1>2, <3>4
  <2>6. Placed'
    <3> SUFFICES ASSUME NEW j \in Infos, Away(j)'
                 PROVE  \/ sem'[j] = 1
                        \/ j \in Entries(queue'[info'[j].unit])
                        \/ Working(info[j].unit)' /\ driver'[info'[j].unit].cur = j
      BY DEF Placed
    <3>1. Away(j) /\ ~Working(u)
      BY <1>0, <1>3, TakeSame DEF Away
    <3>2. CASE info[j].unit = u
      BY <1>0, <2>3, <2>4, <3>1, <3>2 DEF Placed
    <3>3. CASE info[j].unit # u
      BY <1>0, <2>3, <3>1, <3>3 DEF Placed, Working
    <3> QED BY <3>2, <3>3
  <2> QED BY <2>1, <2>5, <2>6
<1>4. CASE ~Take(u)
  <2>1. queue' = queue /\ \A v \in Units : Len(queue'[v]) = Len(queue[v])
    BY <1>4, DriverSame, AnswerSame
  <2>2. ReadyCountsQueue'
    <3>1. Len(queue'[u]) = ready'[u] + (IF driver'[u].pc = "take" THEN 1 ELSE 0)
                           + Cardinality(Entering(u))
      BY <1>1, <1>4, <2>1, DriverReady
    <3> QED BY <1>0, <1>1, <1>2, <2>1, <3>1
  <2>3. \A i \in Infos : sem[i] = 1 => sem'[i] = 1
    BY <1>4, DriverSame, AnswerSame
  <2>4. Working(u) => \/ sem'[driver[u].cur] = 1
                      \/ Working(u)' /\ driver'[u].cur = driver[u].cur
    BY <1>4, DriverSame, AnswerSame DEF GoOn, Working
  <2>5. Placed'
    <3> SUFFICES ASSUME NEW j \in Infos, Away(j)'
                 PROVE  \/ sem'[j] = 1
                        \/ j \in Entries(queue'[info'[j].unit])
                        \/ Working(info[j].unit)' /\ driver'[info'[j].unit].cur = j
      BY DEF Placed
    <3>1. Away(j)
      BY <1>0 DEF Away
    <3>2. CASE info[j].unit = u
      BY <1>0, <2>1, <2>3, <2>4, <3>1, <3>2 DEF Placed
    <3>3. CASE info[j].unit # u
      BY <1>0, <2>1, <2>3, <3>1, <3>3 DEF Placed, Working
    <3> QED BY <3>2, <3>3
  <2> QED BY <1>4, <2>2, <2>5
<1> QED BY <1>3, <1>4

LEMMA NobodyAway ==
  ASSUME DiskTypeOK, OnePlace, \A i \in Infos : ~Away(i), NEW u \in Units
  PROVE  queue[u] = << >>
<1>1. Entries(queue[u]) = {} /\ queue[u] \in Seq(Infos)
  BY EntriesInfos DEF OnePlace
<1>2. Len(queue[u]) \in Nat /\ (Len(queue[u]) = 0 \/ 1 \in 1 .. Len(queue[u]))
  BY <1>1, LenProperties
<1>3. Len(queue[u]) = 0
  BY <1>1, <1>2 DEF Entries
<1> QED BY <1>1, <1>3, EmptySeq

LEMMA BossCounted ==
  ASSUME DiskTypeOK, OnePlace, Phases, Placed, ReadyCountsQueue, Undisturbed,
         FreeAllRequestQueue \/ AwaitAnswer \/ AssertEmpty \/ Join
  PROVE  Placed' /\ ReadyCountsQueue'
<1>1. CASE FreeAllRequestQueue
  <2>1. \A i \in Infos : ~Away(i)
    BY <1>1 DEF FreeAllRequestQueue, Phases, Undisturbed, Infos, Away
  <2>2. queue' = queue
    BY <1>1, <2>1, NobodyAway DEF FreeAllRequestQueue, DiskTypeOK
  <2>3. UNCHANGED << ready, info, at, sem, driver >>
    BY <1>1 DEF FreeAllRequestQueue, requestVars, driverVars
  <2> QED BY <2>2, <2>3 DEF Placed, ReadyCountsQueue, Away, Working
<1>2. CASE AwaitAnswer
  <2>1. /\ at[turn] = "waiting" /\ at'[turn] = "heard" /\ turn \in Infos
        /\ UNCHANGED << queue, ready, driver, info >>
        /\ \A j \in Infos : j # turn => at'[j] = at[j] /\ sem'[j] = sem[j]
    BY <1>2, Infos0 DEF AwaitAnswer, Answered, driverVars, DiskTypeOK
  <2> QED BY <2>1, ReturnedCounted
<1>3. CASE AssertEmpty
  <2>1. UNCHANGED << at, info, sem, driver, queue, ready >>
    BY <1>3 DEF AssertEmpty, requestVars, driverVars
  <2> QED BY <2>1 DEF Placed, ReadyCountsQueue, Away, Working
<1>4. CASE Join
  <2>1. UNCHANGED << info, sem, driver, queue, ready >>
    BY <1>4 DEF Join, driverVars
  <2>2. \A i \in Infos : /\ Away(i) <=> Away(i)'
                         /\ at[i] = "inserted" <=> at'[i] = "inserted"
    <3>1. \A i \in Infos : at'[i] # at[i] => at[i] = "heard" /\ at'[i] = "returned"
      BY <1>4 DEF Join, Phases, DiskTypeOK
    <3> QED BY <3>1 DEF Away
  <2> QED BY <2>1, <2>2 DEF Placed, ReadyCountsQueue, Working
<1> QED BY <1>1, <1>2, <1>3, <1>4

-----------------------------------------------------------------------------
(* Places on a disk, counted in sectors *)
LEMMA NextTrackPlace ==
  ASSUME NEW a \in Nat, NEW b \in Nat PROVE (a + 1) * b = a * b + b /\ a * b \in Nat
OBVIOUS

LEMMA TracksOrder ==
  ASSUME NEW a \in Nat, NEW b \in Nat, NEW n \in Nat, a >= b
  PROVE  a * n >= b * n
<1>1. PICK k \in Nat : a = b + k
  <2>1. a - b \in Nat /\ a = b + (a - b)
    OBVIOUS
  <2> QED BY <2>1
<1>2. a * n = b * n + k * n /\ k * n \in Nat /\ b * n \in Nat
  BY <1>1
<1> QED BY <1>2

LEMMA ValidFits ==
  ASSUME DiskTypeOK, NEW r \in Transfers, Valid(r) PROVE Fits(r)
<1>1. /\ r.unit \in Units /\ r.track \in Nat /\ r.first \in Nat
      /\ r.sectors \in Nat \ {0} /\ r.op = "transfer"
  <2>1. PICK u \in Units, k \in 0 .. Tracks, f \in 0 .. TrackSize, n \in Counts :
          r = [op |-> "transfer", unit |-> u, track |-> k, first |-> f, sectors |-> n]
    BY DEF Transfers
  <2> QED BY <2>1, DiskAssumption
<1>2. diskSize[r.unit] = Tracks /\ r.first < TrackSize /\ r.track < Tracks
  <2>1. diskSize[r.unit] \in {-1, 0, Tracks}
    BY <1>1 DEF DiskTypeOK
  <2> QED BY <1>1, <2>1, DiskAssumption DEF Valid
<1>3. r.sectors <= TrackSize * (Tracks - r.track - 1) + TrackSize - r.first
  BY <1>2 DEF Valid
<1>4. TrackSize \in Nat /\ Tracks \in Nat
  BY DiskAssumption
<1> DEFINE k == r.track
           rest == Tracks - r.track - 1
<1>5. /\ k \in Nat /\ rest \in Nat /\ Tracks = k + 1 + rest
  BY <1>1, <1>2, <1>4
<1> HIDE DEF k, rest
<1>6. /\ Tracks * TrackSize = k * TrackSize + TrackSize + TrackSize * rest
      /\ k * TrackSize \in Nat /\ TrackSize * rest \in Nat
  BY <1>4, <1>5
<1>7. r.sectors <= TrackSize * rest + TrackSize - r.first
  BY <1>3 DEF rest
<1> QED BY <1>1, <1>2, <1>4, <1>6, <1>7 DEF Fits, k

(* Nothing changes for a driver whose request stays as it is. *)
LEMMA ProgressFrame ==
  ASSUME NEW u \in Units, Progress(u),
         driver'[u] = driver[u], moved'[u] = moved[u], arm'[u] = arm[u],
         aborted'[u] = "no" => aborted[u] = "no",
         Working(u) => info'[driver[u].cur] = info[driver[u].cur]
  PROVE  Progress(u)'
<1>1. CASE Working(u)
  BY <1>1 DEF Progress, Consecutive
<1>2. CASE ~Working(u)
  BY <1>2 DEF Progress, Working
<1> QED BY <1>1, <1>2

LEMMA InsertProgress ==
  ASSUME DiskTypeOK, OnePlace, AllFit, \A u \in Units : Progress(u),
         NEW i \in Infos, NEW r \in Request, Insert(i, r), r.op = "transfer" => Fits(r)
  PROVE  AllFit' /\ \A u \in Units : Progress(u)'
<1>1. \A j \in Infos : info'[j] = IF j = i THEN r ELSE info[j]
  BY DEF Insert, DiskTypeOK
<1>2. AllFit'
  BY <1>1 DEF AllFit, Fits
<1>3. \A u \in Units : Working(u) => driver[u].cur # i /\ driver[u].cur \in Infos
  BY InsertPlace, DriverFields
<1>4. UNCHANGED driverVars
  BY DEF Insert
<1> QED BY <1>1, <1>2, <1>3, <1>4, ProgressFrame DEF driverVars

LEMMA ReturnedProgress ==
  ASSUME DiskTypeOK, OnePlace, AllFit, \A u \in Units : Progress(u),
         NEW i \in Infos, Returned(i)
  PROVE  AllFit' /\ \A u \in Units : Progress(u)'
<1>1. \A j \in Infos : info'[j] = IF j = i THEN Plain("tracks", 0) ELSE info[j]
  BY DEF Returned, DiskTypeOK
<1>2. AllFit'
  BY <1>1 DEF AllFit, Fits, Plain
<1>3. \A u \in Units : Working(u) => driver[u].cur # i /\ driver[u].cur \in Infos
  BY AnsweredFree, DriverFields DEF Returned, Answered
<1>4. UNCHANGED driverVars
  BY DEF Returned
<1> QED BY <1>1, <1>2, <1>3, <1>4, ProgressFrame DEF driverVars

LEMMA ConsecutiveAppend ==
  ASSUME NEW r, NEW n \in Nat
  PROVE  Append(Consecutive(r, n), r.track * TrackSize + r.first + n) = Consecutive(r, n + 1)
<1> DEFINE f(k) == r.track * TrackSize + r.first + k - 1
<1>0. f(n + 1) = r.track * TrackSize + r.first + n
  OBVIOUS
<1> HIDE DEF f
<1>1. Consecutive(r, n) = [k \in 1 .. n |-> f(k)] /\ Consecutive(r, n + 1) = [k \in 1 .. n + 1 |-> f(k)]
  BY DEF Consecutive, f
<1>2. Append([k \in 1 .. n |-> f(k)], f(n + 1)) = [k \in 1 .. n + 1 |-> f(k)]
  OBVIOUS
<1> QED BY <1>0, <1>1, <1>2

(* A driver that takes a request begins where the request does. *)
LEMMA TakeProgress ==
  ASSUME DiskTypeOK, OnePlace, AllFit, NEW u \in Units, Progress(u), Take(u)
  PROVE  Progress(u)'
<1>1. CASE queue[u] = << >>
  BY <1>1, TakeSame DEF Progress
<1>2. CASE queue[u] # << >>
  <2>1. PICK h \in Infos : h = Head(queue[u])
    BY <1>2, TakeSame
  <2>2. /\ Working(u)' /\ driver'[u].cur = h /\ driver'[u].track = info[h].track
        /\ driver'[u].sector = info[h].first /\ driver'[u].i = 0
        /\ driver'[u].rc = "error" /\ UNCHANGED << arm, moved, info >>
        /\ info[h].op = "transfer" => driver'[u].pc = "seek"
        /\ info[h].op = "tracks" => driver'[u].pc = "tracks"
        /\ info[h].op = "abort" => driver'[u].pc = "answer"
    BY <1>2, <2>1, TakeSame, DriverKeeps DEF DriverStep
  <2>3. /\ info[h].op \in {"transfer", "tracks", "abort"}
        /\ info[h].track \in Nat /\ info[h].first \in Nat /\ info[h].sectors \in Nat
        /\ info[h].op = "transfer" => info[h].sectors > 0 /\ info[h].first <= TrackSize
    <3>1. info[h] \in Request /\ (info[h].op = "transfer" => Fits(info[h]))
      BY DEF DiskTypeOK, AllFit
    <3> QED BY <3>1, DiskAssumption DEF Request, Fits
  <2>4. moved'[u] = << >> /\ moved'[u] = Consecutive(info[h], 0)
    BY <2>2 DEF Take, Progress, Consecutive
  <2>5. CASE info[h].op = "transfer"
    <3>1. info[h].track * TrackSize \in Nat
      BY <2>3, DiskAssumption
    <3> QED BY <2>2, <2>3, <2>4, <2>5, <3>1 DEF Progress
  <2>6. CASE info[h].op # "transfer"
    BY <2>2, <2>3, <2>4, <2>6 DEF Progress
  <2> QED BY <2>5, <2>6
<1> QED BY <1>1, <1>2

LEMMA SectorProgress ==
  ASSUME DiskTypeOK, AllFit, NEW u \in Units, Progress(u), NextSector(u)
  PROVE  Progress(u)'
<1> DEFINE d == driver[u]
<1>1. /\ d.cur \in Infos /\ d.pc = "sector" /\ d.track \in Nat /\ d.sector \in Nat /\ d.i \in Nat
      /\ driver'[u].cur = d.cur /\ UNCHANGED << info, arm >>
      /\ TrackSize \in Nat /\ (aborted[u] = "no" => arm[u] = d.track)
      /\ aborted'[u] = "no" => aborted[u] = "no"
  BY DriverFields, NextSectorCases, DriverKeeps, DiskAssumption
     DEF NextSector, DriverStep, Progress, requestVars
<1>2. PICK r \in Request : r = info[d.cur]
  BY <1>1 DEF DiskTypeOK
<1>3. r.track \in Nat /\ r.first \in Nat /\ r.sectors \in Nat /\ r.track * TrackSize \in Nat
  BY <1>1 DEF Request
<1>4. /\ r.op = "transfer" /\ d.i <= r.sectors /\ d.sector <= TrackSize
      /\ d.track * TrackSize + d.sector = r.track * TrackSize + r.first + d.i
      /\ aborted[u] = "no" => moved[u] = Consecutive(r, d.i)
  BY <1>1, <1>2 DEF Progress
<1>5. (d.track + 1) * TrackSize = d.track * TrackSize + TrackSize /\ d.track * TrackSize \in Nat
  BY <1>1, NextTrackPlace
<1>6. info'[driver'[u].cur] = r
  BY <1>1, <1>2
<1> DEFINE e == driver'[u]
<1> HIDE DEF d, e
<1>7. \/ /\ d.i < r.sectors /\ d.sector >= TrackSize
         /\ e.pc = "seek" /\ e.track = d.track + 1 /\ e.sector = 0 /\ e.i = d.i
         /\ moved' = moved
      \/ /\ d.i < r.sectors /\ d.sector < TrackSize
         /\ e.pc = "sector" /\ e.track = d.track /\ e.sector = d.sector + 1
         /\ e.i = d.i + 1
         /\ aborted'[u] = "no" => moved'[u] = Append(moved[u], arm[u] * TrackSize + d.sector)
      \/ e.pc = "answer" /\ e.rc = "error"
      \/ d.i >= r.sectors /\ e.pc = "answer" /\ moved' = moved
  BY <1>2, NextSectorCases DEF d, e
<1>8. ASSUME \/ /\ e.pc \in {"seek", "sector"} /\ e.i <= r.sectors /\ e.sector <= TrackSize
                /\ e.track * TrackSize + e.sector = r.track * TrackSize + r.first + e.i
                /\ aborted'[u] = "no" => moved'[u] = Consecutive(r, e.i)
                /\ e.pc = "seek" => e.i < r.sectors
                /\ e.pc = "sector" /\ aborted'[u] = "no" => arm'[u] = e.track
             \/ e.pc = "answer" /\ e.rc = "error"
             \/ e.pc = "answer" /\ (aborted'[u] = "no" => moved'[u] = Consecutive(r, r.sectors))
      PROVE  Progress(u)'
  BY <1>4, <1>6, <1>8 DEF Progress, Consecutive, e
<1>9. CASE /\ d.i < r.sectors /\ d.sector >= TrackSize
           /\ e.pc = "seek" /\ e.track = d.track + 1 /\ e.sector = 0 /\ e.i = d.i
           /\ moved' = moved
  <2>1. d.sector = TrackSize /\ e.track * TrackSize = d.track * TrackSize + TrackSize
    BY <1>1, <1>4, <1>5, <1>9
  <2>2. e.track * TrackSize + e.sector = r.track * TrackSize + r.first + e.i
    BY <1>1, <1>3, <1>4, <1>5, <1>9, <2>1
  <2> QED BY <1>1, <1>3, <1>4, <1>8, <1>9, <2>2
<1>10. CASE /\ d.i < r.sectors /\ d.sector < TrackSize
            /\ e.pc = "sector" /\ e.track = d.track /\ e.sector = d.sector + 1
            /\ e.i = d.i + 1
            /\ aborted'[u] = "no" => moved'[u] = Append(moved[u], arm[u] * TrackSize + d.sector)
  <2>1. e.track * TrackSize + e.sector = r.track * TrackSize + r.first + e.i
    <3>1. PICK m \in Nat, n \in Nat : m = d.track * TrackSize /\ n = r.track * TrackSize
      BY <1>3, <1>5
    <3>2. m + d.sector = n + r.first + d.i
      BY <1>4, <3>1
    <3>3. e.sector = d.sector + 1 /\ e.i = d.i + 1 /\ d.sector \in Nat /\ d.i \in Nat
      BY <1>1, <1>10
    <3>4. m + e.sector = n + r.first + e.i
      BY <1>3, <3>2, <3>3
    <3> QED BY <1>10, <3>1, <3>4
  <2>2. ASSUME aborted'[u] = "no" PROVE moved'[u] = Consecutive(r, e.i)
    <3>1. arm[u] * TrackSize + d.sector = r.track * TrackSize + r.first + d.i
      BY <1>1, <1>4, <2>2
    <3> QED BY <1>1, <1>4, <1>10, <2>2, <3>1, ConsecutiveAppend
  <2>3. e.i <= r.sectors /\ e.sector <= TrackSize
    <3>1. PICK i \in Nat, k \in Nat, m \in Nat, n \in Nat :
            i = d.i /\ k = d.sector /\ m = r.sectors /\ n = TrackSize
      BY <1>1, <1>3
    <3>2. i < m /\ k < n /\ e.i = i + 1 /\ e.sector = k + 1
      BY <1>10, <3>1
    <3> QED BY <3>1, <3>2
  <2>4. aborted'[u] = "no" => arm'[u] = e.track
    BY <1>1, <1>10
  <2> QED BY <1>8, <1>10, <2>1, <2>2, <2>3, <2>4
<1>11. CASE d.i >= r.sectors /\ e.pc = "answer" /\ moved' = moved
  <2>1. d.i = r.sectors
    <3>1. d.i \in Nat /\ r.sectors \in Nat /\ d.i <= r.sectors /\ d.i >= r.sectors
      BY <1>1, <1>3, <1>4, <1>11
    <3> QED BY <3>1
  <2>2. aborted'[u] = "no" => moved'[u] = Consecutive(r, r.sectors)
    BY <1>1, <1>4, <1>11, <2>1
  <2> QED BY <1>8, <1>11, <2>2
<1>12. CASE e.pc = "answer" /\ e.rc = "error"
  BY <1>8, <1>12
<1> QED BY <1>7, <1>9, <1>10, <1>11, <1>12

LEMMA DriverProgress ==
  ASSUME DiskTypeOK, OnePlace, AllFit, NEW u \in Units, Progress(u), DriverStep(u)
  PROVE  Progress(u)'
<1> DEFINE d == driver[u]  e == driver'[u]
<1>0. UNCHANGED info /\ d.cur \in Infos /\ info[d.cur].op \in {"transfer", "tracks", "abort"}
  BY DriverKeeps, DriverFields DEF DiskTypeOK, Request
<1>1. CASE RemoveWait(u)
  <2>1. d.pc = "remove" /\ e.pc = "take" /\ moved' = moved
    BY <1>1, DriverFields DEF RemoveWait, DriverType
  <2> QED BY <2>1 DEF Progress
<1>2. CASE Seek(u)
  <2>1. d.pc = "seek" /\ moved' = moved /\ e.cur = d.cur
    BY <1>2, DriverFields DEF Seek, Fail, DriverType
  <2>2. PICK worked \in BOOLEAN :
          /\ arm' = IF worked THEN [arm EXCEPT ![u] = d.track] ELSE arm
          /\ IF Success(u, worked) THEN driver' = [driver EXCEPT ![u].pc = "sector"] ELSE Fail(u)
    BY <1>2 DEF Seek
  <2>3. /\ aborted'[u] = "no" => aborted[u] = "no"
        /\ Success(u, worked) /\ aborted'[u] = "no" => worked
    BY <1>2, WaitAborted DEF Seek
  <2>4. CASE Success(u, worked)
    <3>1. e.pc = "sector" /\ e.track = d.track /\ e.sector = d.sector /\ e.i = d.i
      BY <2>2, <2>4, DriverFields DEF DriverType
    <3>2. aborted'[u] = "no" => arm'[u] = d.track
      BY <2>2, <2>3, <2>4 DEF DiskTypeOK
    <3> QED BY <1>0, <2>1, <2>3, <3>1, <3>2 DEF Progress, Consecutive
  <2>5. CASE ~Success(u, worked)
    <3>1. e.pc = "answer" /\ e.rc = "error"
      BY <2>2, <2>5, DriverFields DEF Fail, DriverType
    <3> QED BY <3>1 DEF Progress
  <2> QED BY <2>4, <2>5
<1>3. CASE AskTracks(u)
  <2>1. d.pc = "tracks" /\ e.pc = "answer" /\ e.cur = d.cur
    BY <1>3, DriverFields DEF AskTracks, DriverType
  <2> QED BY <1>0, <2>1 DEF Progress
<1>4. CASE Answer(u)
  <2>1. e.pc = "answered"
    BY <1>4, AnswerSame
  <2> QED BY <2>1 DEF Progress
<1>5. CASE GoOn(u)
  <2>1. e.pc \in {"quit", "remove"} /\ moved'[u] = << >>
    BY <1>5, DriverFields DEF GoOn, Between, DiskTypeOK
  <2> QED BY <2>1 DEF Progress
<1> QED
  BY <1>1, <1>2, <1>3, <1>4, <1>5, TakeProgress, SectorProgress DEF DriverStep

(* No other step changes a request or a driver. *)
LEMMA OtherProgress ==
  ASSUME AllFit, \A u \in Units : Progress(u), UNCHANGED << info, driverVars >>
  PROVE  AllFit' /\ \A u \in Units : Progress(u)'
BY ProgressFrame DEF AllFit, driverVars

(* Type correctness apart, what the parts promise follows. *)
LEMMA ProgressExact ==
  ASSUME \A u \in Units : Progress(u)
  PROVE  TransferExact
BY DEF Progress, TransferExact, OkAnswer, Exact, Consecutive

LEMMA ProgressOnDisk ==
  ASSUME DiskTypeOK, AllFit, \A u \in Units : Progress(u)
  PROVE  SeeksOnDisk
<1> SUFFICES ASSUME NEW u \in Units, driver[u].pc = "seek" PROVE driver[u].track < Tracks
  BY DEF SeeksOnDisk
<1>1. PICK r \in Request : r = info[driver[u].cur]
  BY DriverFields DEF DiskTypeOK
<1>2. /\ driver[u].track \in Nat /\ driver[u].sector \in Nat /\ driver[u].i \in Nat
      /\ r.track \in Nat /\ r.first \in Nat /\ r.sectors \in Nat
      /\ TrackSize \in Nat /\ Tracks \in Nat
  BY DriverFields, DiskAssumption DEF Request
<1>3. /\ driver[u].track * TrackSize + driver[u].sector
           = r.track * TrackSize + r.first + driver[u].i
      /\ driver[u].i < r.sectors /\ r.op = "transfer"
  BY <1>1 DEF Progress
<1>4. r.track * TrackSize + r.first + r.sectors <= Tracks * TrackSize
  BY <1>1, <1>3, DriverFields DEF AllFit, Fits
<1>5. PICK a \in Nat, b \in Nat, n \in Nat :
        a = driver[u].track * TrackSize /\ b = r.track * TrackSize /\ n = Tracks * TrackSize
  BY <1>2
<1>6. a < n
  BY <1>2, <1>3, <1>4, <1>5
<1>7. ~(driver[u].track >= Tracks)
  BY <1>2, <1>5, <1>6, TracksOrder
<1> QED BY <1>2, <1>7

-----------------------------------------------------------------------------
(* A queue without repetitions is not longer than there are requests. *)
LEMMA QueueFits ==
  ASSUME DiskTypeOK, OnePlace, NEW u \in Units
  PROVE  Len(queue[u]) \in Nat /\ Len(queue[u]) <= Cardinality(Infos)
<1> DEFINE q == queue[u]
<1>1. q \in Seq(Infos) /\ Once(q) /\ Len(q) \in Nat /\ Cardinality(Infos) \in Nat
  BY EntriesInfos, LenProperties, Infos0, FS_CardinalityType DEF OnePlace
<1> HIDE DEF q
<1>2. q \in [1 .. Len(q) -> Infos]
  BY <1>1, SeqDef
<1>3. IsFiniteSet(1 .. Len(q)) /\ Cardinality(1 .. Len(q)) = Len(q)
  <2>1. ASSUME NEW n \in Nat PROVE IsFiniteSet(1 .. n) /\ Cardinality(1 .. n) = n
    <3>1. IsFiniteSet(1 .. n) /\ Cardinality(1 .. n) = IF 1 > n THEN 0 ELSE n - 1 + 1
      BY FS_Interval
    <3> QED BY <3>1
  <2> QED BY <1>1, <2>1
<1>4. ~(Cardinality(Infos) < Len(q))
  <2> SUFFICES ASSUME Cardinality(Infos) < Len(q) PROVE FALSE
    OBVIOUS
  <2>1. \E x \in 1 .. Len(q) : \E y \in 1 .. Len(q) : x # y /\ q[x] = q[y]
    BY <1>2, <1>3, Infos0, FS_PigeonHole
  <2> QED BY <1>1, <2>1 DEF Once
<1> QED BY <1>1, <1>4 DEF q

LEMMA QueuedSize ==
  ASSUME DiskTypeOK, OnePlace, NEW i \in Infos
  PROVE  Cardinality(Queued(i)) = IF \E u \in Units : i \in Entries(queue[u]) THEN 1 ELSE 0
<1>1. CASE \E u \in Units : i \in Entries(queue[u])
  <2>0. PICK u \in Units : i \in Entries(queue[u])
    BY <1>1
  <2>1. PICK k \in 1 .. Len(queue[u]) : queue[u][k] = i
    BY <2>0 DEF Entries
  <2>2. k \in 1 .. Cardinality(Infos)
    BY QueueFits, Infos0, FS_CardinalityType
  <2>3. << u, k >> \in Queued(i)
    BY <2>1, <2>2 DEF Queued
  <2>4. ASSUME NEW x \in Queued(i) PROVE x = << u, k >>
    <3>1. PICK v \in Units, m \in 1 .. Cardinality(Infos) : x = << v, m >>
      BY DEF Queued
    <3>2. m \in 1 .. Len(queue[v]) /\ queue[v][m] = i
      BY <3>1, QueueFits, Infos0, FS_CardinalityType DEF Queued
    <3>3. i \in Entries(queue[v]) /\ i \in Entries(queue[u])
      BY <2>1, <3>2 DEF Entries
    <3>4. v = u
      BY <3>3 DEF OnePlace
    <3> QED BY <2>1, <3>1, <3>2, <3>4 DEF OnePlace, Once
  <2>5. Queued(i) = {<< u, k >>}
    BY <2>3, <2>4
  <2> QED BY <1>1, <2>5, FS_Singleton
<1>2. CASE ~\E u \in Units : i \in Entries(queue[u])
  <2>1. ASSUME NEW x \in Queued(i) PROVE FALSE
    <3>1. PICK v \in Units, m \in 1 .. Cardinality(Infos) : x = << v, m >>
      BY DEF Queued
    <3>2. m \in 1 .. Len(queue[v]) /\ queue[v][m] = i
      BY <3>1, QueueFits, Infos0, FS_CardinalityType DEF Queued
    <3> QED BY <1>2, <3>2 DEF Entries
  <2>2. Queued(i) = {}
    BY <2>1
  <2> QED BY <1>2, <2>2, FS_EmptySet
<1> QED BY <1>1, <1>2

LEMMA ServedSize ==
  ASSUME DiskTypeOK, OnePlace, NEW i \in Infos
  PROVE  Cardinality(Served(i)) = IF \E u \in Units : Working(u) /\ driver[u].cur = i THEN 1 ELSE 0
<1>1. CASE \E u \in Units : Working(u) /\ driver[u].cur = i
  <2>1. PICK u \in Units : Working(u) /\ driver[u].cur = i
    BY <1>1
  <2>2. Served(i) = {u}
    BY <2>1 DEF Served, OnePlace
  <2> QED BY <1>1, <2>2, FS_Singleton
<1>2. CASE ~\E u \in Units : Working(u) /\ driver[u].cur = i
  <2>1. Served(i) = {}
    BY <1>2 DEF Served
  <2> QED BY <1>2, <2>1, FS_EmptySet
<1> QED BY <1>1, <1>2

(* Where request i is: never in two places, whether it comes late or not. *)
Places(i) == Cardinality(Queued(i)) + Cardinality(Served(i)) + sem[i]

NeverTwice == \A i \in Infos : Places(i) <= IF Away(i) THEN 1 ELSE 0

LEMMA PlacesAtMost ==
  ASSUME DiskTypeOK, OnePlace
  PROVE  NeverTwice
<1> SUFFICES ASSUME NEW i \in Infos
             PROVE  Places(i) <= IF Away(i) THEN 1 ELSE 0
  BY DEF NeverTwice
<1> DEFINE inQueue == \E u \in Units : i \in Entries(queue[u])
           inHand == \E u \in Units : Working(u) /\ driver[u].cur = i
<1>1. sem[i] \in {0, 1}
  BY DEF DiskTypeOK
<1>2. /\ ~(inQueue /\ inHand)
      /\ inQueue => Away(i) /\ sem[i] = 0
      /\ inHand => Away(i) /\ sem[i] = 0
      /\ sem[i] = 1 => Away(i)
  BY DEF OnePlace
<1>3. /\ Cardinality(Queued(i)) = IF inQueue THEN 1 ELSE 0
      /\ Cardinality(Served(i)) = IF inHand THEN 1 ELSE 0
  BY QueuedSize, ServedSize
<1> HIDE DEF inQueue, inHand
<1> QED BY <1>1, <1>2, <1>3 DEF Places

LEMMA PlacesExact ==
  ASSUME DiskTypeOK, OnePlace, Placed
  PROVE  RequestInOnePlace
<1> SUFFICES ASSUME NEW i \in Infos
             PROVE  Cardinality(Queued(i)) + Cardinality(Served(i)) + sem[i]
                      = IF Away(i) THEN 1 ELSE 0
  BY DEF RequestInOnePlace, Away
<1> DEFINE inQueue == \E u \in Units : i \in Entries(queue[u])
           inHand == \E u \in Units : Working(u) /\ driver[u].cur = i
<1>1. sem[i] \in {0, 1} /\ info[i].unit \in Units
  BY DEF DiskTypeOK, Request
<1>2. /\ ~(inQueue /\ inHand)
      /\ inQueue => Away(i) /\ sem[i] = 0
      /\ inHand => Away(i) /\ sem[i] = 0
      /\ sem[i] = 1 => Away(i)
  BY DEF OnePlace
<1>3. Away(i) => inQueue \/ inHand \/ sem[i] = 1
  BY <1>1 DEF Placed
<1>4. /\ Cardinality(Queued(i)) = IF inQueue THEN 1 ELSE 0
      /\ Cardinality(Served(i)) = IF inHand THEN 1 ELSE 0
  BY QueuedSize, ServedSize
<1> HIDE DEF inQueue, inHand
<1> QED BY <1>1, <1>2, <1>3, <1>4

-----------------------------------------------------------------------------
Core == OnePlace /\ AllFit /\ \A u \in Units : Progress(u)

LEMMA InsertCore ==
  ASSUME DiskTypeOK, Core, NEW i \in Infos, NEW r \in Request, Insert(i, r),
         r.op = "transfer" => Fits(r)
  PROVE  Core'
BY InsertPlace, InsertProgress DEF Core

LEMMA SignalCore ==
  ASSUME DiskTypeOK, Core, NEW i \in Infos, SignalReady(i)
  PROVE  Core'
BY SignalPlace, OtherProgress DEF Core, SignalReady

LEMMA ReturnedCore ==
  ASSUME DiskTypeOK, Core, NEW i \in Infos, Returned(i)
  PROVE  Core'
<1>1. /\ sem[i] = 1 /\ sem' = [sem EXCEPT ![i] = 0] /\ UNCHANGED << queue, driver >>
      /\ \A j \in Infos : j # i => at'[j] = at[j] /\ info'[j] = info[j]
  BY DEF Returned, Answered, driverVars, DiskTypeOK
<1> QED BY <1>1, ReturnedPlace, ReturnedProgress DEF Core

LEMMA DriverCore ==
  ASSUME DiskTypeOK, Core, NEW u \in Units, DriverStep(u)
  PROVE  Core'
<1>1. Progress(u)'
  BY DriverProgress DEF Core
<1>2. ASSUME NEW v \in Units, v # u PROVE Progress(v)'
  BY <1>2, DriverElse, DriverKeeps, ProgressFrame DEF Core
<1>3. AllFit'
  BY DriverKeeps DEF Core, AllFit
<1> QED BY <1>1, <1>2, <1>3, DriverPlace DEF Core

LEMMA PlainUnit ==
  ASSUME NEW op \in {"tracks", "abort"}, NEW u \in Units
  PROVE  Plain(op, u) \in Request /\ Plain(op, u).op = op
BY PlainType DEF Plain

LEMMA CoreNext ==
  ASSUME DiskTypeOK, Core, Phases, [DiskNext]_dskVars
  PROVE  Core'
<1> USE Infos0
<1>1. ASSUME NEW p \in Requesters, Transfer(p) PROVE Core'
  <2>1. PICK r \in Transfers : Valid(r) /\ Insert(p, r)
    BY <1>1 DEF Transfer
  <2> QED BY <2>1, InsertCore, ValidFits, TransferType
<1>2. ASSUME NEW p \in Requesters, AskSize(p) PROVE Core'
  BY <1>2, InsertCore, PlainUnit DEF AskSize
<1>3. ASSUME NEW i \in Infos, SignalReady(i) PROVE Core'
  BY <1>3, SignalCore
<1>4. ASSUME NEW p \in Requesters, Return(p) PROVE Core'
  BY <1>4, ReturnedCore DEF Return
<1>5. ASSUME NEW u \in Units, DriverStep(u) PROVE Core'
  BY <1>5, DriverCore
<1>6. CASE Shutdown \/ UNCHANGED dskVars
  <2>1. UNCHANGED << queue, requestVars, driverVars >>
    BY <1>6 DEF Shutdown, dskVars
  <2> QED BY <2>1, OtherProgress
    DEF Core, OnePlace, Away, Working, requestVars, driverVars
<1>10. CASE ClockShutdown
  <2>1. /\ UNCHANGED << queue, requestVars, driver, arm, moved >>
        /\ \A u \in Units : aborted'[u] = "no" => aborted[u] = "no"
    BY <1>10 DEF ClockShutdown
  <2>2. \A u \in Units : Progress(u)'
    BY <2>1, ProgressFrame DEF Core, requestVars
  <2> QED BY <2>1, <2>2 DEF Core, OnePlace, AllFit, Away, Working, requestVars
<1>7. CASE SizeInsert \/ AbortInsert
  <2>1. turn \in Infos /\ turn \in Units
    BY DEF DiskTypeOK
  <2> QED BY <1>7, <2>1, InsertCore, PlainUnit DEF SizeInsert, AbortInsert
<1>8. CASE SizeReturn
  <2>1. turn \in Infos
    BY DEF DiskTypeOK
  <2> QED BY <1>8, <2>1, ReturnedCore DEF SizeReturn
<1>9. CASE FreeAllRequestQueue \/ AwaitAnswer \/ AssertEmpty \/ Join
  <2>1. UNCHANGED << info, driverVars >>
    BY <1>9 DEF FreeAllRequestQueue, AwaitAnswer, AssertEmpty, Join, requestVars
  <2> QED BY <1>9, <2>1, BossPlace, OtherProgress DEF Core
<1> QED BY <1>1, <1>2, <1>3, <1>4, <1>5, <1>6, <1>7, <1>8, <1>9, <1>10 DEF DiskNext, BossStep

LEMMA PhasesNext ==
  ASSUME DiskTypeOK, Phases, [DiskNext]_dskVars
  PROVE  Phases'
<1> USE Infos0
<1>0. /\ turn \in Units /\ at \in [Infos -> {"returned", "inserted", "waiting", "heard"}]
      /\ \A p \in Requesters : p \notin Units
      /\ Units = {0, 1}
  BY DiskAssumption DEF DiskTypeOK, Units
<1>1. ASSUME NEW p \in Requesters, Transfer(p) \/ AskSize(p) \/ Return(p) PROVE Phases'
  <2>1. UNCHANGED bossVars /\ \A u \in Units : at'[u] = at[u]
    BY <1>0, <1>1 DEF Transfer, AskSize, Return, Insert, Returned
  <2> QED BY <2>1 DEF Phases, bossVars
<1>2. ASSUME NEW i \in Infos, SignalReady(i) PROVE Phases'
  <2>1. /\ UNCHANGED bossVars /\ at[i] = "inserted"
        /\ \A u \in Units : u # i => at'[u] = at[u]
    BY <1>0, <1>2 DEF SignalReady
  <2>2. CASE i \in Units
    BY <2>1, <2>2 DEF Phases, bossVars
  <2>3. CASE i \notin Units
    BY <2>1, <2>3 DEF Phases, bossVars
  <2> QED BY <2>2, <2>3
<1>3. ASSUME NEW u \in Units, DriverStep(u) PROVE Phases'
  BY <1>3, DriverKeeps DEF Phases, bossVars
<1>4. CASE Shutdown \/ ClockShutdown
  BY <1>4 DEF Shutdown, ClockShutdown, requestVars, Phases
<1>5. CASE UNCHANGED dskVars
  BY <1>5 DEF dskVars, requestVars, bossVars, Phases
<1>6. CASE SizeInsert
  BY <1>0, <1>6 DEF SizeInsert, Insert, bossVars, Phases
<1>7. CASE SizeReturn
  BY <1>0, <1>7 DEF SizeReturn, Returned, Turn, Phases
<1>8. CASE FreeAllRequestQueue
  BY <1>0, <1>8 DEF FreeAllRequestQueue, requestVars, Turn, Phases
<1>9. CASE AbortInsert
  BY <1>0, <1>9 DEF AbortInsert, Insert, Turn, Phases
<1>10. CASE AwaitAnswer
  BY <1>0, <1>10 DEF AwaitAnswer, Turn, Phases
<1>11. CASE AssertEmpty
  BY <1>0, <1>11 DEF AssertEmpty, requestVars, Phases
<1>12. CASE Join
  <2>1. \A u \in Units : at'[u] = at[u] \/ (turn = 1 /\ boss' = "done")
    BY <1>0, <1>12 DEF Join, Turn
  <2> QED BY <1>0, <1>12, <2>1 DEF Join, Turn, Phases
<1> QED BY <1>1, <1>2, <1>3, <1>4, <1>5, <1>6, <1>7, <1>8, <1>9, <1>10, <1>11, <1>12
  DEF DiskNext, BossStep

-----------------------------------------------------------------------------
Counted == Placed /\ ReadyCountsQueue

LEMMA CountsNext ==
  ASSUME DiskTypeOK, Core, Phases, Counted, Undisturbed, [DiskNext]_dskVars
  PROVE  Counted'
<1> USE Infos0 DEF Core, Counted
<1>1. ASSUME NEW i \in Infos, NEW r \in Request, Insert(i, r) PROVE Counted'
  BY <1>1, InsertCounted
<1>2. ASSUME NEW i \in Infos, Returned(i) PROVE Counted'
  <2>1. /\ at[i] = "waiting" /\ at'[i] = "returned" /\ UNCHANGED << queue, ready, driver >>
        /\ \A j \in Infos : j # i => at'[j] = at[j] /\ info'[j] = info[j] /\ sem'[j] = sem[j]
    BY <1>2 DEF Returned, Answered, driverVars, DiskTypeOK
  <2> QED BY <2>1, ReturnedCounted
<1>3. ASSUME NEW p \in Requesters, Transfer(p) PROVE Counted'
  BY <1>1, <1>3, TransferType DEF Transfer
<1>4. ASSUME NEW p \in Requesters, AskSize(p) PROVE Counted'
  BY <1>1, <1>4, PlainUnit DEF AskSize
<1>5. ASSUME NEW i \in Infos, SignalReady(i) PROVE Counted'
  BY <1>5, SignalCounted
<1>6. ASSUME NEW p \in Requesters, Return(p) PROVE Counted'
  BY <1>2, <1>6 DEF Return
<1>7. ASSUME NEW u \in Units, DriverStep(u) PROVE Counted'
  BY <1>7, DriverCounted
<1>8. CASE Shutdown \/ ClockShutdown \/ UNCHANGED dskVars
  <2>1. UNCHANGED << queue, ready, requestVars, driver >>
    BY <1>8 DEF Shutdown, ClockShutdown, dskVars, driverVars
  <2> QED BY <2>1
    DEF Placed, ReadyCountsQueue, Away, Working, requestVars
<1>9. CASE SizeInsert \/ AbortInsert
  <2>1. turn \in Infos /\ turn \in Units
    BY DEF DiskTypeOK
  <2> QED BY <1>1, <1>9, <2>1, PlainUnit DEF SizeInsert, AbortInsert
<1>10. CASE SizeReturn
  <2>1. turn \in Infos
    BY DEF DiskTypeOK
  <2> QED BY <1>2, <1>10, <2>1 DEF SizeReturn
<1>11. CASE FreeAllRequestQueue \/ AwaitAnswer \/ AssertEmpty \/ Join
  BY <1>11, BossCounted
<1> QED BY <1>3, <1>4, <1>5, <1>6, <1>7, <1>8, <1>9, <1>10, <1>11 DEF DiskNext, BossStep

(* At the assertions of P2DiskShutdown nobody waits, so no queue has a     *)
(* request. *)
LEMMA UndisturbedNext ==
  ASSUME ~Late, DiskTypeOK, OnePlace, Phases, Undisturbed, [DiskNext]_dskVars
  PROVE  Undisturbed'
<1> USE Infos0
<1>0. /\ turn \in Units
      /\ \A p \in Requesters : p \notin Units
      /\ at \in [Infos -> {"returned", "inserted", "waiting", "heard"}]
  BY DiskAssumption DEF DiskTypeOK
<1>1. ASSUME NEW p \in Requesters, Transfer(p) \/ AskSize(p) PROVE Undisturbed'
  BY <1>1 DEF Transfer, AskSize, Open, Undisturbed, bossVars
<1>2. ASSUME NEW p \in Requesters, Return(p) PROVE Undisturbed'
  <2>1. UNCHANGED bossVars /\ \A q \in Requesters : at'[q] = at[q] \/ at'[q] = "returned"
    BY <1>0, <1>2 DEF Return, Returned
  <2> QED BY <2>1 DEF Undisturbed, bossVars
<1>3. ASSUME NEW i \in Infos, SignalReady(i) PROVE Undisturbed'
  <2>1. /\ UNCHANGED bossVars /\ at[i] = "inserted"
        /\ \A q \in Requesters : q # i => at'[q] = at[q]
    BY <1>0, <1>3 DEF SignalReady
  <2> QED BY <2>1 DEF Undisturbed, bossVars
<1>4. ASSUME NEW u \in Units, DriverStep(u) PROVE Undisturbed'
  BY <1>4, DriverKeeps DEF Undisturbed, bossVars
<1>5. CASE Shutdown \/ ClockShutdown
  BY <1>5 DEF Shutdown, ClockShutdown, requestVars, Undisturbed
<1>6. CASE UNCHANGED dskVars
  BY <1>6 DEF dskVars, requestVars, bossVars, Undisturbed
<1>7. CASE SizeInsert \/ SizeReturn
  BY <1>7 DEF SizeInsert, SizeReturn, Turn, bossVars, Undisturbed
<1>8. CASE FreeAllRequestQueue
  BY <1>8 DEF FreeAllRequestQueue, Turn, requestVars, Undisturbed
<1>9. CASE AbortInsert \/ AwaitAnswer
  <2>1. boss \in {"abort", "await"} /\ boss' \notin {"size", "run", "closing", "failed"}
    BY <1>9 DEF AbortInsert, AwaitAnswer, Turn
  <2>2. \A p \in Requesters : at'[p] = at[p]
    BY <1>0, <1>9 DEF AbortInsert, Insert, AwaitAnswer
  <2> QED BY <2>1, <2>2 DEF Undisturbed
<1>10. CASE AssertEmpty
  <2>1. boss = "empty" /\ at' = at
    BY <1>10 DEF AssertEmpty, requestVars
  <2>2. \A i \in Infos : ~Away(i)
    BY <2>1 DEF Undisturbed, Phases, Infos, Away
  <2>3. boss' = "join"
    BY <1>10, <2>2, NobodyAway DEF AssertEmpty
  <2> QED BY <2>1, <2>3 DEF Undisturbed
<1>11. CASE Join
  <2>1. boss = "join" /\ boss' \in {"join", "done"}
    BY <1>11 DEF Join, Turn
  <2>2. \A p \in Requesters : at'[p] = at[p]
    BY <1>0, <1>11 DEF Join
  <2> QED BY <2>1, <2>2 DEF Undisturbed
<1> QED BY <1>1, <1>2, <1>3, <1>4, <1>5, <1>6, <1>7, <1>8, <1>9, <1>10, <1>11
  DEF DiskNext, BossStep

-----------------------------------------------------------------------------
LEMMA InitCounted == DiskInit => Counted
<1> SUFFICES ASSUME DiskInit PROVE Counted
  OBVIOUS
<1>1. ASSUME NEW i \in Infos PROVE at[i] = "returned"
  BY DEF DiskInit
<1>2. Placed
  BY <1>1 DEF Placed, Away
<1>3. ASSUME NEW u \in Units
      PROVE  /\ Len(queue[u]) = 0 /\ ready[u] = 0 /\ driver[u].pc # "take"
             /\ Cardinality(Entering(u)) = 0
  <2>1. Entering(u) = {}
    BY <1>1 DEF Entering
  <2>2. queue[u] = << >> /\ ready[u] = 0 /\ driver[u].pc = "remove"
    BY DEF DiskInit, Between
  <2> QED BY <2>1, <2>2, FS_EmptySet
<1> QED BY <1>2, <1>3 DEF Counted, ReadyCountsQueue, Entering

LEMMA DiskInitInv == DiskInit => DiskInv
<1> SUFFICES ASSUME DiskInit PROVE DiskInv
  OBVIOUS
<1>0. DiskTypeOK /\ Counted
  BY DiskTypeInit, InitCounted
<1>1. /\ \A u \in Units : /\ queue[u] = << >> /\ moved[u] = << >>
                          /\ driver[u] = Between("remove", u)
      /\ \A i \in Infos : /\ at[i] = "returned" /\ sem[i] = 0
                          /\ info[i] = Plain("tracks", 0)
      /\ boss = "size" /\ turn = 0
  BY DEF DiskInit
<1>2. ASSUME NEW u \in Units PROVE driver[u].pc = "remove"
  <2>1. driver[u] = Between("remove", u)
    BY <1>1
  <2> QED BY <2>1 DEF Between
<1>3. \A i \in Infos : info[i].op = "tracks"
  BY <1>1 DEF Plain
<1>4. OnePlace
  BY <1>1, <1>2, NoEntries DEF OnePlace, Working
<1>5. Phases /\ Undisturbed
  BY <1>1, Infos0 DEF Phases, Undisturbed
<1>6. AllFit
  BY <1>3 DEF AllFit
<1>7. \A u \in Units : Progress(u)
  BY <1>1, <1>2 DEF Progress
<1> QED BY <1>0, <1>4, <1>5, <1>6, <1>7 DEF DiskInv, Counted

LEMMA DiskInvNext == DiskInv /\ [DiskNext]_dskVars => DiskInv'
<1> SUFFICES ASSUME DiskInv, [DiskNext]_dskVars PROVE DiskInv'
  OBVIOUS
<1>1. DiskTypeOK' /\ Phases' /\ Core'
  BY DiskTypeNext, PhasesNext, CoreNext DEF DiskInv, Core
<1>2. ~Late => Counted' /\ Undisturbed'
  BY CountsNext, UndisturbedNext DEF DiskInv, Core, Counted
<1> QED BY <1>1, <1>2 DEF DiskInv, Core, Counted

LEMMA DiskInvariance == DiskSpec => []DiskInv
<1> QED BY DiskInitInv, DiskInvNext, PTL DEF DiskSpec

(* The queues, semaphores, requests and local variables of the drivers     *)
(* keep their types: a driver works for a process that exists, and at a    *)
(* position of the disk that is not negative.                              *)
THEOREM DiskTypeCorrect == DiskSpec => []DiskTypeOK
<1>1. DiskInv => DiskTypeOK
  BY DEF DiskInv
<1> QED BY <1>1, DiskInvariance, PTL

(* However the tracks are long and many, whatever requests are there and   *)
(* whenever they come, and whichever operations fail: a driver that        *)
(* answers "ok" has moved the sectors of the request, each once and in     *)
(* order, unless P2ClockShutdown's abort has met a wait of that request.   *)
THEOREM TransfersExact == DiskSpec => []TransferExact
<1>1. DiskInv => TransferExact
  BY ProgressExact DEF DiskInv
<1> QED BY <1>1, DiskInvariance, PTL

(* The checks of P2DiskReaderWriterHelper keep every seek on the disk.     *)
THEOREM SeeksStayOnDisk == DiskSpec => []SeeksOnDisk
<1>1. DiskInv => SeeksOnDisk
  BY ProgressOnDisk DEF DiskInv
<1> QED BY <1>1, DiskInvariance, PTL

(* Even if requests come during and after the shutdown, which drops them   *)
(* or not: none is in two places, so none is done twice, and no driver     *)
(* works on the stack of a process that has returned.                      *)
THEOREM NoRequestTwice == DiskSpec => []NeverTwice
<1>1. DiskInv => NeverTwice
  BY PlacesAtMost DEF DiskInv
<1> QED BY <1>1, DiskInvariance, PTL

(* If no request comes after P2DiskShutdown has begun, no request is lost, *)
(* done twice or left to a driver after its process has gone on, whoever   *)
(* runs first behind a V.                                                  *)
THEOREM RequestsInOnePlace ==
  ASSUME ~Late
  PROVE  DiskSpec => []RequestInOnePlace
<1>1. DiskInv => RequestInOnePlace
  BY PlacesExact DEF DiskInv
<1> QED BY <1>1, DiskInvariance, PTL

(* The ready semaphore of a unit counts its queue then, so that no driver  *)
(* is let in to an empty queue.                                            *)
THEOREM ReadyIsQueue ==
  ASSUME ~Late
  PROVE  DiskSpec => []ReadyCountsQueue
<1>1. DiskInv => ReadyCountsQueue
  BY DEF DiskInv
<1> QED BY <1>1, DiskInvariance, PTL

(* The queues are empty when P2DiskShutdown asserts that they are.         *)
THEOREM AssertionsOfShutdown ==
  ASSUME ~Late
  PROVE  DiskSpec => [](boss # "failed")
<1>1. DiskInv => boss # "failed"
  BY DEF DiskInv, Undisturbed
<1> QED BY <1>1, DiskInvariance, PTL
=============================================================================
