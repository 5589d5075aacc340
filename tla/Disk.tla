-------------------------------- MODULE Disk --------------------------------
(***************************************************************************)
(* The disk drivers of phase 2 (phase2/phase2c/phase2c.c): processes leave *)
(* requests in the queue of a disk and wait, the driver of the disk does   *)
(* them one after the other, P2_Startup asks for the sizes at the start    *)
(* and stops both drivers at the end.  Then nothing is left to do.  Before *)
(* that it stops the clock, and okToAbort of phase 1, which is there once  *)
(* for all devices, can make a driver take that abort for its own.         *)
(*                                                                         *)
(* A request is a struct on the stack of the process that waits for it     *)
(* (info).  There is one per requester and, for P2_Startup, one per unit.  *)
(* A region under the mutex of a queue is one step: the queue is touched   *)
(* nowhere else, and nobody blocks inside.  A device operation is one step *)
(* too, from USLOSS_DeviceOutput to the return of DiskDriverWait: only its *)
(* driver knows of it, and reads its own status (AnswerIsRead of module    *)
(* Devices).  Reads and writes differ only in their direction.             *)
(***************************************************************************)
EXTENDS Integers, Sequences, FiniteSets

CONSTANTS Requesters,
          Urgent,       \* owners of requests that can run before a driver
                        \* whose V has woken them goes on: they have priority
                        \* 1, or 2 and a quantum ends just there
          TrackSize,    \* 16: USLOSS_DISK_TRACK_SIZE
          Tracks,       \* what the device reports
          Counts,       \* the numbers of sectors that requesters ask for
          Late          \* requests come when P2_Startup shuts down, and after

Units == {0, 1}
Infos == Requesters \cup Units

ASSUME DiskAssumption ==
  /\ IsFiniteSet(Requesters) /\ Requesters \cap Units = {} /\ Urgent \subseteq Infos
  /\ TrackSize \in Nat \ {0} /\ Tracks \in Nat \ {0}
  /\ Counts \subseteq Nat \ {0} /\ Late \in BOOLEAN

VARIABLES
  queue,        \* queue[u]: diskRequestQueueHead[u] and what follows it
  ready,        \* value of IsDiskRequestQueueReady[u]
  info,         \* the requests
  at,           \* where the process that owns the request is
  sem,          \* value of info.sem
  returnVal,    \* info.returnVal
  driver,       \* the local variables of DiskDriver and its helpers
  arm,          \* the track the disk's arm is on
  moved,        \* moved[u]: the sectors of the current request, in the order
                \* of the buffer
  aborted,      \* P2ClockShutdown's abort meets the wait that driver u is in,
                \* or has met one of its current request (no variable of
                \* the code)
  diskSize,
  boss,         \* where P2_Startup is, and for which unit
  turn

requestVars == << info, at, sem, returnVal >>
driverVars == << driver, arm, moved, aborted >>
bossVars == << boss, turn, diskSize >>
dskVars == << queue, ready, requestVars, driverVars, bossVars >>

Request == [op : {"transfer", "tracks", "abort"}, unit : Units, track : Nat,
            first : Nat, sectors : Nat]
Plain(op, u) == [op |-> op, unit |-> u, track |-> 0, first |-> 0, sectors |-> 0]

(* Between two requests the local variables are not used any more. *)
Between(pc, u) ==
  [pc |-> pc, cur |-> u, track |-> 0, sector |-> 0, i |-> 0, rc |-> "ok"]

PCs == {"remove", "take", "seek", "sector", "tracks", "answer", "answered", "quit"}

DriverType == [pc : PCs, cur : Infos, track : Nat, sector : Nat, i : Nat, rc : {"ok", "error"}]

DiskTypeOK ==
  /\ queue \in [Units -> Seq(Infos)] /\ ready \in [Units -> Nat]
  /\ info \in [Infos -> Request]
  /\ at \in [Infos -> {"returned", "inserted", "waiting", "heard"}]
  /\ sem \in [Infos -> {0, 1}]
  /\ returnVal \in [Infos -> {"none", "ok", "error"}]
  /\ driver \in [Units -> DriverType]
  /\ arm \in [Units -> Nat] /\ moved \in [Units -> Seq(Nat)]
  /\ aborted \in [Units -> {"no", "now", "past"}]
  /\ diskSize \in [Units -> {-1, 0, Tracks}]
  /\ boss \in {"size", "run", "closing", "free", "abort", "await", "empty", "join",
              "done", "failed"}
  /\ turn \in Units

DiskInit ==
  /\ queue = [u \in Units |-> << >>] /\ ready = [u \in Units |-> 0]
  /\ info = [i \in Infos |-> Plain("tracks", 0)]
  /\ at = [i \in Infos |-> "returned"]
  /\ sem = [i \in Infos |-> 0]
  /\ returnVal = [i \in Infos |-> "none"]
  /\ driver = [u \in Units |-> Between("remove", u)]
  /\ arm = [u \in Units |-> 0] /\ moved = [u \in Units |-> << >>]
  /\ aborted = [u \in Units |-> "no"]
  /\ diskSize = [u \in Units |-> 0]
  /\ boss = "size" /\ turn = 0

-----------------------------------------------------------------------------
(* diskRequestQueueInsert up to the V of the mutex *)
Insert(i, r) ==
  /\ at[i] = "returned"
  /\ at' = [at EXCEPT ![i] = "inserted"]
  /\ info' = [info EXCEPT ![i] = r]
  /\ queue' = [queue EXCEPT ![r.unit] = Append(@, i)]
  /\ UNCHANGED << ready, sem, returnVal, driverVars >>

(* and its V of the other semaphore *)
SignalReady(i) ==
  /\ at[i] = "inserted"
  /\ at' = [at EXCEPT ![i] = "waiting"]
  /\ ready' = [ready EXCEPT ![info[i].unit] = @ + 1]
  /\ UNCHANGED << queue, info, sem, returnVal, driverVars, bossVars >>

(* P1_P of info.sem: the driver has answered *)
Answered(i) == at[i] = "waiting" /\ sem[i] = 1

(* It runs on at once, or else its driver first goes on behind the V. *)
GoesAhead(i) == i \in Urgent \/ \A u \in Units : driver[u].pc = "answered" => driver[u].cur # i

Returned(i) ==
  /\ Answered(i) /\ GoesAhead(i)
  /\ sem' = [sem EXCEPT ![i] = 0]
  /\ at' = [at EXCEPT ![i] = "returned"]
  /\ info' = [info EXCEPT ![i] = Plain("tracks", 0)]
  /\ returnVal' = [returnVal EXCEPT ![i] = "none"]
  /\ UNCHANGED << queue, ready, driverVars >>

-----------------------------------------------------------------------------
(* The checks of P2DiskReaderWriterHelper, and a mutant that accepts one   *)
(* sector too many.                                                        *)
ValidOneMore(r) ==
  /\ diskSize[r.unit] # -1
  /\ r.first < TrackSize /\ r.track < diskSize[r.unit]
  /\ r.sectors - 1 <= TrackSize * (diskSize[r.unit] - r.track - 1) + TrackSize - r.first

Valid(r) ==
  /\ diskSize[r.unit] # -1
  /\ r.first < TrackSize /\ r.track < diskSize[r.unit]
  /\ r.sectors <= TrackSize * (diskSize[r.unit] - r.track - 1) + TrackSize - r.first

Transfers == [op : {"transfer"}, unit : Units, track : 0 .. Tracks,
              first : 0 .. TrackSize, sectors : Counts]

Open == boss = "run" \/ (Late /\ boss \notin {"size", "failed"})

(* P2_DiskRead, P2_DiskWrite *)
Transfer(p) ==
  /\ Open
  /\ \E r \in Transfers : Valid(r) /\ Insert(p, r)
  /\ UNCHANGED bossVars

(* P2_DiskSize *)
AskSize(p) ==
  /\ Open
  /\ \E u \in Units : diskSize[u] # -1 /\ Insert(p, Plain("tracks", u))
  /\ UNCHANGED bossVars

Return(p) == Returned(p) /\ UNCHANGED bossVars

-----------------------------------------------------------------------------
(* The driver.  diskRequestQueueRemove waits, *)
RemoveWait(u) ==
  /\ driver[u].pc = "remove" /\ ready[u] > 0
  /\ ready' = [ready EXCEPT ![u] = @ - 1]
  /\ driver' = [driver EXCEPT ![u].pc = "take"]
  /\ UNCHANGED << queue, requestVars, arm, moved, aborted, bossVars >>

(* What is left of a queue when its first request is removed.  The mutant  *)
(* takes the branch for a single node always.                              *)
RestOfOne(q) == << >>

Rest(q) == Tail(q)

(* takes the first request, unless the queue is empty, and the driver sees *)
(* what is asked for.                                                      *)
Take(u) ==
  /\ driver[u].pc = "take"
  /\ IF queue[u] = << >>
     THEN driver' = [driver EXCEPT ![u].pc = "quit"] /\ UNCHANGED queue
     ELSE LET i == Head(queue[u])
              then == CASE info[i].op = "transfer" -> "seek"
                        [] info[i].op = "tracks" -> "tracks"
                        [] info[i].op = "abort" -> "answer"
          IN  /\ queue' = [queue EXCEPT ![u] = Rest(@)]
              /\ driver' = [driver EXCEPT ![u] =
                              [pc |-> then, cur |-> i, track |-> info[i].track,
                               sector |-> info[i].first, i |-> 0, rc |-> "error"]]
  /\ UNCHANGED << ready, requestVars, arm, moved, aborted, bossVars >>

(* DiskDriverWait for an operation that has worked or not: an aborted wait *)
(* is P1_SUCCESS all the same.                                             *)
Success(u, worked) == worked \/ aborted[u] = "now"

DriverWait(u) ==
  aborted' = [aborted EXCEPT ![u] = IF @ = "now" THEN "past" ELSE @]

Fail(u) == driver' = [driver EXCEPT ![u].pc = "answer", ![u].rc = "error"]

(* DiskDriverSeekHelper *)
Seek(u) ==
  /\ driver[u].pc = "seek"
  /\ \E worked \in BOOLEAN :
       /\ worked => driver[u].track < Tracks
       /\ arm' = IF worked THEN [arm EXCEPT ![u] = driver[u].track] ELSE arm
       /\ IF Success(u, worked) THEN driver' = [driver EXCEPT ![u].pc = "sector"] ELSE Fail(u)
  /\ DriverWait(u)
  /\ UNCHANGED << queue, ready, requestVars, moved, bossVars >>

(* The loop of DiskDriverReadWriteHelper: on to the next track (the mutant *)
(* does not start it at its first sector), one sector, or the end.         *)
NextTrackInside(u) ==
  /\ driver[u].sector >= TrackSize
  /\ driver' = [driver EXCEPT ![u].pc = "seek", ![u].track = @ + 1,
                              ![u].sector = TrackSize - 1]
  /\ UNCHANGED << moved, aborted >>

NextTrack(u) ==
  /\ driver[u].sector >= TrackSize
  /\ driver' = [driver EXCEPT ![u].pc = "seek", ![u].track = @ + 1, ![u].sector = 0]
  /\ UNCHANGED << moved, aborted >>

OneSector(u) ==
  /\ driver[u].sector < TrackSize
  /\ \E worked \in BOOLEAN :
       /\ moved' = IF worked THEN [moved EXCEPT ![u] = Append(@, arm[u] * TrackSize + driver[u].sector)]
                             ELSE moved
       /\ IF Success(u, worked) THEN driver' = [driver EXCEPT ![u].sector = @ + 1, ![u].i = @ + 1]
                                ELSE Fail(u)
  /\ DriverWait(u)

NextSector(u) ==
  /\ driver[u].pc = "sector"
  /\ \/ driver[u].i < info[driver[u].cur].sectors /\ (NextTrack(u) \/ OneSector(u))
     \/ /\ driver[u].i >= info[driver[u].cur].sectors
        /\ driver' = [driver EXCEPT ![u].pc = "answer", ![u].rc = "ok"]
        /\ UNCHANGED << moved, aborted >>
  /\ UNCHANGED << queue, ready, requestVars, arm, bossVars >>

(* USLOSS_DISK_TRACKS *)
AskTracks(u) ==
  /\ driver[u].pc = "tracks"
  /\ \E worked \in BOOLEAN :
       driver' = [driver EXCEPT ![u].pc = "answer",
                                ![u].rc = IF Success(u, worked) THEN "ok" ELSE "error"]
  /\ DriverWait(u)
  /\ UNCHANGED << queue, ready, requestVars, arm, moved, bossVars >>

Answer(u) ==
  /\ driver[u].pc = "answer"
  /\ returnVal' = [returnVal EXCEPT ![driver[u].cur] = driver[u].rc]
  /\ sem' = [sem EXCEPT ![driver[u].cur] = 1]
  /\ driver' = [driver EXCEPT ![u].pc = "answered"]
  /\ UNCHANGED << queue, ready, info, at, arm, moved, aborted, bossVars >>

(* The driver reads info->operation once more.  If the owner has returned, *)
(* what it reads there is anything.  Two mutants stop the driver after the *)
(* first request, or never.                                                *)
StopsAlways(u) == TRUE
StopsNever(u) == FALSE

Stops(u) == info[driver[u].cur].op = "abort"

GoOn(u) ==
  /\ driver[u].pc = "answered"
  /\ \E stop \in BOOLEAN :
       /\ at[driver[u].cur] # "returned" => stop = Stops(u)
       /\ driver' = [driver EXCEPT ![u] = Between(IF stop THEN "quit" ELSE "remove", u)]
  /\ moved' = [moved EXCEPT ![u] = << >>]
  /\ aborted' = [aborted EXCEPT ![u] = "no"]
  /\ UNCHANGED << queue, ready, requestVars, arm, bossVars >>

DriverStep(u) ==
  \/ RemoveWait(u) \/ Take(u) \/ Seek(u) \/ NextSector(u) \/ AskTracks(u)
  \/ Answer(u) \/ GoOn(u)

-----------------------------------------------------------------------------
(* P2_Startup.  It does something for unit turn, then for the next.  The   *)
(* mutant goes on to the second step with a third unit.                    *)
TurnOn(where, next) ==
  IF turn = 0 THEN boss' = where /\ turn' = 1 ELSE boss' = next /\ turn' = 2

Turn(where, next) ==
  IF turn = 0 THEN boss' = where /\ turn' = 1 ELSE boss' = next /\ turn' = 0

(* P2DiskInit: P2_DiskSize of both units *)
SizeInsert ==
  /\ boss = "size"
  /\ Insert(turn, Plain("tracks", turn))
  /\ UNCHANGED bossVars

SizeReturn ==
  /\ boss = "size"
  /\ Returned(turn)
  /\ diskSize' = [diskSize EXCEPT ![turn] = IF returnVal[turn] = "ok" THEN Tracks ELSE -1]
  /\ Turn("size", "run")

(* The drivers that wait for an operation of the disk *)
InDevice(u) ==
  \/ driver[u].pc \in {"seek", "tracks"}
  \/ /\ driver[u].pc = "sector" /\ driver[u].sector < TrackSize
     /\ driver[u].i < info[driver[u].cur].sectors

(* P2ClockShutdown sets okToAbort.  A driver whose disk has interrupted,   *)
(* and that has not run since, finds it set.                               *)
ClockShutdown ==
  /\ boss = "run"
  /\ \E met \in SUBSET {u \in Units : InDevice(u)} :
       aborted' = [u \in Units |-> IF u \in met THEN "now" ELSE aborted[u]]
  /\ boss' = "closing"
  /\ UNCHANGED << queue, ready, requestVars, driver, arm, moved, turn, diskSize >>

(* P2DiskShutdown begins. *)
Shutdown ==
  /\ boss = "closing" /\ (Late \/ \A p \in Requesters : at[p] = "returned")
  /\ boss' = "free"
  /\ UNCHANGED << queue, ready, requestVars, driverVars, turn, diskSize >>

FreeAllRequestQueue ==
  /\ boss = "free"
  /\ queue' = [queue EXCEPT ![turn] = << >>]
  /\ Turn("free", "abort")
  /\ UNCHANGED << ready, requestVars, driverVars, diskSize >>

(* The insertion of the abort requests; both V's are in SignalReady. *)
AbortInsert ==
  /\ boss = "abort" /\ \A u \in Units : at[u] # "inserted"
  /\ Insert(turn, Plain("abort", turn))
  /\ Turn("abort", "await")
  /\ UNCHANGED diskSize

(* P1_P of both semaphores, and then the assertions on the queues *)
AwaitAnswer ==
  /\ boss = "await" /\ Answered(turn) /\ \A u \in Units : at[u] # "inserted"
  /\ sem' = [sem EXCEPT ![turn] = 0]
  /\ at' = [at EXCEPT ![turn] = "heard"]
  /\ Turn("await", "empty")
  /\ UNCHANGED << queue, ready, info, returnVal, driverVars, diskSize >>

AssertEmpty ==
  /\ boss = "empty"
  /\ boss' = IF \A u \in Units : queue[u] = << >> THEN "join" ELSE "failed"
  /\ UNCHANGED << queue, ready, requestVars, driverVars, turn, diskSize >>

(* P1_Join of two children: turn counts those that were reaped.  The clock *)
(* driver is a child of the same tag, and has quit.                        *)
Join ==
  /\ boss = "join"
  /\ turn < 1 + Cardinality({u \in Units : driver[u].pc = "quit"})
  /\ Turn("join", "done")
  /\ IF turn = 0 THEN UNCHANGED at
     ELSE /\ \A u \in Units : GoesAhead(u)
          /\ at' = [i \in Infos |-> IF i \in Units THEN "returned" ELSE at[i]]
  /\ UNCHANGED << queue, ready, info, sem, returnVal, driverVars, diskSize >>

BossStep ==
  \/ SizeInsert \/ SizeReturn \/ FreeAllRequestQueue \/ AbortInsert
  \/ AwaitAnswer \/ AssertEmpty \/ Join
  \/ \E u \in Units : SignalReady(u)

DiskNext ==
  \/ \E p \in Requesters : Transfer(p) \/ AskSize(p) \/ SignalReady(p) \/ Return(p)
  \/ \E u \in Units : DriverStep(u)
  \/ ClockShutdown \/ Shutdown \/ BossStep

(* Every process that can go on does: drivers have the best priority of    *)
(* all that wait for them, and no requester is asked to make requests.     *)
DiskSpec ==
  /\ DiskInit /\ [][DiskNext]_dskVars
  /\ \A u \in Units : WF_dskVars(DriverStep(u))
  /\ \A p \in Requesters : WF_dskVars(SignalReady(p) \/ Return(p))
  /\ WF_dskVars(BossStep)
-----------------------------------------------------------------------------
Working(u) == driver[u].pc \in {"seek", "sector", "tracks", "answer"}
Queued(i) == {x \in Units \X (1 .. Cardinality(Infos)) :
                x[2] <= Len(queue[x[1]]) /\ queue[x[1]][x[2]] = i}
Served(i) == {u \in Units : Working(u) /\ driver[u].cur = i}

(* A request whose process waits is in a queue, or in a driver's hands, or *)
(* answered: once, and never after its process has gone on.  So it is not  *)
(* lost, not done twice, and no driver works on the stack of a process     *)
(* that has returned.  (Late requests are dropped by the shutdown.)        *)
RequestInOnePlace ==
  \A i \in Infos :
    Cardinality(Queued(i)) + Cardinality(Served(i)) + sem[i]
      = IF at[i] \in {"inserted", "waiting"} THEN 1 ELSE 0

(* The semaphore counts the requests of the queue, but for the one a       *)
(* driver has been let in for and those not signalled yet: a driver never  *)
(* finds the queue empty ("QUEUE ERROR").                                  *)
ReadyCountsQueue ==
  \A u \in Units :
    Len(queue[u]) = ready[u] + (IF driver[u].pc = "take" THEN 1 ELSE 0)
                    + Cardinality({i \in Infos : at[i] = "inserted" /\ info[i].unit = u})

(* What a driver has moved when it answers a transfer that worked: as many *)
(* consecutive sectors as were asked for, from the first one on, across    *)
(* the ends of tracks, and all of them on the disk.  The only exception is *)
(* the request that was under way when P2ClockShutdown set okToAbort.      *)
Exact(u, r) == moved[u] = [k \in 1 .. r.sectors |-> r.track * TrackSize + r.first + k - 1]

OkAnswer(u) ==
  driver[u].pc = "answer" /\ info[driver[u].cur].op = "transfer" /\ driver[u].rc = "ok"

TransferExact ==
  \A u \in Units : OkAnswer(u) /\ aborted[u] = "no" => Exact(u, info[driver[u].cur])

(* Without the exception: a P2_DiskRead whose driver answers P1_SUCCESS    *)
(* "reads the specified number of sectors from the disk starting at the    *)
(* specified track and sector" (phase2c.c:407).                            *)
OkMeansMoved == \A u \in Units : OkAnswer(u) => Exact(u, info[driver[u].cur])

(* The same of its return, always P1_SUCCESS: it means that the driver has *)
(* answered so.                                                            *)
ReturnMeansDone ==
  [][\A p \in Requesters :
       Return(p) /\ info[p].op = "transfer" => returnVal[p] = "ok"]_dskVars

(* No driver seeks beyond the last track. *)
SeeksOnDisk == \A u \in Units : driver[u].pc = "seek" => driver[u].track < Tracks

(* A driver serves requests "until P2DiskShutdown has been called"         *)
(* (phase2c.c:353), though it reads the operation of the last request when *)
(* that one is answered, and perhaps gone.                                 *)
DriversStay ==
  \A u \in Units : driver[u].pc = "quit" => boss \notin {"size", "run", "closing", "free"}

(* Whoever has left a request is answered, if requests end with shutdown.  *)
RequestAnswered ==
  \A p \in Requesters : at[p] = "inserted" ~> at[p] = "returned"

(* P2DiskShutdown comes to an end: it is to "stop the disk drivers"        *)
(* (phase2c.c:201).                                                        *)
ShutdownEnds == boss = "free" ~> boss = "done"
=============================================================================
