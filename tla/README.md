# Verification of the sync disk

TLA+ models, TLC configurations and TLAPS proofs for the file synchronisation
system in this repository: a desktop client for Windows, a synchronisation
server, an authentication cache and a registration server. Paths below are
relative to `src/`; `serv_solution/` stands for
`NetBeansProjects/serv_solution/` and `sdclient/` for
`Visual_Studio_2013/Projects/sdclient/`.

How to run one of the checks, in this directory:

    tlc -config MCAnchorLog.cfg MCAnchorLog.tla
    tlapm AnchorLog_proof.tla

`PROJECT.json` lists the runs, for each property a mutation of the model that
it catches, the source lines of every definition, the hazards, the findings and
the theorems.

## 1. The system

A user has a *pool* of files on the server and a copy on each device. A round
of synchronisation goes like this:

1. The device asks the **authentication cache** (QUERY). The answer says
   whether the account is locked, which anchor the cache knows, and carries
   credentials: a session id and `req_valid`, a random word.
2. The device opens connections to the **sync server** (INITIAL). The first
   one makes the server ask the cache (STATUS), which locks the account.
3. It asks for the list of what changed since its *anchor* (HEAD, GET), builds
   its tasks, and five worker threads transmit them (GET, PUT, ACT). The server
   keeps the actions it carried out in memory.
4. One more connection ends the round (FINAL SUCCESS or FINAL FINISH). SUCCESS
   writes the actions to the anchor data file, adds an anchor to the anchor
   index, tells the cache the new anchor and unlocks the account.

### Inventory

| component | code | state | operations | hard to get right |
|---|---|---|---|---|
| authentication cache | `serv_solution/auth_cache/session.c`, `auth_bzl.c` | per account: cached anchor, session id, `req_valid`, locked, last active; per sync server: a count of locked accounts | QUERY, STATUS, SET_ANCHOR, SET_LOCKED, KEEP_ALIVE, erase, clear; lapse of the lease (300 s) | answers to two devices before either connects; requests executed twice; leases that lapse under a live session |
| sync server, sessions | `serv_solution/sync_serv_t/session.cpp`, `auth_bzl.c`, `opera_bzl.c`, `excep.cpp`, `hand_epoll.cpp` | two hash maps with a reference count each (`list_data`, `actno_ope`); two pointers in every connection | INITIAL, KEEP_ALIVE, HEAD, GET, PUT, ACT, FINAL; exception handlers chosen by the slot's last request | objects freed under other connections, counts that drift apart, a response that cannot be sent after the work is done |
| event loop and connection pool | `sync_serv_t/epoll_serv.cpp`, `evd_list.cpp` | two circular lists, `chkpos`, descriptors | accept, receive, send, time-out scan | events of a batch for slots closed in the same batch; a scan that walks the list it deletes from |
| anchor files | `serv_common/anchor.c` | index file (anchor, offset, time), data file (actions) | append, search, read from an offset | crashes between the writes, a binary search over a mapped file |
| lists served | `sync_serv_t/listxml.c`, `list_cache.c` | list files on disk, young enough for 45 s | build, serve again, clear | the file is not keyed by the anchor it was built for |
| clear_backup | `NetBeansProjects/serv_tools/clear_backup` | none of its own | lock account, cut index and data file, unlock | two files replaced one after the other |
| client barrier | `sdclient/sdclient/HandleTasksBzl.cpp`, `clientcom/TaskListObj.cpp` | `array_locked`: a word per thread and the array whose turn it is | claim, wait, prepare, validate, transmit, exit | scans without a lock, threads that exit early |
| client round | `sdclient/sdclient/TRANSThread.cpp`, `ExecuteTransmitBzl.cpp`, `ExecuteUtility.cpp`, `LocalBzl.cpp` | last anchor, tasks, what the workers returned; two status words shared with the user interface | query, lock, list, verify, transmit, finish, settle; pause, resume, dialogs | choosing the finish from what was left undone; two threads that wait for each other |
| client journal | `sdclient/sdclient/ActionHandler.cpp`, `LockedAction.cpp`, `PrepaCache.cpp`, `AnchorBzl.cpp`, `LockAnchor.cpp` | action cache and lock file on disk, vector and its file, the picture of the disk; an event | record, copy, preprocess, insert, flush, send, forget; the walk at the next start | an action recorded between two looks; the program killed between two files; a wake-up that nobody hears |
| action lists | `serv_common/anchor_cache.c`, `ope_list.c` | list and two name caches | ADDI, MODIFY, MOVE, COPY, DELE, merged per name | the merging tables |
| server lists of the cache | `auth_cache/aserv_bzl.c`, `serve_bzl.c` | sync servers with their counts | register, search, clear | a server that is cleared while it serves |
| process cycle | `sync_serv_t/process_cycle.cpp` | table of workers | fork, respawn, signals | failing fork |
| registration server, XML, wire protocol, databases, block matching, version store, user interface, overlays, driver, wizard, update, vendored libraries | see `PROJECT.json` | | | |

What makes each of them correct, in a sentence:

* sessions: one device at a time is in service; every handler works on the
  user's current objects; no action that was carried out is lost or written
  twice; the cache never announces an anchor the index does not hold.
* pool: a slot is on exactly one list; a silent connection is closed; an event
  never reaches the wrong connection.
* anchors: a device that took an anchor knows everything recorded before it,
  and its next list contains everything recorded after it; the search ends and
  stays in the file.
* barrier: nobody starts early, arrays are transmitted one at a time in
  ascending order, and the threads end.
* journal: every action of the user is somewhere on its way to the server,
  whenever the program is killed, and the thread is told of it.
* round: the anchor the device records stands for what it has; the round ends,
  and the status words say what the thread does.

`PROJECT.json` names under `hazards` what is hard to test, at its line.

## 2. The modules

| module | models | composes |
|---|---|---|
| `GroupSchedule` | abstract specification: groups are worked on one at a time, ascending | |
| `ArrayBarrier` | the worker threads and their interlocked words | refines `GroupSchedule` |
| `AuthCache` | one account of the cache, as operators on a record: what each request leaves of it | |
| `AuthServers` | the cache with its list of sync servers, their counts, clear_backup, the administrator, exceptions, the worker's death | extends `AuthCache` |
| `Tenure` | abstract specification: one device at a time is let in, its changes are recorded in the step that ends its stay | |
| `SyncSession` | devices, connections, the two reference-counted objects, anchor counters | extends `AuthCache`, refines `Tenure` |
| `ConnPool` | slots, lists, descriptors, batches, the timer | |
| `ChangeLog` | abstract specification: a log of changes that devices record, meet and forget | |
| `AnchorLog` | anchor files, lists, the devices' anchors, clear_backup | refines `ChangeLog` |
| `ClientJournal` | the client's way of an action: watcher, lock file, vector, round, crashes | |
| `ClientRound` | the client's thread, its anchor, the finish of a round, the status words and the user interface | |
| `MC*` | values of the constants | |
| `*_proof` | theorems | |

`SyncSession` takes the pool as a set of slots and the anchor files as two
counters; `ConnPool` takes what a handler does as "serves or closes";
`AnchorLog` takes the sessions as "the account is held by one, or by nobody
until its lease lapses". `Tenure` says this about the sessions: one device is
inside, its changes are recorded in one step with a new anchor, and a stay nobody
heard the end of leaves the account locked; `SyncSession` is proved to implement
it, without lapsing leases. That a lease lapses only on an account whose holder
is gone is an assumption of `AnchorLog`, about times the code does not compare. `ClientJournal` takes a round as one that ends in one of the ways
`ClientRound` shows, and `ClientRound` takes the user's actions as "there are
some, or none". Each is thus checked where the others are abstract.

### ArrayBarrier

One action per interlocked access, so that `WaitingThread` and
`ValidArrayLocked` (which reads slots under `gcsArrayLocked` while other
threads write theirs without it) interleave as on the machine. `slot` and `run`
are the words of `array_locked`, `mine` a thread's `worker_locked`, `pc` its
place in `WorkerThreadProcess`, `hand` the next node of `objTaskList`.
Comparisons are those of unsigned words (`INVALID` is the largest, see `Lower`).
Switches: the user may stop (`MayStop`), a connection may not come up
(`MayFailConnect`), the list file may not be read (`MayFailRead`); all three are
on in the run. A read error costs a worker the node it was handed, which nobody
gets any more (`NodePrepare` has counted it), but it gives its slot back. A
worker whose connection fails, or that sees a stop, leaves its slot as it is
(`Left`), and who holds a node of a later array waits for it for ever
(`ShutOut`). `Termination` says that this is the only thing that keeps a worker.

### AuthCache and SyncSession

Objects that are freed stay in the model, so that a pointer can be dangling: a
pointer is the session id its object was made for. The server has one thread:
a handler is one step, with the request to the cache it waits for. Responses
are sent in a later step, and that step may fail. `method` is the last request
of a slot, kept when the slot is closed and taken again, because the code does
not reset it (`epoll_serv.cpp:107` tests the listening event's buffer) and the
exception handlers are chosen by it.

Faults are switches: see the constants of the module. `MayRace` is of a
different kind. The cache lets a device in while the account is unlocked and
locks it only at the STATUS of the sync server, so two devices that ask in
between receive the same session and share it; the FINAL of one frees it under
the other. With `MayRace` off, a device asks only when no other one holds an
answer it has not used (`Unraced`): an assumption about timing, not a guard of
the code. The run `sessions` is made under it. `MayRace` is on in the run
`sessions_race`, which keeps what still holds.

`NothingLost` is about steps, because the code does drop actions it has carried
out: a device whose round failed sends FINAL FINISH although it changed files
(`LIST_FINISH_FAILED`, `ExecuteUtility.cpp:205-208`), and the server forgets its
list. That is the one exception (`GivesUp`); a broken connection before it writes
the list instead.

For `Tenure` a device is inside (`Inside`) from INITIAL to the last FINAL, while
there is a session and the device has still to use its answer; the changes that
wait are those of the object in the hash map (`Waiting`).

### AuthServers

The cache from inside, with several sync servers. `slist` is the list of servers
with their `refer_inde`, newest first, `light` the place `_light_server_` points
to. An account is a record of `AuthCache`; its `refer` is used for what a request
adds to the count of a server, and the count itself is in `slist`. `asked` are
answers to QUERY somebody has still to use, `held` the sessions of sync servers,
`tool` the accounts clear_backup holds. A count for a server that is not in the
list is a NULL pointer: `Dies`, after which the master starts a worker with the
servers of the data base and no account.

`calm` is a history variable: nothing has happened since the worker started that
disturbs the counts. What does disturb them, each an action that is modelled and
that clears `calm`:

* a STATUS that is sent again because its answer was lost counts its server twice;
* an answer that is given while another one with the same `req_valid` is unused,
  so that two sync servers may lock the account, and the second name replaces
  the first (`session.c:151`);
* a lapsed lease (`session.c:26`) unlocks without counting down;
* a server added twice is two entries, of which one is found;
* CLEAR of all users forgets locked accounts;
* an exception handler counts down whatever its slot's last request did: slots
  are not reset (`epoll_serv.c:100` looks at the listening event's buffer), so it
  may be the request of an earlier connection, already answered.

The worker also dies, calm or not, of a STATUS from a server that was cleared
meanwhile, of SET_LOCKED TRUE for an account no server has had yet (its address
is empty), of an access key that differs while the data base does not answer
(`session.c:18`), and of an error on a slot that never had a request. The model
has all of these; the properties claim the opposite only for the end of a
session. The hash map of addresses, which chooses the list a connection goes to,
is left out: two ports on one address share its key, and clearing one of them
makes connections of the other time out like a device's.

### ConnPool

`active` and `sleep` are the circular lists along `next`; an insertion is at
the head, as `CDL_APPEND` of `utility/utlist.h` does it. `due` is the rest of a
batch `epoll_wait` returned. A slot that is closed and taken again while an
event for it is in the batch gets that event (`astray`).

### AnchorLog

`idx` and `acd` are the two files, an action is a number, an offset a position
in the data file. `search_anchor` is modelled loop round by loop round with its
three tokens, and with its double division (`anchor.c:159` divides a difference
of entry pointers by the size of an entry). `listing` is `anchor_file.xml`.
Device steps are those of `GetListHead` and `FinishTasksList`; `Again` is a
retry of the list within the round, served from the listing of the round.
Ends of a session: SUCCESS, its failures at each point of `add_anchor_bzl`,
FINISH in its three uses, the exception of the last connection (the list is
written, no anchor is made), and death. clear_backup cuts the index, then the
data file, whether or not the first went well; if either failed it deletes the
index, then the data file. Each of these is a step, and it may be killed before
any of them. A list that does not fit on the disk is written in part, told
whole, and served again (`FoundTorn`).
`mark`, `log` and `damaged` are history variables. `damaged` is set where the code
loses something: a file deleted, the data file cut beside an index that was not,
a list written in part. `NothingMissed` exempts everything after that. For
`ChangeLog` the anchor of a device stands for `mark` of it (`Seen`), and for
nothing once something was damaged.

Offsets are integers: clear_backup subtracts in `off_t`. Once a data file was
lost they may fall below zero. TLC reaches that with four actions and four
anchors, beyond the bounds of the run; the type invariant and the proof allow
for it.

### ClientJournal

The way of an action through the client, each place a set of actions: `cache`
(the file the watcher writes), `raw` and `fin` (records of the lock file,
before and after `ActioPrepaProcess`), `vec` and `tail` (the vector of actions
to send, in memory and in the anchors file), `river` (the picture of the disk
that the walk at the next start is compared with), `up` (what a round sends).
`anchored` and `filed` say whether this run and the file know an anchor. `last`
is `m_dwLastActio`: zero, a tick count, or one whose sign bit is set, because
`CacheActioCopy` returns it where below zero means "busy". `pc` is the place in
`TRANSThread` and in `PrepareLockedAction`, which three callers share (`call`).
The watcher's callback is one step of its own; so is every write of a file, the
two of `EraseAnchor` included (`BuildSlow`, `EraseIndex`). A write of the anchor
files may fail and leave any part of the vector in the data file (`Parts`); the
code logs that, or looks at no result, and goes on. `unsaved` are the actions
left out so. A crash takes memory and leaves files, with the lock file half
written if it was being written.

`sent` and `gone` are history variables: what a round delivered, and what the
code drops. The places where actions are dropped, each a step that adds to
`gone`, are

* at the start, actions recorded between the walk of the disk and
  `ClearActioCache` (`PrepaCache.cpp:104`);
* `FinalLockActio` with an answer that is not below zero, which deletes the lock
  file though something in it was not inserted: after the copy of the last retry,
  which nobody preprocesses; records a crash left unprocessed; a failed
  `LockActionConve`; a tick count of 2^31 and more (25 days of uptime), which
  skips the preprocessing; the answer 0, "nothing", with records of an earlier
  run in the file (`ExecuteTransmitBzl.cpp:341`);
* a round that ends well without its tasks, after a verification that was
  interrupted (`ANCHOR_FINISH_UPDATE` and `_LEAVE`);
* the end of the program, killed or not, with `unsaved` actions and an anchor in
  the index: after a flush that failed and was only logged (`AnchorBzl.cpp:116`
  and `468`, the lock file is deleted all the same), or between the two writes of
  `EraseAnchor`, or after the second of them failed (`Anchor.cpp:309-327`).

`deaf` marks reports the thread cannot hear, because the event object is made
after the watcher begins (`ExecuteTransmitBzl.cpp:59-80`).

### ClientRound

An anchor stands for the work of the session that made it. `has` is the set of
anchors whose work the device has, `anchor` the one it records. A list may come
in part (its connection breaks and the part is used), workers may leave tasks
undone, `Choice` is the decision of `FinishTasksList`. `missed` collects what an
incomplete list makes the device pass over, and `stale` marks an anchor of a
numbering that the server has lost; both are history variables and the
exceptions of `Caught`: a device whose old anchor is not beyond the server's
new ones takes the fast list, although the numbers mean something else. What a
round with a broken-off verification costs is exempted in the same way, by
`partial`, from `Caught` and from `OwnSent`.

The anchor that the cache answers to QUERY is the server's or 0, which an account
starts with (`Changed`): a device with an anchor then starts a round. The tasks
of the device's own actions may be missing too, because what
`CreateFastTasksList` returns is not looked at (`Listed`).

`next` and `status` are the status words of `LocalBzl.cpp`, written by the
thread and by the user interface without a lock; `ui` is what the latter is
doing. `ValidateProcessFinished` reads one and writes the other in two steps
(`Refuse`, `Refused`). `TransmitLockedProcess` at `TRANSThread.cpp:200` is a declaration, not a
call, and the model does what the code does: the statuses stay RUNNING.

## 3. What is checked

| run | configuration | shows |
|---|---|---|
| `barrier` | 3 threads, 3 nodes in 2 arrays, stops, failed connections and read errors, fair | `StartBarrier`, `GroupOrder`, that the barrier implements `GroupSchedule`, and `Termination`: every worker ends unless one that left early shut it out |
| `barrier_stop` | the same, but for connections that do not come up | **violated**: `StopReturns`, see findings |
| `sessions` | 2 devices, 2 connections, clients that close gracefully without END, no other fault, fair | `NoDangling`, `ReferCovers`, `OneDevice`, `CacheCoherent`, `NothingLost`, `ServerCount`, that sessions implement `Tenure`, and `Unlocked`: an account that is locked is unlocked again |
| `sessions_faults` | 1 device, 2 connections; broken connections, lapsed leases, lost and repeated requests, cleared accounts | `Lockstep`, `WrittenOnce` |
| `sessions_race` | 2 devices, 2 connections; races, lapses, disk failures, crashes | `CacheNeverAhead` |
| `sessions_excep` | 1 device, connections that close or break | **violated**: `LastExceptionFlushes`, see findings |
| `pool` | 3 slots, 3 descriptors, window 2, fair | `Linked` (`Partition` and `ChkposActive`), `OwnDescriptor`, and `SilentClosed`: a pool no larger than the window has its silent connections closed |
| `pool_starved` | the same | **violated**: `AllSilentClosed`, see findings |
| `anchors` | 2 devices and clear_backup, 2 anchors at the start, up to 5, 2 actions | `NothingMissed`, `SearchInside`, `SearchEnds`, and that the files implement `ChangeLog` |
| `journal` | 2 actions, 1 retry, 1 crash or exit, fair | `Kept`, `RiverKept`, `Woken`, `Drains` |
| `auth_servers` | 2 servers, 2 accounts, 2 answers and 2 sessions at a time, every disturbance of the counts | `CountsLocked`, `EndsFindServer` |
| `round` | 3 anchors, 1 loss of the server's anchors, fair | `Caught`, `StatusFits` (`StatusSettled` and `PauseDeadlock`), `OwnSent`, `AnchorForward`, `RoundEnds` |

`TypeOK` is an invariant of one run per module. Deadlock is checked in every
run but `round`, where a user interface and a thread that wait for each other
are a state the program can be in (`PauseDeadlock` says which). In the others a
finished state may stutter only where an action says so.

Why the bounds are enough:

* Three threads are the smallest number where a third one scans while two
  others change slots; three nodes in two arrays give an array with several
  nodes, a turn that is waited for and one that is skipped, and a later array to
  be shut out of.
* Two devices are needed for every question about exclusion, and two connections
  for a list of tasks that is transmitted while another connection finishes, or
  two devices in service at once. `MaxOpens` bounds the connections of one answer
  and the references never given back; three sessions let two follow a lapsed
  one. A third connection makes the liveness too expensive; the theorems of
  `SyncOrder_proof` are for any number of devices and connections.
* Two servers, of which one is configured and one added, and two accounts: a
  server is cleared while the other one serves, and counted by one account or by
  two. Two answers at a time are what a race needs; a `req_valid` is replaced
  twice. Another server is handed out every 2 requests instead of 16. Once the
  counts are disturbed the run goes on with one session and no open answer
  (`Explored`), for the invariants say nothing any more until the worker is
  started again; deaths and restarts are still reached.
* Three slots with a window of two let the timer stop inside the list and close
  the first, the middle and the last entry. There are as many descriptors as
  slots: a descriptor that is closed while an event for it is in the batch is
  taken again by the next connection, in the same slot or another.
* Two actions and three anchors made during the run distinguish "recorded
  before", "recorded without an anchor" and "recorded after". The index grows
  to five entries. The entry size is 2 instead of the 24 of the code, so that
  the halved step is 0 and 1 within five entries; with 24 it is 0 below 49
  entries, and the search goes step by step.
* Two actions of the user let one be recorded at every step of the other's way;
  one retry is the first, the last, and the one that gives up; one crash or exit
  at any step, with the start that follows, visits every pair of files out of
  step.
* Three anchors allow an anchor behind the device's, its own, and one beyond it,
  for a list that comes in part; the loss leaves a device with an old anchor
  below, at and above the new ones.

Fairness:

* `ArrayBarrier`: weak fairness of each thread's steps (Windows schedules every
  ready thread) and strong fairness of entering the critical section, which is
  released and taken again.
* `SyncSession`: the server handles every connection that has work; a device
  goes through with what it began, since its lists of tasks are finite and its
  retries bounded. Devices are not assumed to start a round.
* `ConnPool`: the server's one thread goes on (weak fairness of its loop), and the
  timer's descriptor is periodic, so that it is time and again in what
  `epoll_wait` returns (strong fairness). Clients are not assumed to do anything.
* `AnchorLog`: only the loop of `search_anchor` itself.
* `ClientJournal`: the thread goes on; six seconds without an action come (weak);
  nobody keeps an exclusive option for ever, a lock file that can be opened time
  and again is opened, and a copy that is possible time and again meets a quiet
  moment (strong). The thread's own time-outs make each of them retried.
* `ClientRound`: the thread goes on, and a user interface that has begun to pause
  or closes a dialog finishes (weak). The user is not assumed to do anything.

### Findings

1. `barrier_stop`: a worker that leaves because of the status word keeps its
   array id in its slot (`HandleTasksBzl.cpp:482`); a worker that waits in
   `ValidArrayLocked` waits for it for ever, although `ExecuteUtility.cpp`
   takes the return of `BeginWorkerThread` for granted after a stop.
2. `sessions_excep`: `excep.cpp:11` promises to "flush cached anchor if the
   last exception". A connection closed gracefully without FINAL END never
   gives its references back, so the last exception frees nothing and writes
   nothing.
3. `pool_starved` (`AllSilentClosed`): the time-out check looks at an eighth of the pool beginning
   at `chkpos`, which moves only when its own entry is closed. Behind a
   connection that is kept alive, silent ones stay for ever.

Met while modelling, visible in the models but not claimed by a run: two
devices that race share a session (`auth_cache/session.c:28`); a device with an
old session id tears down the session of others (`sync_serv_t/session.cpp:39`);
a lapsed lease leaves `req_valid` valid (`auth_cache/session.c:24`); FINAL END
whose response fails gives its references back twice; a FINAL SUCCESS whose
response cannot be sent runs an exception handler with a NULL session, and the
worker dies; a full pool loses the accepted descriptor (`epoll_serv.cpp:101`);
SET_LOCKED FALSE for an unlocked account counts the server down; with failing
disks a list is written twice. On the client: a pause that a worker notices
leaves the thread and the user interface waiting for each other, because
`TRANSThread.cpp:191` calls `PauseTransmitProcess`, the function that waits,
where `PausedTransmitProcess` was meant (`PauseDeadlock` is the invariant that
says so, and `RoundEnds` excepts it); a round whose list cannot be locked leaves
the status RUNNING (`StatusSettled` excepts it); a preparation that answers
"nothing" deletes the lock file with what is in it; a verification that was
interrupted passes for a session in which nothing was to be done
(`ExecuteUtility.cpp:248`; `Caught` and `OwnSent` except it); a failed flush is
logged and its lock file deleted, and the data file of the anchors is emptied
before their index (`Kept` excepts both once the program ends); a worker that
finds no connection shuts the others out as a stop does (`Termination` excepts
it). On the server: a round that failed after it changed files leaves the files
changed and forgets its actions (`NothingLost` excepts it); when clear_backup
could not cut the index it still cuts the data file (`NothingMissed` excepts it); FAULT has no way back but a dialog's.

## 4. What is proved

`*_proof` modules, for every value of the constants.

**ArrayBarrier_proof**, from the assumptions that there are as many slots as
threads and that the array ids of the list ascend. The inductive invariant
`IInv` has five parts besides the types: `IOwn` (who owns which slot), `IStart`
(what a claiming or waiting scan has already seen is owned), `ISlot` (no slot is
behind `run`, and the slot of a thread in a given place holds what the place
says), `IAhead` (nodes not handed out, and held ones, are not behind the turn),
`IScan` (what the thread in the critical section has found stays true although
other threads write meanwhile). It is needed because `GroupOrder` says nothing
of the scan: a slot may be written just after it was read, and only `ISlot`
tells that the value written is not lower. Proved from it: `StartBarrier`,
`GroupOrder`, `RunAscends` (the turn never goes back), the refinement of `GroupSchedule` (safety only; the
abstract specification has no fairness).

**SyncSession_proof**: `TypeOK` with the two pointers of connections in service,
`Lockstep`, `CacheNeverAhead`, under every combination of the fault switches,
races included. `Lockstep` is inductive with the types: every handler takes
both references or neither, in the same step of the single-threaded server.
`CacheNeverAhead` carries in its statement the strengthening it needs: not only
the cache, but no session that may still tell it, is ahead of the index.

**ConnPool_proof**: `Lists` = types, `Partition`, `ChkposActive`, and that the
timer's walk stays within its window; on lemmas about insertion and deletion in
a list without duplicates. `Linked` is part of it; on top of it `OwnDescriptor`.

**AnchorLog_proof**: `IInv` = types; clear_backup's steps belong to its lock;
while a search goes on the account is the searching device's and the tokens
satisfy 1 <= min <= mid <= max <= length; the anchors of the index ascend
(preserved by `addi_anchor` and by every cut); and `Bracket`, the entry that is
looked for lies between the tokens. The step of the search rests on the lemma
that half of a distance, divided twice, is no more than the distance. Result:
`SearchInside`, for every length of index and every entry size.

**ClientJournal_proof**: `IInv` = types; a preparation that goes on has a retry
left; `Bounded` (the places hold actions of the user); `Written` (the vector is
in the file but for what was inserted since, and that is still in the lock
file); `Sending` (what a round sends covers what no other place has, so that the
round may forget it); `RiverSafe` and `RiverSending`, the same for what the
picture shows; `Called` (who calls the preparation); `Heard` (where the last
report is remembered at each place of the thread: in the event, in
`dwPrevioOperati`, or in an answer that will set it); what a failed write left out
is still in the vector while the program runs and has its anchor, and what is not
in the file when it ends is `gone`. `Kept`, `RiverKept` and
`Woken` follow, for any number of actions, retries and crashes.

**ClientRound_proof**: `Outcome` (workers that answer "finish" leave no task),
`Pursued` (in a session the server's anchor is the one the device was told, and
what the device lacks of it is among its tasks, unless the list is incomplete;
a round that will record an anchor lacks nothing; one that does not end as
failed has no task left, or its tasks were incomplete or not verified), `Covered` (`Caught`, element
by element), `Steered` (neither status is RUNNING between rounds unless the last
one was LOCKED; a thread in a round that is to be paused has the user interface
waiting). `Caught`, `StatusFits` and the action properties `AnchorForward` and
`OwnSent` follow, for any number of anchors and losses.

**SyncOrder_proof** has two inductive invariants on top of these. `WrittenOnce`
is proved for every combination of the switches but a failing disk, from `Twins`
(the two hash maps hold objects of one session, and a connection in service was
given both objects of one session) and `Clean` (an object that left the map has
no actions): a release that meets a dangling pointer may release the wrong
session, but never writes a list that was written already. The
properties of the run `sessions` rest on `Exclusive`: devices do not race, no
connection breaks and no device dies, no lease lapses and nobody clears accounts. Everything else may fail: disks, the process, requests to
the cache that are lost or executed twice, clients that close without END or
drop their changes. `NothingLost` needs `Careful` besides (no disk or process
fails), `ServerCount` needs `Prompt` (requests are
executed once, the process holds). None of these conditions is there for the
proof: TLC finds `NoDangling` and `OneDevice` violated with any one of the four
switches of `Exclusive` on, `NothingLost` with either of `MayFailDisk` and
`MayCrash`, `ServerCount` with any one of `MayRepeat`,
`MayCrash` and (when an answer opens two connections) `MayLose`.

`OInv` adds to the types and `Twins` the conjuncts of `Order`: `Manned`
(connections belong to devices that are in a round), `Single` (at most one device
holds an answer it may still use), `Settled` (a session in the hash maps means a
locked account, and no lease has lapsed), `Answered` (what an answer is worth: the
session in the maps, one to be made, or nothing any more), `Coherent` (cache and
index agree, or the session that ends says it; a session nobody can end says
nothing), with `NoDangling` and `ReferCovers` themselves. `Counted` and `Tallied`,
which carry `NothingLost` and `ServerCount`, are inductive relative to it. The
shape of the devices and connections (who opens, closes, finishes) is kept by
lemmas of its own, so that each handler's step has only the objects left to show.

The same invariant carries the refinement of `Tenure`. `Inside` is the live
device for whose answer there is a session. A FINAL SUCCESS, which writes the
list, makes an anchor, tells the cache and frees two objects, is one step of
`Tenure`; so is each of its failures. INITIAL is where a device enters, a STATUS
whose answer is lost is `Miss`, and everything else the server, the clients and
the cache do between is a stutter. TLC checks it in the run `sessions`; the
theorem has all the faults `Exclusive` leaves.

**AnchorLog_proof** also proves `NothingMissed`, from `MInv` = `IInv`; `Owner` (the
account's holder is the device in service, and the list of actions not yet
recorded holds what it knows); `Built` (a listing on the disk was built by the
session that holds the account, for the anchor its device still has); and, as
long as nothing was damaged, `Kept`. The heart of `Kept` is `Covers`: what
was recorded after an anchor was made lies in the data file beyond that anchor's
offset. When clear_backup has cut the index and not yet the data file, the
offsets are short by what will be cut (`Shift`); killed there they stay short,
and a device is listed more than it needs, never less.

On it rests the refinement of `ChangeLog`, under no condition on the constants
but `AnchorAssumption`. `RInv` adds `Sound` (what a device knows or is listed was
carried out, and the data file holds what was recorded, damaged or not) and,
as long as nothing was damaged, `Chained` (a later anchor stands for no less than an
earlier one, and a device at work has an anchor that is not beyond its
session's). Every end of a session with an answer, SUCCESS that fails included,
is `Meet`; a broken last connection is `Record`; a slow list is `Forget`; the
steps of clear_backup show only when they damage something. So a device's anchor never
stands for less than before, and nothing is recorded by a device that did not
carry it out or learn of it. What `ChangeLog` promises of anchors ends with the
first damage.

**AuthServers_proof**: `IInv` = types; `Past` (no answer, session or hold carries
a `req_valid` that was not drawn yet, and an account outside the hash map has one
that nobody carries and is not locked); `Placed` (an account that is locked has a
server); `Dead` (a dead worker has no list); and, while `calm`, three parts:
`Once` (each server is in the list once), `Free` (with the `req_valid` of an
account there is at most one open answer, and then the account is not locked,
while a session or a hold with it means that the account is locked), `Counted`
(`CountsLocked`, for each entry of the list). It is needed because `CountsLocked`
alone does not survive a STATUS: that it counts an account which was not locked
follows from `Free`. `EndsFindServer` follows: an account that is locked is
counted, so its server could not be cleared.

Only model-checked: liveness (`Termination`, `Unlocked`, `SilentClosed`,
`SearchEnds`, `Drains`, `RoundEnds`), which is out of the proof system's reach.
Every invariant, every action property and every refinement of the passing runs
is proved. The abstract specifications have no fairness: that an account is freed
or a list is met at last is not part of what is refined.

## 5. What is not modelled, and why

* Data: file contents, names, XML, text headers, block matching. They are
  values the properties do not tell apart.
* The transfer inside GET and PUT: one step that succeeds or breaks.
* The cache's list of administrators and its event loop, but for what its
  reused slots do to the counts.
* A failing `fcntl` after `accept`, and short writes of records.
* An unnoticed failure of `fclose` in `addi_anchor` or in clear_backup, a
  `rename` of clear_backup that fails, and a read error that its loops take for
  the end of the file.
* `EraseAnchor` does not set `m_tLastInde` back: the next flush writes beyond the
  end of the emptied data file, and leaves a hole. The next anchor's offset is
  beyond it; a start without an anchor reads it as actions, which its slow list
  drops.
* The merging of actions of one file, on both sides (`creat_active_alist`,
  `anchor_cache.c`).
* The registration server (it forwards requests and keeps a list of servers),
  the tools other than clear_backup, the databases, the user interface, the
  Windows driver and shell extension, vendored code.

## 6. Plan

Order and aim of the next modules; the first were written first because a
mistake in them loses a user's data or locks him out.

1. `ArrayBarrier`, `SyncSession`, `ConnPool`, `AnchorLog`: done.
2. `ActionCache` (`serv_common/anchor_cache.c`): the merging of actions per
   name, against a reference: replaying the merged list gives the same pool as
   replaying the original one. As functions without recursion, so that lemmas
   about single merges can be proved.
3. `ActiveList` (`opera_bzl.c`, `creat_active_alist`; the client's
   `OptimizeActiveAction`): the same reference, for a list read from an anchor.
4. `ClientJournal`, `ClientRound`: done.
5. `AuthServers`: done.
6. `ProcessCycle`, `Capacity`, `ListCache`.
7. `Tenure` and `ChangeLog`, what the sessions and the anchor files promise: done.
   Left: one specification of the whole in which `AnchorLog` takes its sessions
   from `Tenure` itself, and `ClientRound` its anchors from `ChangeLog`.
