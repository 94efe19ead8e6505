# A verification of NMSL, a network disk

NMSL is a network disk: one server process with a main thread and a pool of worker threads, a
MySQL database, and client programs with a shell and a pool of their own. A client logs in on the
main port, types commands (`ls`, `cd`, `pwd`, `mkdir`, `rm`, `rmdir`, `exit`), and moves files
(`puts`, `gets`) over connections to a second port, the sub port. This directory holds TLA+
modules that model the programs and their algorithms, the configurations that TLC checks, and
proofs that TLAPS checks. Paths below are relative to the repository root (`src/` here stands for
that root).

## 1. The system

### Components

| Component | State | Operations | What makes it correct |
|---|---|---|---|
| Thread pool, task queue (`server/threadPool.c`, `worker.c`, part of `server.c`) | `taskQueue` (linked list, mutex, condition variable), `exitFlag`, worker threads | `taskEnqueue` by main, `taskDequeue` and the loop of `handEvent` by workers, the exit pipe | first come first served, each task taken once, no lost wake-up, no read of a freed node, a clean exit |
| Sessions and time wheel (`timeSlot.c`, parts of `clientIntro.c` and `server.c`) | `clients[]`, `clientNum`, `slotMap`, `timeIndex`, the epoll set, descriptors | login into the array, dispatch of a command, renewal of a timer, `clearSlot`, `exit` | table and wheel agree, only idle sessions are dropped, in time; a command runs for its sender and is answered |
| Login dialogue (`clientIntro.c`, `client/userIntro.c`) | user rows, the place of both ends in the dialogue | login, signin, quit, the token, the first command | both ends stay in step, only who gave the password gets in, main is not blocked for ever |
| Transfer, end to end (`worker.c` of both sides, `server.c`, `vShell.c`) | queues of both programs, items under way, rows, stored files | command, port, connection, token, question and answer, file, row | nobody waits for somebody who waits for him; a row comes from a valid upload |
| Transfer protocol (`server/transFile.c`, `client/transFile.c`) | both ends of a connection, `name.temp` | `sendFile`, `recvFile` | what counts as received is received; a download that goes on never skips bytes; a transfer ends |
| Upload (`worker.c`, `sqlWheel.c`) | rows, the stored files | `isFileExistInTable`, `recvFile`, `addFileToTable` | a row has its content stored |
| File table (`sqlWheel.c`, `vFinder.c`, `NetDisk.sql`) | `FileTable`, `UserInfo.u_pwd`, each client's `curF_id` | commands of main, inserts of workers | a command acts on the directory its path names; no row ends up in a file or with another user |
| Shell and command interpreter (`vShell.c`, `vFinder.c`, `parse.c`) | the text of `u_pwd`, the prompt, the line and its answer | every command and its answer | what is sent is what is waited for; a path is taken apart and put together right |
| md5 (`md5.c`) | a context of 64 bytes, four words and a count | init, update, final | the digest of the file is that of RFC 1321 |
| Tokens (`userToken.c`, `enAndDecodeToken.c`) | a time | `expireUserToken`, `decodeToken` | the expiry is the right time; a token is accepted before it and not after |
| Accounts, log, database handle, sockets, JWT library | | | section 5 |

### How they interact

- The main thread runs one `epoll` loop. It talks through a whole login dialogue, serves commands,
  turns the time wheel when `epoll_wait` times out with nothing ready, accepts transfer
  connections, checks their token and enqueues them, and reads the exit pipe.
- A worker takes a task under the mutex and then owns the descriptor. It shares the database, the
  stored files and the descriptor numbers with the main thread, without a lock.
- A client's shell asks main for the port of each transfer and makes a task for the client's
  threads; each thread connects on its own. `exit(0)` in any thread ends them all.
- A client keeps the `f_id` of its directory (`curF_id`) from the answer to its last `cd` or `pwd`
  and sends it with each transfer. Until the worker uses it the directory may have changed.
- The path `u_pwd` is kept per user, not per session. All sessions of a user share it.
- There is no framing above "an int" and "a length and a string": each end knows from its own place
  in the dialogue what comes next. `recvn` and `sendn` of the server do not look for the end of
  the stream or an error and loop for ever; those of the client call `exit(0)`.

### What is hard

Interleavings of the workers, the main thread and the exit; four parties that wait for each other
in a transfer; two programs that must count the same items; sessions of one user that share
timers, a path and rows; ids, slots and descriptors that are used after they have been given up;
two queries with a worker between them; queries that fail; connections that break, clients that
die in a download and go on later; boundaries (a wheel that wraps, a train that is just full, a
directory with one entry, a path that fills its column, a block that is just full, the end of a
year). `PROJECT.json` lists each of these at its line as a hazard, with the properties that cover
it.

## 2. The modules

| Module | Models | Role |
|---|---|---|
| `TaskPool` | what the pool promises transfer connections | abstract specification |
| `ThreadPool` | `threadPool.c`, `worker.c` (queue part), exit and sub-port branches of `server.c` | implements `TaskPool` |
| `Sessions` | `timeSlot.c`, the clients array, the `epoll` loop of `server.c`, `exit` | |
| `Login` | `clientIntro.c`, `userIntro.c`, accept and admission in `server.c`, the start of `vShell.c` | leads to `Sessions`' `Login` |
| `Exchange` | a transfer through shell, client threads, main and workers | the composition: its `bytes` is all of `Transfer`, its queues are `ThreadPool`'s, its `Add` is `Upload`'s |
| `Transfer` | `sendFile` and `recvFile` of server and client | the inside of one file on one connection |
| `Upload` | the `puts` branch of `worker.c`, several workers at once | the inside of `addFileToTable` of `FileTable` |
| `FileTable` | the commands of `vFinder.c` with the queries of `sqlWheel.c`, `curF_id` of the client | |
| `PathTree` | what `cd` promises | abstract specification |
| `Shell` | every branch of `vShell.c` and `vFinder.c`, `myParse`, `myLastWd`, the text of `u_pwd` | implements `PathTree` |
| `Md5` | `md5.c` but for `MD5Transform` | algorithm, against RFC 1321 |
| `Md5Block` | `MD5Transform` and the macros of `md5.h` | what `Md5` does with a block |
| `ExpireClock` | `expireUserToken` | algorithm, against the calendar |
| `ThreadPoolProofs`, `SessionsProofs`, `LoginProofs`, `ExchangeProofs`, `TransferProofs`, `UploadProofs`, `FileTableProofs`, `AlgorithmProofs` (about `Shell`, `Md5` and `ExpireClock`) | | theorems |
| `MCThreadPool`, `MCSessions`, `MCLogin`, `MCExchange`, `MCTransfer`, `MCUpload`, `MCFileTable`, `MCAlgorithms` | | instances for TLC |

An operator whose comment calls it a "mutant of X" is not part of the model. It is a plausible bug
in the code of `X`; with it in the place of `X` the property named in `PROJECT.json` fails, which
shows that the property depends on that code.

### ThreadPool

A worker's program counter is a place in `handEvent` where another thread can act: `lock`,
`check` (the `while` condition), `sleep` (between it and `pthread_cond_wait`), `blocked`, `test`
(`if (exitFlag)`), `work`, `dead`. `heap` and `live` are the memory of `calloc` and `free`, so an
address can come back; `pRear` dangles when the queue empties, as in the code. `MainEnqueue` is
one step, since everybody else touches the queue with the mutex held. `exitFlag` is a plain `int`
that main writes with no lock while workers read it: a data race. The reads stand between lock
and wait calls the compiler cannot see into, so each read yields the old or the new value at the
moment of the step, which the interleaving covers. `pthread_cond_wait` may return with no signal
(`SpuriousWake`). A client in `Stuck` has gone away; `recvn` never lets its worker go.
`order` is a history variable: the nodes in the queue.

### Sessions

`clients`, `clientNum`, `slotMap` and `timeIndex` are the code's. `fdTable` gives a closed number
out again, the lowest first. A slot node carries a user id and nothing that is read but that. A
slot that `clearSlot` has freed keeps its pointers (`freed`), and a node from `malloc` may have
any `next` (`garbage`); a step that follows either sets `fault`, and the model ends there. The
main thread handles one event per turn of `Dispatch`, `Serve`, `EndDispatch`. This loses nothing:
`epoll_wait` reports several at once, but the wheel turns only in a round that reports none.
`Serve` covers `recvn`, the command, `removeFromSlot` and `attachToSlot`; `ClearOne` is one node of
`clearSlot` with its `delFromClients`. `idle`, `regular`, `fired` and `strays` are history variables.

A login without a name, or one whose `getUserId` query fails, gets the id 0 (`sqlWheel.c:66-82`,
`clientIntro.c:28`). An entry that is not in use has that id, too. When the timer of such a session
runs out, `delFromClients` (`clientIntro.c:168`) takes the first entry of id 0; if an empty one comes
first, it closes descriptor -1, `clientNum` goes down, and the session keeps its entry without a
timer. `strays` counts these.

### Login

`pc[c]` is the place of a client in `userIntro` and the beginning of `vShell`, `srv` the place of main
in `clientIntro` with what its local variables hold. An item is a string with its length or an int;
`Misread` is the step of an end that finds the other kind, after which it waits for bytes that
nobody sends. `wrong` is `wrongTimes`. `form` is what the user typed last. A password is what
`crypt` reads of it and the rest, so that two passwords can be one to the server. `db` becomes FALSE
when the server's only handle loses its connection: every query fails from then on. `addUser`
fails, too, for a name whose `/name/` does not fit the column; MySQL is taken to run in strict mode,
where that is an error and no truncation. `Reply` to a client that has gone is lost or, if `send`
returns -1, keeps main for ever (`hung`). `KnownUser` and `UnknownUser` are the two halves of each
branch of `clientIntro`.

### Exchange

A transfer `t` is one command of a client, `at[t]` the place of the client thread that serves it,
`work[w]` the place of a worker with its local variables, `main` the place of the main thread on the
sub port. `up[t]` and `down[t]` are the items under way. What arrives together is read together
(name and token, type and directory). `Ends` is the end of a client process with all its threads,
either because the user left or because `recvn` in one thread found the end of the stream.
`getUserId`, `isFileExistInPwd`, `isFileExistInTable` and the insert may fail at any time, as a query
does that another thread disturbs; a failed `getUserId` is the owner 0, `Nobody`, of rows that are
asked for or added. `stored` is the set of the files the server can open; in the beginning there may
be a row without its file. Of the trains of a file it matters whether the last is full (`Length`):
`gets` of a multiple of 1000 bytes (`"one"`, `"many"`), or of a file that `name.temp` says is complete
(`has`), comes as `"even"`, after which the client waits in one more `recvn` (`"last"`,
`client/transFile.c:116`) until the server closes the connection and it calls `exit(0)`. A `puts` of
exactly 1000 bytes leaves the worker in its last `recvn` (`server/transFile.c:75`). While an upload is
not done its stored file is shorter than it will be (`Cut`), so that a `gets` of it may come either way; afterwards `ftruncate` has given it its length.
A token is valid until `Lifetime` has passed since it was made, which for
one client may be before the clock starts. The one-second pause of `handEvent` and the speed
display are left out.

### FileTable

A command of the main thread is one step, because commands run one after another and the workers
only insert; `rmdir` is two steps (count, delete) because an insert between them matters. A path
is a sequence of names, and `getPwdFId` returns any directory row of the user with the path's
last name, which is what the query can return. A user name and a user id are one value. `f_id`s
are handed out once. `upload` is a worker with what the client sent; `addFileToTable` inserts it
much later. A session ends (`Leave`) by `exit`, by the timer or with its client, and what it did to the
path stays. `reused`, `strayed` and `behind` are history variables: `behind` are the sessions that
have not been told of a `cd` or a login in another session of their user.

### Upload

A worker's steps are the points between system calls and queries: `check` the table, `open` (with
`O_TRUNC`) the stored file, `recv` it, `add` the row. A folder is an owner with a parent id. Files
are stored under the bare name. Equal md5 means equal content. `rm` deletes rows at any time. When
the query of `isFileExistInTable` fails (`CheckFails`), its -1 counts as "is there": nothing is sent
and the row is added all the same, if a file of that name is stored. `recvFile` keeps the first
1024 bytes of a longer content (`Kept`), and stays in its last `recvn` after exactly 1000 bytes:
such a worker is in `recv` for ever. The history `contents` collects what clients sent as a file
and what a failed query took for sent.

### Transfer

The wire is a sequence of items: a length with its bytes is one item, since both sides stay in step
on item boundaries (a train of another length than the receiver expects ends the loop, it does
not shift the framing). `puts` has the client's train (1024) against the server's expectation
(1000); `gets` has 1000 on both sides. `temp` is the number in `name.temp`. The code creates that
file with `O_CREAT` and no mode, so whether it can be opened again is not determined: `openable`.
`Lose` breaks the connection anywhere, `ClientDies` ends the client, `Again` is another `gets`.

### Shell and PathTree

A path is a sequence of the names before each slash, so that doubled, leading and trailing slashes
stay distinct until `strtok` (`Tokens`) drops them. The client's side is one action per branch of
`vShell`, which both asks and takes the answer; the server's is one per branch of `vFinder`, with a
boolean for every query that may fail. `PathTree` knows only lists of names: enter, leave, home.
The mapping is the tokens of `u_pwd`, the tokens of what the client shows or will show, and
whether the path still begins at home. `vShell` receives the answer of `cd` into the buffer that
still holds the command (`client/vShell.c:191-199`), so a path shorter than the line is shown with the
line's end behind it: after `cd .` the prompt for `/u/` is `/u/.`. `buf` counts the characters in that
buffer, `Beyond` what sticks out, `tail` what the prompt shows of it; `pwd` clears the buffer first.
`PathTree` allows such a remainder (`trailing`) and bounds it by the length of a line. A line of
`ARGCMAX` words or more makes `myParse` write a NULL behind its array (`ShellOverrun`): the shell
ends, or reports wrong arguments, since no command has so many words. The bound on the names is the size of the array that
`myLastWd` fills, with its terminating NULL.

### Md5 and ExpireClock

A word of 32 bits is a pair of 16-bit halves, since TLC's integers have 32 bits with a sign. `Md5`
has the loop over the reads of a file, the buffer that is filled and mixed block by block, the
padding and the two words of the count as the code has them. What is done with a block is the
constant `Transform`, an operator: `Md5Block` has the one of the code, `MD5Transform`, in sums,
rotations and logic of 32-bit words. The reference, `RfcDigest`, pads the whole text first and then
goes through it block by block; it knows neither reads nor a buffer nor a count.
`ExpireClock` adds single seconds as the loop of `expireUserToken` does; its reference counts days
in cycles that begin in March.

Each of the two is a small state machine of its own. `Digest` is a `puts` of the client that digests
one of `Files`, and `digests` what it got; `Expire` is the end of a command at one of `Times`, and
`updates` the expiry that is written. A file is a `text` and the number of blocks `before` it that
have been mixed already (`Resumed`), so that counts of 512 MB are reached with short texts; with
`before = 0` it is the whole file.

## 3. The runs

| Run | What it asks | Result |
|---|---|---|
| `pool` | type, list, mutex, take, lost wake-up, refinement of `TaskPool`; an accepted task is taken; an exit completes if nobody is falling asleep | holds |
| `pool_exit` | does an exit always complete? (`ExitCompletes`) | **violated** |
| `sessions` | table and wheel agree, entries are current, timeouts come in time and to idle sessions | holds |
| `sessions_liveness` | a command is served, until the first timeout | holds |
| `sessions_ring` | can a slot be used again? (`SlotsAreReusable`) | **violated** |
| `login` | both ends in step, only who gave the password gets in, main comes back, everybody gets in | holds |
| `exchange` | no cycle of waits, rows are earned, `exit(0)` has a cause, the server comes back, transfers end | holds |
| `transfer` | completeness, `name.temp`, termination | holds |
| `transfer_upload` | has the server the whole file after `puts`? (`UploadIsWhole`) | **violated** |
| `upload` | rows have their content | holds |
| `filetable` | right directory, own directory, current id, no `rmdir` under a user | holds |
| `algorithms` | every answer fits its command, paths follow the tree, digests and expiries are right; two digests known from elsewhere come out (`KnownDigests`) | holds |

### Bounds, and why they are enough

- **pool**: three workers (`THREADNUM`), three connections, two list nodes, so that two tasks wait
  and a node comes back; one client gone. That reaches two sleepers with one signal, a task
  taken by another worker than the one signalled, and an empty queue with a dangling rear.
  `pool_exit` needs two workers and nobody stuck.
- **sessions**: three slots instead of 10: the slot being cleared, the one cleared last and one
  between are distinct, and the wheel wraps many times. Two entries instead of the array's size,
  three connections of two ids: the array fills, a hole appears below an occupied entry, a user
  has two sessions, and a login without a name (id 0) sits behind an empty entry.
  Three descriptors are reused. In `sessions` and `sessions_ring`, `malloc`
  returns zeros: garbage only adds behaviours that end in `fault`, of which these properties say
  nothing (and `sessions_ring` fails without it). `sessions_liveness` allows it.
- **login**: two clients, so that one waits while main talks to the other; two names of which one
  does not fit; three passwords of which two agree in what `crypt` reads; one user or none in the
  beginning; two wrong passwords (`MaxWrong`) instead of three, with the same way through the loop;
  an array of one entry, so that it fills.
- **exchange**: two clients, one with two commands and one thread, so that a task waits for a thread,
  and a second client for main and the workers; two workers, three files, two directories. The
  first command is `puts g` or `gets f`, of a rest of it or with a `name.temp` that says it is complete;
  then comes `gets g`, whether it is there by then or not; the other client types `puts e`, or a `puts g` that it
  has not. `e` has exactly 1000 bytes, `g` a larger multiple, `f` is short and has a row at the start: so
  there is a `gets` of a row of the start and of what was just put, with a short last train, a full
  one and none, and a `puts` that arrives, that keeps its worker, and of a file that the client has not.
  (A `puts` of what is in the table already goes as one whose check fails, which is there.) The token of the
  first client is one tick older and expires during the run; the clock ticks once. One row is
  there without its file or with it.
- **transfer**: 3 stands for 1000 and 4 for 1024, sizes from 0 to 10: less than, exactly and more
  than a train, one to four trains. Three attempts, so that an attempt goes on from one that
  itself went on. `transfer_upload` needs one attempt.
- **upload**: two workers, two folders, two names, all symmetric, and three contents, one that fits,
  one of more than 1024 bytes, one of exactly 1000: two writers of one file, and each way in which a
  row and a content can differ.
- **filetable**: two sessions of `gxg` and one of `yxf`; `gxg` makes directories `a` and `yxf`, so a
  directory is named like a file and one like another user; four rows, paths of up to three names
  (the column has 20 characters), one worker (inserts are single queries; what matters is that an
  upload is under way while commands run). The two sessions of one user are symmetric. The bound on
  rows is a guard on inserts.
- **algorithms**: names of one and two characters, with slashes before, behind and doubled, a
  column of 8 characters instead of 20 and an array of 4 names instead of 10, in the proportion of
  the code: the longest path of one-character names is as many names as the array takes (the theorems
  about `Shell` are for all sizes). Lines with
  too many and too few words, of `ARGCMAX` words, of blanks only, and with doubled blanks; lines
  longer and shorter than the path (every command word counts as two characters). Files of every length
  around the ends of one to five blocks, reads of two blocks (128) instead of 16 (1024), and files
  whose bit count carries into its second word (the blocks before are taken as mixed), and two texts
  whose digests are known from RFC 1321 and from `NetDisk.sql`. Times at
  every end of a minute, day, month and year from 2000 to 2100, with 30 seconds (`EXPIRETIME`).

Deadlock is checked in `upload` and `algorithms`. In the others the system may stop: the pool is
dead or everybody waits for a client that never comes; `fault` ends `Sessions`; all clients of
`Login` and `Exchange` have gone; `FileTable` may run out of rows; a transfer is over.

### Fairness, and why

- **ThreadPool**: weak fairness of each worker (the kernel runs a thread that can run), and of
  main's broadcast and join. Strong fairness of `MainEnqueue`: a mutex that is free again and
  again is granted at some time to a thread that waits for it, which POSIX does not promise in the
  letter and the futex mutex of Linux gives in practice. No fairness for clients, the exit pipe
  and spurious wake-ups.
- **Sessions**: weak fairness of main's own steps. Strong fairness of `Dispatch(f)` for each `f`:
  `epoll_wait` reports all ready descriptors (`maxevents` exceeds them), and the loop handles each of
  them before the next call. None for clients and time.
- **Login**: weak fairness of both programs, and of the quit that the program itself makes after too
  many wrong passwords. Strong fairness of `Serve(c)`: a new connection may be taken first, but
  `epoll_wait` reports a session again and again until it is served. None for what users choose and
  for deaths. `EveryoneGetsIn` assumes in its own statement that no user sits at the menu for ever.
- **Exchange**: weak fairness of the steps of all programs together. There are finitely many
  commands and each takes finitely many steps, so that nothing can be overtaken for ever. None for
  users and for the clock.
- **Transfer**: weak fairness of each side: the process goes on, TCP delivers what it has not lost and
  reports a broken connection. None for losses, deaths and retries.
- **FileTable**, **Upload** and **Shell** have safety properties only.

### What the violated properties show

1. `pool_exit` (`server/server.c:146`): `exitFlag` is set and the condition broadcast without the
   mutex. A worker between its test (`worker.c:20`) and its wait misses both and is joined for
   ever. `ExitCompletesIfNoneFallsAsleep` holds: this is the only way, besides a stuck client.
2. `sessions_ring` (`server/timeSlot.c:20`): `clearSlot` frees nodes and leaves `head`, `tail` and
   `size`. The next use of the slot follows freed memory.
3. `transfer_upload` (`server/transFile.c:58`): the server leaves its loop at the first train of
   1024 bytes, and the upload of a longer file counts as done.

### What the properties excuse by name

Each of these is behaviour of the code that a property names, so that nothing else can hide in it:

- `TransferEnds`: a file of exactly 1000 bytes keeps the worker of a `puts` for ever.
- `RowsHaveContent`: names under which two contents were sent, and names that a failed check took for
  sent; of a file of more than 1024 bytes only the first 1024 are stored, the rest is zeros.
- `DoneHasTheRest` speaks of the bytes from `start` on: a download that goes on
  after the number in `name.temp` opens the file with `O_TRUNC` (`client/transFile.c:69`), so what came
  before is zeros, and "100.00%" is shown.
- `CachedIdIsCurrent` (`behind`): login and `cd` of another session of the user move the path
  (`server.c:101`, `sqlWheel.c:648`), and the client goes on sending the directory it was told of, also
  when that session has left. `RightDirectory` and `CurrentDirectoryStays` (`reused`, `strayed`): with
  two directories of one name, or after a `cd` to nothing, the last name does not tell which.
- `TimerClosesOnlyIdle` and `EntryIsCurrent` stop at the first `exit` and the first second session of
  a user (`regular`): an entry outlives `exit`, and a node of the wheel names a user only.
- `CommandServedBeforeTimeouts` stops at the first timeout: it may leave a hole in `clients`, and the
  loop covers the first `clientNum` entries.
- `NoneLost`: a login without a name, which main takes for successful (`clientIntro.c:41`).
- `NeverBothWaiting`, `DialogueEnds` (`Refused`): when `addUser` fails, the client takes itself for
  logged in and main waits for a command, for ever (`clientIntro.c:116`).
- `EveryoneGetsIn` (`CrowdedOut`): with the array full a client is let in and never heard.
- `OneTimerPerSession`, `EntryIsCurrent`, `NeverLate` (`strays`, `Lost`): a session of id 0 loses its
  timer to an empty entry and stays.
- `ServerComesBack`, `EveryTransferEnds` (`Keeps`): a `puts` of a file that the client does not have, or
  of exactly 1000 bytes, keeps its worker for ever; when all workers are kept so, later transfers never
  end. Both also stop when a client's process ends.
- `ExitHasCause`: a row without its file, a file that is a multiple of 1000 bytes and a `name.temp` that
  says the file is complete make the client call `exit(0)`, which ends its other transfers.
- `RowsAreEarned` (`Nobody`): when `getUserId` fails for a `puts`, the row is owner 0's.
- `AnswerFitsCommand`: after a failed query `ls` is not answered and the client waits for the timer.
- `ExpiryIsRight` (`WrongLeapDay`): the 29th of February 2100.

### Known divergences

Two more places where the code does not do what its comments or messages say. No run checks
them, since the model says there exactly what the code does; the properties near them do not
promise the contrary.

- A download that goes on opens the file with `O_TRUNC` (`client/transFile.c:69`) and seeks to the number
  in `name.temp`: what was received before is zeros, and `client/worker.c:87` prints success. That
  `DoneHasTheRest` and `TempIsNotAhead` hold does not make the resumed file whole.
- `rmdir` deletes a directory with one entry: the count is compared with `> 1` (`sqlWheel.c:502`), while
  the comments at 480, 501 and 507 want only an empty directory deleted. The entry then hangs in
  nothing. `TooFull` is the code's comparison, and `ParentIsOwnDirectory` allows a parent that is gone.

## 4. The proofs

Eight modules hold theorems, each for every value of the constants that satisfies the named
assumptions of its component.

### ThreadPool

For any finite set of workers, any connections, any list nodes and any stuck clients:

| Theorem | States |
|---|---|
| `TypeCorrect` | `Spec => []TypeOK` |
| `QueueStaysLinked` | `Spec => []QueueLinked` |
| `MutexCorrect` | `Spec => []MutexInv` |
| `TakeIsSafe` | `Spec => []TakeFindsTask` |
| `NoLostWakeup` | `Spec => []NoSleeperWhileWork` |
| `PoolImplementsTaskPool` | `Spec => PoolRefinesTaskPool` |

Assumptions: `WorkersFinite` (the count of awake workers is a number), `StuckTasks`, `NullIsNoNode`,
`NoneIsNobody` (a sentinel is not a node, a worker or a task).

The inductive invariant `IInv` is the conjunction of the properties and of what makes them
inductive:

- `TypeOK`, `QueueLinked`, `MutexInv`: mutual exclusion is what lets an enqueue or a dequeue assume
  the list it finds.
- `SleepInv`: at `sleep` the queue is empty. Without it a worker could go to sleep on work. It holds because the mutex is kept from the test to the wait.
- `TestInv`: at `test` there is a task or the exit flag is set. It holds because nobody dequeues
  between the test and the take. `TakeFindsTask` follows.
- `NodesHoldTasks`: every queued node holds a task, never `None`; `TakeFindsTask` and the mapping of
  the queue to `TaskPool` need it.
- `JobInv`: a worker has a job exactly at `work`, so that `Take` in the abstract pool finds an idle
  worker and `Finish` a busy one; likewise main has a pending connection only in `submit`.
- `NoSleeperWhileWork`: one enqueue adds one task and wakes one sleeper, one take removes one of each.
  Going to sleep is harmless by `SleepInv`.

`EnqueueLinks`, `DequeueLinks`, `EnqueueAppends` and `DequeueTakesHead` are the lemmas about the list, `AwakeGrows` and
`AwakeShrinks` the two about counting. `MainKeepsIInv` and `WorkerKeepsIInv` have one step per action.
`StepRefines` maps each step to a step of `TaskPool` or a stutter: `MainReject` to `Reject`, `MainEnqueue`
to `Submit`, `WTake` to `Take`, `WFinish` to `Finish`.

### Upload

For any folders, names, contents (with any of them longer than 1024 bytes or of exactly 1000) and
workers: `TypeCorrect` (`[]TypeOK`, with the unique key of the table) and `RowsKeepTheirContent`
(`[]RowsHaveContent`), from `NothingIsNoPlace` (the mark of an idle worker is no place of its
program), `NoContent` and `Different` (no file, a damaged file and what is kept of a content are
different things). The property speaks of rows, but what can go wrong is under way in the workers, so
the invariant adds: what a worker is about to add has been sent under that name, or was taken for
sent, and the file of a row is there (`RowsWereSent`); two writers damage each other's file only with
different contents (`MixedInv`); a stored file for which clients mean one content, with nobody writing
to it now, is what is kept of that content (`StoreInv`); and the set of contents of a name is finite
(`FiniteContents`), so that "more than one" follows from two different members.

### FileTable

For any sessions, users, names and workers and any bounds (`UsersLogIn`, `PathFitsHome`,
`IdsAreNumbers`):

| Theorem | States |
|---|---|
| `TypeCorrect` | `Spec => []TypeOK` |
| `EntriesHangInOwnDirectories` | `Spec => []ParentIsOwnDirectory` |
| `CachedIdIsFresh` | `Spec => []CachedIdIsCurrent` |
| `LastNameIsEnough` | `Spec => []RightDirectory` |
| `RmdirLeavesThePath` | `Spec => []CurrentDirectoryStays` |

An entry is put into whatever `f_id` a client has kept or a worker has been sent, long after that
directory may have gone. `OwnDir(d, u)` is what stays true of such an id: it has been handed out,
and if a row has it, that row is a directory of `u`. `KeptIds` says it of every session and every
worker. It stays true because rows only go, or come with a new id (`Grows`, `OwnStays`). `OneMoreRow`
is the step of `mkdir`, `addHomeDir` and `addFileToTable`.

`CachedIdIsCurrent` needs `CacheInv`: a user who has not used a name twice has at most one directory
of each (`NamesUnique`), whoever is online has a path, which stays when he leaves, and whoever has none no directory (`HomeFirst`),
a parent is older than its entries, and `rmdir` is not about to delete a directory that somebody is
in. `RightDirectory` compares two definitions, the query for the last name and a walk along the whole
path that folds over its names, so the proof first says what the walk computes: it ends at
the last directory of a chain of rows, each hanging in the one before, exactly if there is such a chain
(`WalkIsChain`, `ChainIsWalk`). `PathInv` says that every path is such a chain (`PathsLead`) and has a home
at the top, that nothing hangs in a directory that was not found, and that what `rmdir` deletes lies
below its user's directory, so that no chain loses a member. With a name used once, the last of
the chain is the only directory the query can find (`PathEnds`): it is the walk's, and it is there. What a fold or a recursive function computes takes
an induction over numbers; the library's induction theorem cannot be used, so these proofs take
the least number for which the claim fails, which well-foundedness of `<` on the naturals provides, and
refute it (`Least`, `UpTo` in `AlgorithmProofs`).

### Transfer

For files and trains of any size and any number of attempts (`SomeBytes`, `SomeTrain`: the trains of
`gets` have the length the client expects):

| Theorem | States |
|---|---|
| `TypeCorrect` | `Spec => []TypeOK`: neither end goes beyond the file |
| `ReturnedMeansReceived` | `Spec => []DoneHasTheRest` |
| `TempIsTrue` | `Spec => []TempIsNotAhead` |

`WireInv` describes what is under way: trains that follow each other from `total` to `sent`, each as
long as the sender makes a train at that place; a broken connection leaves the first of them.
`RecvInv` says that everything from `start` to `total` has been received, and that a receiver that has
left its loop is about to take the rest of the file, or nothing, unless a train of another length than
it expects was in the middle, which happens in `puts` only.

### Login

For any clients, names, passwords, salts and users at the start, any limit of wrong passwords and any
size of the clients array, with clients that die anywhere and a database that goes away at any time:

| Theorem | States |
|---|---|
| `AlwaysJoint` | `Spec => []IInv` |
| `TypeCorrect` | `Spec => []TypeOK` |
| `StaysInStep` | `Spec => []InStep` |
| `OnlyAuthenticated` | `Spec => []Authenticated` |

None of the properties is inductive: `StaysInStep` and `OnlyAuthenticated` follow from where the two ends can be *together*. `Joint(c)`
says it for one client, by where its connection is. In the backlog the client has said at most one
command (`AtMenu`). In the dialogue each place of main (`AtCommand`, `AtPasswd`, `AtCrypt`,
`AtAdmit`) allows a few places of the client, each with exactly what is under way in both directions
and with what main has stored: the user is the one the client named, and the password compared with is
that user's or empty. `Afterwards` is what a client that main has left may still be doing, and `Entered` ties its
entries in the array to what it proved. Of a dead client only what it has said counts. `Frame` shows
that a step that leaves a client alone keeps its `Joint`, though users are added and the database
goes; so every action has to be looked at for its own client only: `Inside` and `Outside` for the client's steps,
`TalkGoesOn`, `TalkIsOver` and `Hangs` for the server's. `Joined` and `Left` are about the backlog as
a queue without repetitions.

`TypeCorrect` has an invariant of its own, `Types`, which is inductive only together with `IInv`: that
the item a client answers with its password is a salt (`SaltComes`) and that `addUser` is given a name
(`NameIsGiven`) are facts about both ends. It says of a client that is in an attempt that it has not yet
typed `MaxWrong` wrong passwords. The assumptions: `MaxWrong` is a number (`WrongAssumption`), and the names there at the
start fit `u_pwd`, as those of `addUser` do (`RegisteredAssumption`).

### Sessions

For any connections and users, any wheel of at least three slots, any size of the clients array, any
number of descriptors and transfers, and whether `malloc` returns clean nodes or not:

| Theorem | States |
|---|---|
| `TypeCorrect` | `Spec => []TypeOK` |
| `TimersMatchEntries` | `Spec => []OneTimerPerSession` |
| `EntriesAreCurrent` | `Spec => []EntryIsCurrent` |
| `NobodyIsLate` | `Spec => []NeverLate` |
| `TimerSparesTheBusy` | `Spec => TimerClosesOnlyIdle` |

The last three are about states without a fault in which nobody has used exit and nobody has two
sessions. `IInv` says `Core` of these: a descriptor belongs to a session or to one transfer, so that
whoever closes it closes his own (`Descriptors`); an entry's descriptor is its user's connection and
a user has one entry (`Entries`); a slot has a node of a user exactly when an entry of that user names
the slot, and no user twice (`Timers`), except for a session that is `Lost`: its slot has been cleared
and is out of use (`Frozen`), so that a command of that session reads freed memory and sets `fault`. `NeverLate` and `TimerClosesOnlyIdle` do not follow from that:
they need how idle time and wheel go together. `Idle` says that the ticks a session has been idle
and the ticks left until its slot is cleared (`Left`) add up to `TIMEOUT - 1`, or to one less if it
has sent nothing since its login, unless it is `Lost`. Then a slot that is cleared has only sessions idle for
`TIMEOUT - 2` ticks or more, and a session idle for `TIMEOUT` ticks would have less than none left. `ClearOne` is
the step that needs everything. Either it drops an entry (`ClearOneDrops`): the head of the slot has an
entry there by `Timers`, it is the one `delFromClients` finds by `Entries`, and its idle time follows from
`Idle`. Or it takes an empty one (`Misses`): then the user is 0, no descriptor is closed, and the session
is `Lost` from then on. In both cases (`Leaves`) nobody else is touched, and when the wheel moves on nobody is left in the
slot that gets a whole revolution. The lemmas below are about lists of users
without repetitions (`Attached`, `Removed`, `Freed`) and the arithmetic of the wheel (`Ticks`,
`LeftTurns`, `Turns`). The assumptions are those of `Sessions`: at least three slots, at least one
entry, user ids that are numbers, and `None` and `Xfer` not connections.

The first two hold in every history, also with `exit` and several sessions of one user, and have an
inductive invariant of their own, `CInv`: the types, and `Counted` as long as no freed memory is
read: `clientNum` and `strays` together are the entries, and so are the nodes and `strays` for id 0. A user with two sessions can lose the entry that names one slot for the node of another, so nodes
and entries of a slot need not agree; they agree in total. The total alone is not inductive: when a timer
is renewed, `removeFromSlot` must find a node in the slot that the entry names, or the total would grow by one.
Therefore `Counted` adds that no slot has more entries of a user than nodes, unless the slot is being
cleared or has been (`Frozen`), where `removeFromSlot` faults. Conversely `clearSlot` lowers `clientNum`
without looking whether `delFromClients` found an entry. One of the user is there, since the totals
agree and the node that is freed is one of that user; for id 0 an empty entry may be taken in its place,
and `strays` counts it (`ClearOneSettles`, `ClearOneC`). An entry that is not in use names the slot -1,
which is none (`EmptyIs`). The lemmas about `Marks` (places of a user in
the lists of some slots: one more with `OneMore`, one less with `OneLess`, through a bijection that
closes the gap) and `Seats` (entries of a user that name some slots) do the counting.

### Exchange

For any clients, commands, directories, files, rows at the start, files on disk and workers, whatever
the age of the tokens:

| Theorem | States |
|---|---|
| `TypeCorrect` | `Spec => []TypeOK` |
| `NobodyWaitsForTheWaiting` | `Spec => []InStep` |
| `NewRowsAreEarned` | `Spec => []RowsAreEarned` |
| `ExitsHaveCause` | `Spec => []ExitHasCause` |

Four parties take part and none of the properties is inductive. `IInv` follows a connection through
the server. `OnePlace`: a connection is in the backlog, in the hands of main, in the queue or with one
worker, or the server has closed it, and it is in one of these only. `Fits` says for each place how far
the client's thread may be and what exactly is under way in both directions: `AtDoor` for the backlog and
main, `Accepted` for the queue and a worker that has read nothing yet, `Served` for each later place of a
worker with what its local variables hold, `Closed` afterwards; in each of them the thread may also have
ended with its client (`Ended`). `Shells` ties the waiting commands to the clients that run.
`History` says where rows come from and why clients ended (`Cause`). A step moves one connection, and
`OneMoves` with the lemmas on what a step leaves alone (`SameTalk`, `SameSeat`) shows that every other
connection still fits, whatever the step; so each action of a client's thread, of main and of a worker is looked at for its
own connection only. `InStep` follows since in each place of `Fits` either the thread has something to read, or
what the server waits for is under way. `RowsAreEarned` follows since a worker at `add` still has the
directory and the file that the client has named.

### Shell

For any names of any size, any lines, any column and array in the code's proportion
(`ShellAssumption`: the array has more than one entry and the column no more than two characters for
each, and no command has `ARGCMAX` words; `TextsAssumption`: a name that is not empty takes a character;
`LinesAssumption`: a line fits `BUFFERSIZE`):

| Theorem | States |
|---|---|
| `ShellReadsWhatIsSent` | `Spec => []AnswerFitsCommand` |
| `TextFollowsTree` | `Spec => PathsFollowTree` |

For the first, `LineFits` says that a line on its way to the server is the command that the shell waits
for, in the words that both ends read, and that no answer is under way meanwhile; then each branch of
`vFinder` is the one that the shell expects. For the refinement, `TokensJoin` and `TokensStay` say that the
names of two texts one after the other are those of the first and then those of the second, and that a
text without empty names is its own names; both and `TokensFit`, which counts two characters for each
name and one more for a leading slash, are inductions along the text. `PathInv` says what the column
may hold: a text that fits, or home. `StepMoves` sorts the steps by what they do to the text: it stays, is
looked at, goes home, loses its last name (`UpIs`), gets a name put after it or after an empty text
(`DownIs`); one lemma maps each of these to `PathTree`, and `FitsAfter` shows that the
path fits afterwards. `BufInv`, that the buffer holds no more than a line, and `TokensFit` bound
what is shown behind a path (`ShowsIs`).

### Md5

For any texts below 2^37 bytes, any size of a read whose bits one word counts, and whatever is done with
a block (`Md5Assumption`, `FilesAssumption`; `Transform` has no assumption):

| Theorem | States |
|---|---|
| `DigestFollowsRfc` | `DigestSpec => []DigestIsRight` |

`Holds(c, p, n)` says what a context is that has taken in the text `p` at the end of `n` bytes: `count`
is eight times `n` in two words, `state` is what the whole blocks of `p` make of the start, `buffer` is
the rest of `p`. `HoldsAtStart` is `MD5Init` (and `Resumed`), `UpdateHolds` is `MD5Update`: whatever
the input, the context afterwards holds the text with the input after it. That has three parts.
`CountAdds`: the sum of two words with the carry that `MD5Update` finds by comparing is the count of the sum
(`Carries`, by quotients and remainders). `MoreBlocks`: the first block lies across buffer and input
(`SubAcross`) and the others in the input alone, and together they are the next blocks of the whole text.
And the rest is less than a block. `AllReads` follows through the reads, of which the last may be empty,
and `FinalIs` through the padding and the eight bytes of the length (`PaddingIs`, `EncodedCount`), which are
two more updates. `Blocks` and the loop of `Compute_file_md5` are recursive functions; `BlocksAre` and
`DigestReads` say that they satisfy their equations, which takes an induction on how far a solution exists
(`StatesExist`, `ReadsExist`).

### ExpireClock

For any times of the calendar from year 0 on and any `EXPIRETIME` up to a day (`TimesAssumption`,
`ExpireAssumption`):

| Theorem | States |
|---|---|
| `ExpiryFollowsCalendar` | `ExpireSpec => []ExpiryIsRight` |

The property is an equivalence: the expiry is right on every day but `WrongLeapDay`, and wrong there.
The code carries from seconds to years by a list of lengths, the reference counts days by a formula, so
the proof first meets the two: `BeforeIs` gives the days before each month, `YearsStep` the days of a year, and
`MonthsMeet` the days from one first of a month to the next (`RealDayIs`, `MonthDaysAre`). `NextDayIs` says
where the code's next day is the calendar's. `Ahead` is the invariant of the loop: after `n` seconds the
time is `n` seconds further in the day, or beyond midnight once, and then in the day that `NextDay` gives. At most
one midnight is passed since `EXPIRETIME` is a day at most. `ExpiryIsAhead` is the induction.

### Model-checked only

- Liveness: `AcceptedTaskTaken`, `ExitCompletesIfNoneFallsAsleep`, `CommandServedBeforeTimeouts`,
  `DialogueEnds`, `EveryoneGetsIn`, `ServerComesBack`, `EveryTransferEnds`, `TransferEnds`. It is out of
  the prover's reach.
- `KnownDigests`, an assumption of `MCAlgorithms` that TLC evaluates: two given texts have their known
  digests, which shows that `MD5Transform` with its tables is that of RFC 1321. `Md5Block` uses the bits of
  numbers (`Bitwise`), of which the prover has no theory.

## 5. Not modelled

- **One MYSQL handle for all threads**: that a query fails is in `Login`, `Exchange` and `Shell`. That
  a result reaches another caller than its own is up to the client library and left out; so is a
  restart of the database, which may hand out an id again.
- **A descriptor that is closed twice**: `clientIntro` closes a connection on `quit` and main closes it
  again (`server.c:82`). Between the two a worker may open a file under that number. The modules
  give every close its own descriptor.
- **The name of `myLastWd` as an array of pointers into a buffer of a function that has returned**:
  `Shell` reads the names as they were.
- **`l8w8jwt`**: a third-party library of which the repository has the headers. A token is valid until
  its expiry and the tolerance have passed.
- **The tables `UserToken` and `Log`** are written and never read.
- **The text of the list of `ls`**: `vShell` receives it over the word `ls` in the same buffer, so an
  empty list is shown as `ls`.
- **A `gets` and a `puts` of one stored file at once**: the worker of the `gets` maps the file, and a
  `puts` that truncates it meanwhile may end the server with SIGBUS. `Exchange` has the lengths only.
- **What the write behind `cmd` may hit** besides ending the shell: the variables around the array
  depend on the compiler.
- **Sockets, processes, start-up, printing, `vip`**: no state that a property could be about.
- **Lab, presentation, master**: experiments, slides and a binary; not the program.
