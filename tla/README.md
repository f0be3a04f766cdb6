# A verification project for SPO

The repository holds the programs of a course in systems programming (SPO), one
directory per exercise (`Vaje 1` … `Vaje12`, `Predavanje-10-12`): small C
programs, each of which uses one mechanism of a Unix system or of the Linux kernel.
Most of them are concurrent, or meet others in the file system: processes around
System V objects, threads behind a mutex, servers with forked children, shells with
pipes, drivers whose calls overlap, editors of one file. Those are modelled here in
TLA+, checked with TLC on small instances, and all of the safety that is checked is
proved with TLAPS for every value of the constants.

The programs do not interact across exercises, so the project is a family of
specifications with one root per program or per group of programs that talk to
each other.

## 1. Inventory

| Component | Source | State it keeps | Operations | Who it meets, and where | What is hard | What makes it correct |
|---|---|---|---|---|---|---|
| Message pipeline | `Vaje 6/generator.c`, `posrednik.c`, `zapisovalec.c` | a semaphore, a shared segment, a message queue, a file | print a text, pass it on, write it down | three processes, started by hand, meet only in the kernel's objects | start order, `SETVAL` by two programs, sends outside the lock, a queue that fills up, a killed generator | exclusion, whole texts, each text once and in order, an end for everybody |
| Monte Carlo | `Vaje 7/naloga.c` | two global counters, a mutex, the threads | sample a batch, commit it, join, report | `main` and its threads | many threads that reach the quota at once, an unlocked read | bounded overshoot, consistent counters, a final report |
| Blackjack over a socket | `Vaje 8/server.c`, `client.c` | totals of the game, the connection, the queue of `listen` | deal, ask, answer, draw, settle | one client at a time; the others wait | a client that goes away, texts cut by `read`, two closes | the rules, one right ending per client, no mutual wait |
| Blackjack at a terminal | `Vaje 8/blackjack.c` | two global totals | deal, hit, stand, draw, settle | nobody | totals that live on | the rules |
| Prize server | `Vaje 9/server.c`, `client.c` | descriptors, children, pending signals, threads | accept, fork, answer, wait | forked children, threads | merged `SIGCHLD`s, inherited descriptors, a failed `fork`, short reads | no zombie for ever, the right reply, the client ends |
| Quantum-set driver | `Vaje11/gonilnik.c` | pointers to quanta, `size`, file positions | open, read, write, release, unload | users without any lock | overlapping writes, failed allocations, boundaries and the widths of ints, uninitialised memory, unloading | nothing beyond capacity, no hole, no read of unwritten bytes |
| Blinking LED | `Vaje12/malinaSW.c` | LED, switch, interval, a kernel timer | write a command, callback, unload | writers and the timer's callback | re-arming from two sides, `del_timer` | on means armed, off means at most one more toggle, a callback that unloading meets runs at most once more when the switch is off |
| Counting driver | `Vaje10/gonilnik.c`, `pomozni_program.c` | `open_count`, file positions | open, read, release; the helper reads to the end and prints | users without a lock | lost increments, a text that grows between two reads | no open lost unless two overlap, reads that bring what some text had there, a helper that ends |
| Shell | `Vaje 4/shell.c` | the command counter, the buffer of `stdio` | read, parse, fork, exec, wait | its child, the terminal, a script | a failed `execvp` goes on as a second shell, with a copy of the buffer | one reader of the terminal, the prompt comes back, how often a script's line runs |
| Shell with a pipe | `Vaje 5/shell2.c` | descriptors of three processes | pipe, fork, exec, wait | both ends of a pipe, the terminal | who still holds the writing end, a right side that outlives its line | both sides end, the prompt comes back |
| Alarm phases | `Vaje 5/naloga1.c` | phase, alarm | `SIGALRM`, `SIGINT` | signals, the terminal | an alarm re-armed with whole seconds, or that rings while it is stopped | phases of five seconds, give or take one per Ctrl+C; an end |
| Line editor | `Vaje 3/kamned.c` | a file and its copy | append; copy with a change, `unlink`, `rename` | other programs in the directory | a crash between two calls, a `new_file` left behind | an edit is whole or not at all |
| Tail | `Vaje 1/rep.c` | a file position | search backwards for line ends, print | those who write the file | fewer lines than asked for, empty lines, a last line without its newline, a file that grows | the end of the file, from the newline the count leads to |
| chmod, ls | `Vaje 2/mojChmod.c`, `list.c` | the mode looked at | `lstat`, `chmod`, print a row | other programs in the directory | the mode changes between looking and setting | a change is one bit or all, a row tells its mode |
| tee | `Vaje 1/tee1.c` | the open file | copy lines, with or without `-a` | other programs in the directory | – | an added line is the last one |
| Echo server | `Predavanje-10-12/echo-server-par.c`, `client-many.c` | children, connections | accept, fork, echo | forked children | nobody collects them | – not modelled |
| open, buffer timing, build helper | `Vaje 1/open.c`, `Vaje 3/naloga1.c`, `compile_c_files.c` | – | copy, measure, call the compiler | – | – | – not modelled |

## 2. Modules

| Program | Modules | Root | Proofs |
|---|---|---|---|
| Vaje 6 | `SysVIPC` (the kernel's objects) ← `Generator`, `Posrednik`, `Zapisovalec` | `MessagePipeline` | `MessagePipeline_proofs` |
| Vaje 7 | `SampleBudget` (abstract), `MonteCarlo` | `MonteCarlo` | `MonteCarlo_proofs` |
| Vaje 8, socket | `TableNet` (sockets) ← `BlackjackServer`, `BlackjackClient`; `BlackjackRules` (abstract) ← `BlackjackTable` | `Blackjack` | `Blackjack_proofs` |
| Vaje 8, terminal | `BlackjackRules` (abstract), `BlackjackSolo` | `Blackjack` (both games) | `Blackjack_proofs` |
| Vaje 9 | `PrizeNet` (sockets) ← `PrizeServer`, `PrizeClient` | `PrizeGame` | `PrizeGame_proofs` |
| Vaje 11 | `QSetDriver` | `MCQSetDriver` | `QSetDriver_proofs` |
| Vaje 10, 12 | `CountDriver`, `BlinkDriver` | `Drivers` (either of them) | `Drivers_proofs` |
| Vaje 4, 5 | `CommandLine` (what the terminal's programs share) ← `Shell`, `PipeShell`, `AlarmPhases` ← `Shells` | `MCShells` | `Shells_proofs` |
| Vaje 1, 2, 3 | `Directory` (the file system) ← `LineEditor`, `ModeChanger`, `LastLines`, `Tee`; `EditedFile` (abstract) ← `FileTools` | `MCFileTools` | `FileTools_proofs` |

A `.cfg` file belongs to the root whose name begins its own (`Pipeline*.cfg` to
`MessagePipeline`, `Prize.cfg` to `PrizeGame`, `RepReadme.cfg` to `FileTools`) or, where there is one, to the `MC`
module of that root.
Operators whose names carry an underscore (`AddN_NoRecheck`) are *mutations*: what
the operator after the underscore would be with one plausible mistake in the code.
Each property of each passing run is violated when one of them takes the place of
the operator it mutates. `TypeOK` (`LedTypes` in `BlinkDriver`) says what values a
module's variables take; it is a
conjunct of the inductive invariants of the proofs, and not among the runs'
properties, which are those that could go wrong.

### Vaje 6: the pipeline

`SysVIPC` says what `semget`, `semctl`, `semop`, `shmget`, `msgget`, `msgsnd` and
the three `IPC_RMID`s do. Objects are numbered by their creation; removing one
frees its key. A segment's content is the number in its text (0 until a whole text
was printed) and whether its first byte is NUL: the programs compare nothing else.

| Program | Actions, in the order of the code |
|---|---|
| `generator.c` | `GSemGet`, `GSetVal`, `GShmGet`, then `GLock`, `GPrintPart`, `GPrint`, `GUnlock` for each text, `GCut`; `GFail` when the semaphore is gone |
| `posrednik.c` | `PSemGet`, `PSetVal`, `PShmGet`, `PMsgGet`, then `PLock`, `PCheck`, `PShow`, `PSend`, `PUnlock` in the loop, `PUnlockEnd`, `PSendEnd` twice, `PRmSem`, `PRmShm` |
| `zapisovalec.c` | `ZMsgGet`, then `ZRecv` and one of `ZSkip`, `ZWrite`, `ZEnd`, at last `ZRemove`; `ZRecvFails` on a queue that is gone |

`sprintf` over an older text of the same length changes one digit and is one step
for a reader; the first text grows in an empty segment and takes two. Sleeps are
counted in ticks. On a `prompt` machine everything else is instantaneous next to a
tick; otherwise a tick may pass at any time, so the sleeps order nothing. When the
programs are started in order (`ordered`) posrednik waits for the first text and
zapisovalec for the queue; otherwise anybody starts at any time. `Kill` ends the
generator at any point and lets it be started again; since no operation carries
`SEM_UNDO`, what it held stays taken. `broken` is a history variable: a `SETVAL`
hit the semaphore while the other program held it.

What the model says of the program beyond its properties: started too early,
posrednik takes the empty segment for the end and zapisovalec may wait for ever for
a queue that has gone, which is why the run has no deadlock check and why the
properties about endings are about ordered runs. The two sends after posrednik's
loop (posrednik.c:79, 95) run without the semaphore. A behaviour may begin with what
an earlier run has left (`leftover`): the segment of a generator that nobody listened
to, or the segment and the taken semaphore of one that was killed. Programs started
in order get over both; a posrednik started before the new generator sends the old
text, which is why `FileInOrder` asks for the order then.

### Vaje 7: Monte Carlo

One action per statement that another thread can observe: `LockTop`, `CheckTop`,
`Sample`, `LockAdd`, then `GiveUp` or `AddN` and `AddP`; `Create`, `Join`, `Report`
for `main`. A batch is a number of hits between 0 and `Batch`. `SampleBudget` is
what the threads together promise: batches committed one at a time, below a quota.

### Vaje 8: blackjack

`BlackjackRules` is the game both programs promise, with nothing of sockets in it.
`TableNet` is what the kernel does for the server and its clients: the queue of
`listen`, the two directions of a connection as sequences of texts, what a client's
exit leaves behind (`fin`, a reset, a broken connection), and, when `Splits`, the
client's question cut in two by `read`. `BlackjackServer` has one action per write
or read of `server.c` with the arithmetic that belongs to it (`DealPlayer`,
`DealHouse`, `Ask`, `ReadAnswer`, `ReadEnd`, `ReadFails`, `Hit`, `Draw`, `Settle`,
`Sigpipe`), `BlackjackClient` the loop of `client.c` (`Connect`, `Read`, `Answer`,
`ReadEof`, and `Leave` for the person who ends it).

Two ways of the server are kept as they are. Whoever draws 21 has the socket closed
inside the dealing function and the game goes on: its later writes and its second
close fail harmlessly. And `read` returning 0 is taken for an unknown answer, so
that the question goes to a client that has left until `SIGPIPE` ends the server.
An `accept` that fails ends the server (`AcceptFails`).
Left out: a client's terminal at its end of file (the answer buffer is then
uninitialised), answers of more than nine characters, and the choice of the random
seed.

`BlackjackSolo` is `blackjack.c`, with the totals left over from game to game;
answers of more than two characters are left out. `Blackjack` puts the two games beside
each other: a behaviour is one of the network's table or one of the game at the terminal.

### Vaje 9: prizes

`PrizeNet` keeps the listening queue, both directions of each connection and the
set of descriptors, each a pair of a process and a connection: a connection is at
its end when nobody has its other side open. `PrizeServer` has the parent (`Accept`,
`Fork`, `CloseParent`, and `CallFails` for an `accept` or a `fork` that
ends the server), the children (`ChildRead`, `ChildReply`,
`ChildClose`, `ChildExit`) and the signal: a bit `sigchld`, because pending signals
merge, and the handler, which interrupts the parent (`Deliver`, `WaitPid`,
`HandlerReturns`). `PrizeClient` has `main` and its threads. A reply is two pieces
that a `read` may get together or apart; the read at client.c:68 throws away what
it gets. Which of the two texts the server sends depends on its pid and is left
out; a number is at most ten bytes and travels in one piece.

### Vaje 11: the quantum-set driver

One action per access to the shared structure: `BeginWrite`, `CheckArray`,
`NewArray`/`NoArray`, `ClearArray`, `CheckQuantum`, `NewQuantum`/`NoQuantum`,
`Copy`/`CopyFails`, `CheckSize`, `SetSize`/`SizeIsFine`; `BeginRead`, `CheckCount`,
`LimitCount`, `EndRead`; `Open`, `Release`, `Cleanup`. The driver has no lock, so the
calls of different users interleave between any two of them, and two writers that find
the same slot empty both allocate. `Junk` is what `kmalloc` may leave in `size`, and
`data` may start `"wild"`, since nothing clears the structure. `oops` stands for the use
of a bad pointer, after which nothing is said. Integers have their widths: `s_pos` is an
int (`Signed`), so the index of a position from `Q * Half` on may be negative and pass
the test of line 148, which is an `oops`, or wrap to a slot there is; `size` is an
unsigned (`Unsigned`). A read looks at `size` three times (lines 112, 116, 117).

The parentheses missing at gonilnik.c:93 are kept: `O_ACCMODE == O_WRONLY` is false, no
open ever truncates. `trim` counts to Q in an array of S, as in the code: with the
program's 10 and 5 it reads past the array when the module is unloaded, another `oops`;
what it must still do then is free every quantum (`UnloadFreesAll`). And since `fops` has
no owner the module may go while files are open or calls under way (`Cleanup` at any
moment, `UseOrphan` for whatever such a user does next, an `oops` too).

History variables (`zeroed`, `raced`, `jumped`, `stale`, `over`, `regrown`) say which
liberties a behaviour has taken and what came of them. `WellUsed` excludes overlapping
writes, a `pwrite` that starts beyond the end, and memory that was not zero. Left out:
`init` failing half-way, and a user with two open files.

### Vaje 12: the blinking LED

`SetInterval`, `SetSwitch`, `CheckSwitch` and `Arm` are `device_write`;
`CallbackCheck`, `Toggle`, `Rearm` are the callback, entered by `Expire`; `Exit` is
`modul_exit`. A command that is not recognised, or a buffer that cannot be copied,
changes nothing and is no action. `late` counts toggles after the switch went off;
`caught` says that the callback was running when the module left, and `after` counts its
runs after that. `Drivers` puts this driver and the next one side by side, each on a
machine of its own, and a behaviour is one of either.

### Vaje 10: the counting driver

`Open` and `OpenStores` are the load and the store of `open_count++`; `Read` and
`HelperReads` are `device_read`, which makes the text anew from the counter of that
moment and takes a piece of it at the file's own position. A text is its words and
the digits of the number, in base `Base`, so that a carry makes it longer. The helper
prints its buffer up to a zero nobody has put there: `buffer` is what it is known to
hold, and `Spills` what the stack may hold behind it up to the next zero. Its `write` fails, for the driver
has none. Loading and unloading the module are left out.

### Vaje 4 and 5: programs at a terminal

`CommandLine` has the lines a person may type, as sequences of words (an empty word
stands for a second space), `strtok`, `execvp` and Ctrl+C. Programs are `ls`, which
writes, `cat`, which reads to the end, and `head`, which reads a piece; other words
name none.

`Shell` is a chain of processes, since each waits for its one child: `ReadCommand` is
`fgets`, `fork` and the counter; `ChildExec` chooses the parser and calls `execvp`, and
when that fails the child goes back to `fgets` as a shell of its own; `WaitChild` and
`ReadEnd` end a process. A script is read by one `read`, so every process forked later
has a copy of the rest of it and of the place in it.

`PipeShell` has, for every line so far, P2, P3, and the pipe with who holds its ends:
`P1Command`, `P1Wait`, `P1End` for P1; `P2Simple`, `P2Pipe`, `P2Exec`, `P2Wait` for
P2; `P3Exec` for P3; the rest is what the programs do with the pipe. It is modelled at
a terminal only: with a script, a P2 that calls `exit` puts the shared place in the
file back to where its copy of the buffer is, which the C library and not this code
decides.

`AlarmPhases` is the third program of these exercises, which catches, ignores and dies
of Ctrl+C in turn. Its time is ticks, `Second` of them in a second, because `alarm`
returns whole seconds (`WholeSeconds`: the nearest, but never 0 for an alarm that is
set). `handle_sigint` is `StopAlarm` and `RestartAlarm`, with `SIGALRM` handled between
them when it comes there; it may ring inside the first call (`late`).

`Shells` puts a person in front of any of the three. `Interrupt` is Ctrl+C, which reaches
the shell and all its descendants: handlers print and programs die; the third program has
a `CtrlC` of its own, bounded by `MaxTyped` like the lines. `SIGUSR1`, whose
handler only prints, is left out, as are lines longer than the buffers.

### Vaje 1, 2 and 3: programs on files

`Directory` is the file system: names with their inodes, an inode with its bytes and
the twelve bits of its mode, which say who may open it, links that `open`, `stat` and `chmod` follow and `lstat`,
`unlink` and `rename` do not, files that live on while they are open.

| Program | Actions, in the order of the code |
|---|---|
| `kamned.c -a` | `AppendOpen`, `AppendLine` for each line, `AppendEnd` |
| `kamned.c -d`, `-i` | `Stat`, `OpenNew` or `NewFails`, `OpenOld` or `OpenFails`, `Copy`, `CloseNew`, `Unlink`, `Rename` |
| `mojChmod.c` | `Lstat`, then `SymbolicChmod`, or `OctalChmod` and `LstatAgain`; `ChmodFails` |
| `list.c` | `ListOpen`, `ListRow` for each name |
| `rep.c` | `RepOpen`, `RepScan` for each byte, `RepFails`; or `RepPrints` for each read that prints, `RepEnd`, `RepClose` |
| `tee1.c` | `TeeOpen`, `TeeLine` for each line, `TeeEnd` |

`FileTools` lets processes run one program after another in a directory with a file
`f`, a link `l` to it, and the editor's `new_file`, and kills them anywhere. A text is any
bytes, empty lines and a last line without its newline included; a line that is typed is
the letter of who types it and a newline. Lines are shorter than the programs' buffers,
and a text fits a block of `stdio`, so an edited copy is written by one `write` at
`fclose`. The processes are one ordinary user's: a file whose mode says so cannot be
opened, and `kamned` then gives up before it has done anything, or with a `new_file`
left behind. What the programs print at their end is left out,
except where it is the point of the program (`rep`, `list`, `mojChmod`); `tee1` prints a
buffer nobody ends with a zero. What `rep` has printed is the history `shown`, together
with the file as it was when `rep` opened it and when it read it last, and forgets it all
once the file did anything but grow.

`EditedFile` is what the user of these programs expects of `f`: a line added, a line
taken out or put in, a bit of the mode set, each at one moment. `FileSpec` says that
they implement it, the moment of an edit being its `unlink`, as long as no two writers
meet. `Disturbs` lists what counts as meeting, and each of its cases is a way in which
the program really fails: two editors share `new_file`; an editor or a chmod undoes
what was done since it looked; after a kill between `unlink` and `rename` there is no
`f`; a `new_file` left by a killed editor keeps its old mode, since `O_TRUNC` does; and
a symbolic `mojChmod` of a link gives the file the link's own mode, all permissions.

## 3. Runs

| Run | Instance | Properties | Shows |
|---|---|---|---|
| `monte_carlo` | 3 threads, quota 5, batch 2 | `Overshoot`, `CountersAgree`, `ReportIsFinal`, `BudgetSpec`, `EventuallyReports` | the check and the addition are one critical section: less than a batch of overshoot, a final report, an implementation of `SampleBudget` |
| `monte_carlo_readme` | 2 threads, quota 2, batch 1 | `EveryBatchCounted` (violated) | the exercise's text adds first and compares afterwards; the code compares first and drops the batch |
| `pipeline` | 3 texts, a queue of 2, sleeps of 2 and 1, one kill, leftovers | `UnitConserved`, `OnlyWholeTexts`, `FileInOrder`, `CleanEnd`, `OnlyLastMayBeLost`, `AllTerminate` | what the semaphore gives when no `SETVAL` breaks it; the file; the ends |
| `pipeline_mutex` | 2 texts | `AtMostOneHolder` (violated) | posrednik's `SETVAL` while the generator holds the semaphore lets both in |
| `qset` | 2 users, Q = 3, S = 2, ints of 3 bits, counts to 2, `pwrite` at 5, 12 and 25 | `NoHole`, `ReadsWhatWasWritten`, `UnloadFreesAll`, `WithinCapacity`, `SizeNeverShrinks` | no interleaving and no position takes the device beyond its capacity, unless by a pointer outside the array; well-behaved users lose nothing and read what was written; unloading forgets nothing |
| `drivers` | the counting device: 1 user, 2 helpers, 3 opens, numbers in base 2, one piece of junk on the stack; or the LED: 2 writers, intervals 3 and 1 | `CountsEveryOpen`, `ReadsTexts`, `HelperSays`; `OnIsArmed`, `AtMostOneLateToggle`, `AtMostOneRunAfterExit`, `Blinks` | the counter, the text, the helper; writers, callback and unloading |
| `prize` | 3 threads, a backlog of 1, an `accept` or a `fork` that may fail | `NoForgottenZombie`, `OwnReply`, `ServiceEnds` | signals, descriptors, replies, ends |
| `blackjack` | 2 clients, a backlog of 1, cards of 7 and 10, one that may leave, split reads; or the terminal's game with all ten values | `ScreenAddsUp`, `NothingUnread`, `NoMutualWait`, `RulesSpec`, `TableEnds`; `SoloRulesSpec` | the game over a socket; the game at a terminal |
| `shells` | 3 lines typed, 11 different ones, scripts of 3 lines, 4 processes, a pipe of 1 piece and 2 written to it, 3 Ctrl+C and 4 ticks to a second | `OneReader`, `UnknownRunsRestTwice`, `PipesEnd`, `PhasesEnd`, `PromptReturns` | who reads the terminal; second shells; ends of pipes; how far an alarm moves (`AlarmDrift`, in `PhasesEnd`) |
| `shells_readme` | the instance of `shells` | `ParsesAsAsked` (violated) | the odd commands go through `strtok`, the even ones through `parse` |
| `file_tools` | 2 processes, 3 programs run, one kill, a file with an empty first line and no newline at its end, reads of 2 bytes | `RepShows`, `RowsTell`, `FileSpec` | edits are whole, tail prints from where its count leads, ls tells the truth |
| `rep_readme` | a file of 2 lines, `rep -n 1` and `-n 2` | `RepPrintsAsAsked` (violated) | the newline at the end counts as the first, so a line less is printed |

Why the bounds are enough. *Monte Carlo*: three threads let one commit while a
second waits with a finished batch and a third gives up; a quota that is no multiple
of the batch makes the overshoot visible. *Pipeline*: with three texts a queue of
two fills up while posrednik holds the semaphore, and first, middle and last text
are different cases; the second object of a key is the last one any run can make.
*Driver*: two quanta of three bytes have an inner and a last boundary, and a count of
two crosses both, from 2 and 5; with ints of three bits the quantum of position 12 is
4, which becomes -4, and that of 25 is 8, which becomes 0; Q > S, as in the program.
`Explored`, in `MCQSetDriver`, goes on from states that are not `WellUsed` only where
one liberty at a time is taken: writes overlap, each at its own position
and of the largest count; or one
`pwrite` at a time starts anywhere; or `size` is what `kmalloc` left
(`StaysWithinCapacity` is proved for all of them at once). Nothing tells the users apart, so the run uses symmetry.
*Blink*: a
short interval and the default differ by more than one tick, so both orders of
re-arming occur. *Prizes*: with three children two can die while the handler serves
the first, and a backlog of one makes the third connection wait. *Blackjack*: cards
of 7 and 10 reach every ending (17, 20, 21, 24, 27 …), and one of two clients
waits while the other plays or leaves.
*Shells*: three lines let a second shell's child be a third one and let the right side
of a first pipe live on beside the processes of the third line; four processes are
enough for every script of three lines, and for four unknown commands one too few, so
that `fork` fails; a pipe smaller
than what `ls` writes blocks it; four ticks have a rest that is rounded down, one that
is rounded up, and one below a second, which counts as one. *Files*: with three programs one finds what
a killed one has left while another runs; the counts are none, all newlines and one more than there are, the file has an empty first
line and a last one without its newline, and four bytes take two reads to print; the line numbers first, inner and (in an emptied file) beyond the
end. Processes are interchangeable, so the run uses symmetry. *Counter*: in base 2 the
number grows at the second open, also while a helper is between its reads.

The two pass-or-stop runs without a deadlock check are `pipeline` (programs started
in a wrong order stop for good) and `blackjack` (a split question stops both
sides, and a server waits for ever in `accept`).

### Fairness

*Monte Carlo*: every thread is scheduled, weakly; no fairness of the mutex is used.
*Pipeline*: every program is scheduled and started; `semop` serves its waiters in
the order they came, so the two locks are strongly fair, without which one program
could pass the other over for ever. *Blink*: time passes, an expired timer's callback
runs, a call that has begun is finished; nobody has to write. *Prizes*: every
process and thread is scheduled, a pending signal is delivered, and `init` collects
the children of a dead server. *Blackjack*: every process is scheduled; a person
who stays answers `H` or `S` in the end rather than something else for ever; the
reset of a connection whose client has left arrives in the end (`Sigpipe` is
strongly fair, as the server goes between reading and writing meanwhile). Nothing
obliges a client to leave or to stay, a kill or a failure to happen. *Shells*: every
process is scheduled, a script is read, and programs end, which for one that
reads the terminal means that somebody presses Ctrl+D for it; nobody has to type
anything else, except Ctrl+C when a pipe hangs, because there the program offers
nothing else; time passes and handlers run. *Counter*: an open that has begun ends, and a helper goes on.

## 4. Proofs

All proofs are of `Spec`, without fairness, for every value of the constants that
satisfies the named assumptions of the modules (positive sizes, a batch of at least
one sample, …).

*`MonteCarlo_proofs`.* `InductiveInvariant` adds to the types that a thread is at a
statement of a critical section exactly when it holds the mutex, that a thread at
`AddN` or `AddP` has a whole batch with at most as many hits, that joined and
exited threads correspond, and that the counters are whole batches once what a
thread at `AddP` still has to add is counted (`PendingHits`). `Overshoot` alone is
not inductive: whether a thread may add depends on who else may be past the test.
From it follow `NoOvershoot`, `CountersAlwaysAgree`, `FinalReport`, `ClosedQuota`,
and `RefinesBudget`, where `AddN` maps to a commit, everything else to a stutter.

*`QSetDriver_proofs`.* Two invariants. `AnyUse` holds whatever the users do, until a
pointer outside the array is used: a call that has got to its copy aims into the device,
whatever its position was before an int cut it, and its bytes end at its quantum's end,
therefore within Q * S, also after `size` has cut their end to an unsigned (`Q * S` must
fit one, and S an int: `QSetAssumption`); `StaysWithinCapacity` follows. The second adds what well-behaved
users can rely on: at most one write is in progress, every position below `size` is
filled and its quantum present, the write in progress starts no later than `size`,
and what it has allocated and copied so far is really there. `NoHole` is not
inductive: `SetSize` keeps it only because of what `Copy` did some steps earlier, and
no other writer came between. From it follow `NeverAHole` and `NoStaleReads`;
`BytesStay`, an action property, because the `size` a writer is about to store is no
smaller than the one there; and `UnloadingFreesAll`, with an invariant (`Kept`) of
its own about what `trim` finds: what a call replaces was not there, so nothing is
lost before the module is unloaded. `UnloadingInBounds`, about the same invariant, says
what the program's 10 and 5 do not give: for Q <= S, and once nobody has the device open,
unloading goes wrong nowhere. A position moved inside its quantum keeps its
quantum (`SameQuantum`), which is the division the proofs need.

*`Drivers_proofs`*, on the LED driver. The invariant ties each place where the timer may
be gone to the one who will set it: the callback between expiry and `Rearm`, or a writer
between `SetSwitch` and `Arm`; and it counts a late toggle only while the callback is past
its check. From it follow `AlwaysArmed`, `OneLateToggle`, and `QuietAfterExit`, for
which the invariant counts what runs after the exit: with the switch off, the run that
follows the one `modul_exit` has met leaves the timer alone (`AfterIsCounted`).

The same module, on the counting driver. `OpensAreCounted` counts the processes between
the load and the store of `open_count++`; what makes it inductive is what they have
loaded: never an up-to-date counter, and while no two overlap, by the one process that is
there, the value everybody still sees. `TextsAreRead` rests on the position of an open
file being the length of what was read from it: a read puts each piece in the place it has
in the text of that moment. `HelperPrintsAText` is the safety half of `HelperSays`: whoever
has read the text of the only count it has met is at its end, so another read of the same
text brings nothing, and nothing is printed but that text and what lies behind it. It assumes of the counts what a 32-bit counter guarantees, that
their texts fit the helper's buffer of 256 pieces (`ShortTexts`).

*`PrizeGame_proofs`.* `NoZombieIsForgotten` needs little besides the types: a child that
exits leaves a signal, and the handler returns only when it has found no zombie.
`OwnReply` relates the ends of a connection's life that are many steps of four
processes apart, so its invariant, `GameInv`, is that life: where a thread, its
connection and its child can be at the same time (`Asked`, `Held`, `Answered`), that
nobody waits twice in the queue, and that somebody has a connection open until it is
answered or the server is dead.

*`Blackjack_proofs`.* `ServerPlaysByTheRules` is the refinement: every step of server and
clients is a move of `BlackjackRules` or a stutter. It needs `AtTable`: a game that
goes on with its socket closed is one that stands at 21, so its later
writes announce nothing more. `Dialogues` says for each client what is on its way in
both directions and where client and server are: an answer is there only while the
server reads it, a whole question only at the end of what the client has still to
read. `NoAnswerLost` and `TheyWaitOnlyWhenSplit` follow. `SoloPlaysByTheRules` is the
same refinement for the program at the terminal, whose totals live on. The
proof of the first showed that an earlier form of the mapping of `phase` was
ambiguous, two of its cases holding at once; the cases are now disjoint. `ScreensAddUp`
says what no single process sees: the cards and endings a client has on its screen,
together with those still on their way to it, are the totals the server holds
(`ScreenInv`). Where `read` cuts the stream makes no difference, because showing pieces is
adding them up one by one (`ShownParts`). That is an induction over the length of the
stream, done here without an induction rule: of two sums that differ there is a shortest
place where they do (`LeastNumber`, `Induction`).

*`MessagePipeline_proofs`.* `PipeInv` says who has found which object (posrednik alone
removes them, so a second one is made only by a generator that comes later), where
the semaphore's unit is, that a segment nobody is printing into holds a whole text
or none, and that numbers only grow on their way from the segment through the queue
to the file (`Stream`). `OneUnit`, `WholeTexts`, `TextsInOrder` and `NothingLeftBehind`
follow. `EveryTextInTime` adds time: on a prompt machine, with programs started in
order, the text posrednik has forwarded last is the one in the segment or the one
before it, and in the second case posrednik's sleep ends before the generator's does
(`Forwarded`). It assumes `PSleep < GSleep`, which the program satisfies (1 second against
2); the property asks for less, but some such assumption it needs: it is false for a posrednik that
sleeps through two texts.

*`Shells_proofs`.* `OneReader` counts; its invariant says which processes can read at
all: in a chain of shells everyone but the last waits, however long the chain is; in
the shell with a pipe the P2 of a line is gone before P1 reads the next, though its
right side may live on; and only one of the two shells is there.

`UnknownLinesDouble` is about the shells that unknown commands leave behind. The invariant
keeps accounts of every line of the script: how often it has been tried, and what each
process of the chain still owes it, given where it is in the script (`Owes`). Together
they are at most what the first shell owed at its start, and exactly that when no fork
fails (`Settled`); a fork passes a debt on, an `execvp` pays a part of it, a process that
ends owes nothing. What a shell owes is counted as the number of *sets* of unknown lines
between its place and the line (`Tries`), which doubles with every unknown line because
one more element makes twice as many subsets (`TwiceAsMany`); that these are `2 ^ n`
is a fact of the library. Forks do not fail as long as the chain is shorter than the
unknown lines read so far allow (`InScript`, `Enough`). It uses that the lines of a
script are sequences of words that are not empty (`ShellAssumption`).

`NoLineIsStuck` is the safety half of `PipesEnd`: its invariant (`PipeOK`) says, for each
place P2 and P3 can be at, who has which end of the pipe, so that a line that is not over
has someone whose next call returns, or is one of those that hang by themselves.

`AlarmKeepsTime`
rests on what `alarm` may round away (`Rounding`) and on an invariant that says, for
each place in `handle_sigint`, what the phase has lasted when the alarm there is, or
the one about to be set, will ring: the safety half of `PhasesEnd`. `AnAlarmIsComing` adds
that there is such an alarm, since `alarm` never rounds to none, unless the first one rang
inside `alarm(0)`.

*`FileTools_proofs`.* `FileTypes` is the shape of the directory: every name and every open
file has an inode that is there, `f` and `new_file` are never one file, and there is always
a free inode, by counting names and open files against them (`FreeInodes`). `RowsAreTold`
compares the nine letters of two modes one by one. `EditsAreWhole` is the refinement of
`EditedFile`: as long as no two writers have met, at most one process that writes is at
work (`Alone`), and what it has looked at is still true of `f` (`UpToDate`): its copy is the
old text with the one change, the mode of the copy that of the original, but for what
`umask` and the loss of the set-id bits take. Then `unlink` is
the edit, and every other step of the editor a stutter; an append or a chmod is its own
moment. `RepPrintsLines` is about any bytes. Its invariant (`RepInv`) has one part for each place
rep can be in: going back (`Back`), where the newlines behind the position and those still
to be counted make up the number asked for; going forwards after the beginning
(`Forth`), where those of the whole text and those met since do; and printing, where what
has been printed is the text between the place found (`Found`) and the position. A file
that only grows leaves all of these alone, for none looks at bytes that were not there
(`CountsUp`, `SameCut`, `FoundStays`); once it did anything else, `shown` says nothing.

The assumptions used are those of the modules and no others, with the two exceptions
named above (`PSleep < GSleep` for `EveryTextInTime`, `ShortTexts` for
`HelperPrintsAText`). Cards are between 1 and 10 and nobody at the table (`NoOne`) is not a
client (`ServerAssumption`).

Only model-checked:

* every liveness property (`EventuallyReports`, `AllTerminate`, `Blinks`, `ServiceEnds`,
  `TableEnds`, `PromptReturns`, and the other halves of `PipesEnd`, `PhasesEnd` and
  `HelperSays`), since fairness and `ENABLED` are out of the prover's reach;
* that no state is a deadlock, in the runs that check for it.

All other properties of the runs that pass are stated by a theorem. Of three of the
liveness properties the half that is safety is proved (`NoLineIsStuck`, `AlarmKeepsTime` with
`AnAlarmIsComing`, `HelperPrintsAText`); what remains to TLC is that processes which can go
on do.

Recursive operators are kept out of every module a proof uses: `Shown` and what else is
defined step by step is a recursive function.

## 5. Where program and text disagree

* `src/Vaje 7/README.md:8-11` has a thread add its counts and then compare;
  `naloga.c:91` compares first and drops the batch (run `monte_carlo_readme`).
* `posrednik.c:51` says that one process at a time can lock the semaphore;
  line 52 and `generator.c:42` each set it to 1 at their start, also when the other
  program holds it (run `pipeline_mutex`).
* `src/Vaje 4/README.md:8` wants `parse` for the odd commands and `strtok` for the
  even ones; shell.c:36 counts before line 39 compares and has it the other way round, so
  that a leading space makes an even command unknown (run `shells_readme`).
* `src/Vaje 1/README.md:7` has `rep` print the last n lines; the newline at the end of
  the file counts as the first (rep.c:48), so it prints one line less, as `RepShows` says
  (run `rep_readme`). Of a file with too few newlines it prints a part from the middle.

Read off the models, without a run of their own:

* `src/Vaje 4/README.md:12` ends the shell with Ctrl+D; after unknown commands it
  ends only the innermost of the shells they have left (shell.c:45).
* `src/Vaje 2/README.md` shows `S`, `t` and `T`; mojChmod.c:97 and list.c:67 print `s`
  with or without an `x`, and nothing for `S_ISVTX`: these are the three exceptions in
  `RowsTell`.
* `src/Vaje 5/README.md` has the alarms come after 5, 10 and 15 seconds, also with a
  Ctrl+C; one that comes as the first alarm rings may have naloga1.c:10 return 0 and
  line 12 stop the second alarm, with Ctrl+C ignored for ever (`late` in `PhasesEnd`).
* `kamned new_file -d 1` empties the file it is to edit before it reads it (kamned.c:47).

## 6. Not modelled

* `Predavanje-10-12`: the echo server is the prize server without its signal handler,
  and the client uses one of its connections; that the children stay zombies
  follows from there being no `wait`.
* `Vaje 1/open.c`, `Vaje 3/naloga1.c`, `compile_c_files.c`: copying, measuring, calling
  the compiler.

## 7. Plan

Done: exercises 1 to 12 except the programs above, with the proofs of section 4. What
could be added:

1. Deadlock freedom of the other programs as an invariant, in the form of
   `NoLineIsStuck`: who can go on, spelled out.
2. The echo server of `Predavanje-10-12`, as a second user of `PrizeNet`.
3. `mojChmod` and `list` on names other than `f` and its link.
