# yashd: models and proofs

yashd is a small shell served over TCP. A client types command lines; the daemon
gives each client a thread, runs the programs of a line, keeps a list of stopped and
background jobs, and sends the output and a prompt back. The repository holds four
generations of it: an echo server (`server.c`, `client.c`), a first shell server
(`pooja/`), one with "CMD" and "CTL" messages (`signals/`), and the daemon
(`daemon/`).

This directory holds TLA+ modules that model these programs, configurations that
check them with TLC on small instances, and proofs checked by TLAPS.

    tlc -config JobControl_solo.cfg MCJobControl.tla
    tlapm JobControlProofs.tla

## Inventory

| Part | State it keeps | Operations | Module |
| --- | --- | --- | --- |
| Shell of the daemon, `process_cmd` and its helpers (`daemon/server.c:190-355`, `357-525`) | globals `chid1`, `latest_pgrp`, `wait_cnt`, `wpid`, `status`; per client `job_list`, `job_count` | a line of one or two programs, `&`, `fg`, `bg`, the wait loop, CTL messages | `JobControl`, `JobTable`, `Kernel` |
| Start of a line's programs (`daemon/server.c:395-489`) | two pipes, process groups | fork, which may fail, setpgid, redirection, exec, the one-byte handshake | `Launch` |
| Accept loop and thread start (`daemon/server.c:549-623`, `741-830`) | `th`, `i`, `thread_client`, descriptors | accept, pthread_create, the copy of its argument, close | `AcceptLoop` |
| `run_yash` (`daemon/server.c:709-726`) | descriptor 1 and the buffer of stdout, shared by all threads | dup, dup2, flush, restore | `RunYash` |
| Collected input and redirection (`daemon/server.c:109-172`, `782-814`) | `/tmp/tmp_file.txt`, shared by all clients; `buf`, `extra_buf`, `new_buf` on each thread's stack | `wc`, `cat > f`, text, `quit`, the line that is then run, the file it writes | `Collect`, `Redirection` |
| Start of the daemon (`daemon/server.c:540-591`, `630-707`) | PID file and its lock, port | daemonize, lockf, write, bind | `PidLock`, `OneServer` |
| Sessions: `daemon/client.c`, `signals/client.c`, `pooja/client.c` with the `EchoServe` of their servers | the TCP connection, `extra_buf`, two client processes | typing, interrupts, end of input, receiving, collecting, hanging up | `Session` |
| Shell part of `signals/server.c` | as the daemon's shell, without `latest_pgrp` | as the daemon's shell; CTL signals the sender's last job | `SignalsShell` |
| pooja shell (`pooja/yash.c`) | one `job_list` and `count` for all clients | as the daemon's shell | `PoojaShell` |
| Echo server and client (`server.c`, `client.c`) | socket buffers, descriptors | send, recv, echo, end of input | `Echo` |
| Log file, `print_job` | - | output only | not modelled |
| `daemon/yash.c`, `signals/yash.c` | - | copies of `pooja/yash.c` that no Makefile builds | not modelled |

The parts meet as follows. The accept loop starts a thread (`AcceptLoop`), which
receives messages (`Session`). For some of them it collects input first (`Collect`).
For a line it points standard output at the client (`RunYash`) and calls the shell
(`JobControl`), whose forks and pipes are looked at closely in `Launch`. The threads
share the process: its children, its descriptors, its globals, and one temporary file.
No lock protects any of these; the only mutex guards the log file.

What is hard here, and what the properties are about:

- *threads over shared globals*: `waitpid(-1)` of one thread takes another's child;
  `wait_cnt`, `status` and `wpid` are overwritten; descriptor 1 and the file of the
  collection belong to everybody;
- *counting*: the wait loop asks for `wait_cnt` reports, and `process_wait_status`
  raises `wait_cnt` while the loop runs. One report too many ends the daemon, one too
  few returns the prompt early;
- *two records of one fact*: the job list and the process table;
- *handshakes over pipes*: who still holds which end decides who waits for whom;
- *failures nobody looks at*: fork, setpgid, execvp, dup2;
- *undefined and left-over values*: an uninitialized `job_count`, a null `status`, a
  status that `waitpid` has not written, `latest_pgrp` that is still 0, buffers that
  hold what was there before;
- *TCP*: messages arrive joined, clients leave at any moment, unread data resets the
  connection;
- *restarts*: a PID file and inherited sockets outlive the instance.

`PROJECT.json` lists each of these at its line.

## Modules

**`Kernel`** is the part of the operating system the shell uses: children with a
state, a process group, and the stop or continue that `waitpid` has not reported yet.
It comes from no file of the repository. A SIGINT that finds a process stopped is kept
until the process is continued (`interrupted`, then `dying`). `Signals` says what may
befall a child from outside; `MaxPid` bounds how many are forked. Process ids are not
reused.

**`JobTable`** holds the job list as a sequence (`job_list[1..job_count]`) with
`add_to_joblist`, `update_jobstatus`, `update_job_list`; `MAX_CMD_SIZE` is the size of
the array. An entry that no code has written is `Unwritten`.

**`JobControl`** has one action per stretch of `process_cmd` between two points where
another thread or a child can change what the next statement reads. `pc[c]` is where
the thread of client `c` is: `recv`, `bg`, `fg`, `fgwait`, `fork1`, `fork2`,
`started` (the forks are done, `latest_pgrp` is not assigned yet), `sync` (the read of
`sync_pipe`), `bgadd`, `bgcont`, `wait`, `store` (waitpid has returned, `wpid` is not
assigned yet), `status`, `ended`. `waited[c]` is the loop's `i`. `daemon` becomes
`exited` where the code calls exit, `faulted` where its behaviour is undefined; both
end a behaviour. A line is a record: what `pipe_cmds[0]` is, whether `pipe_cmds[1]` is
null (`str_handler` leaves its array unterminated, so even `fg` may find something
there), and whether the line ends in `&`. `Ctl` is the whole CTL branch, with the
daemon's own reaction to a signal for group 0. The uninitialized `job_count` may
hold any integer. Above 0 it counts entries that nobody wrote; below 0 (`below`) the
list is empty for every loop, `add_to_joblist` counts up, and writes to `job_list[0]`
when it reaches 0 and in front of the array (`faulted`) before that. After that
`below[c]` is what `job_list[0].pgid` holds.

**`SignalsShell`** is the server of `signals/`. The text of its `process_cmd` and
helpers is the daemon's, so its actions are those of `JobControl`; what differs is the
CTL message, which signals the last job of its sender (`Target`) and is answered.
`MCSignalsShell` adds whose line forked each child (`owner`), and three conditions:
`apart` (no line has come while another client's was at work; an empty line counts, since
it resets `wait_cnt` too), `simple` (no `&`, no `bg`, no `fg` for a group of more than
one) and `tidy` (none of: an `fg` that goes on with a second program left on the stack,
the end of a stopped program by a signal from outside, a `job_count` above 0 at the
start).

**`Launch`** follows the parent, both children and the grandchild that appears when
the first `execvp` fails and the child runs on in the parent's code. `ends[p]` is the
set of pipe ends a process holds. A fork may fail; the line goes on without the child,
and `failed` remembers it.

**`AcceptLoop`**: descriptors are numbers, lowest free one first; a connection is its
rank of arrival. `thread_client` is one place in memory that each iteration reuses,
and a new thread reads it when it first runs. `raced` and `failed` are history.

**`RunYash`**: one action per statement of `run_yash`; `stdout` is where descriptor 1
leads, `buffer` whose text is in it; `mixed` is history.

**`Redirection`**: what `check_output_redirection` and `check_input_redirection` make
of a line of tokens, in the order `process_cmd` calls them. `Overlay` is a write over a
file that is not truncated, and a `recv` into a buffer that is not terminated: in both
the end of the older contents stays.

**`Collect`** puts the collection of input on top of `RunYash`: `Ask` (`wc`, `cat > f`,
and `fopen` of the one temporary file), `Type`, `TypeQuit`, and the line that is then
run; `Execute` is `process_cmd` with what the program reads and writes. A text is a
sequence of letters that name who typed them, so that strangers' text shows. The
buffers start empty or as an earlier thread left them on the stack (`StackLeft`).
Clients may also run lines that collect nothing. `typed`, `named`, `shared` and
`shrunk` are history.

**`PidLock`**: instances run through `daemonize`, `lock_pid_file` and the binding of
the port; each may crash anywhere. The PID file is a sequence of digits, overwritten
from its start, never truncated. **`OneServer`** is what this promises, without steps
of the start, digits or inherited sockets: one owner at a time, who alone publishes its
name and serves only under it. `PidLock` implements it with `owner <- holder`,
`named <- FirstLine(file)`, and `serving` the instance whose daemon holds the socket.

**`Session`**: both client processes, the two directions of the connection, and the
thread, for three versions of the protocol chosen in `Init`. `patient` users wait for
each prompt, the others type ahead. `recv` takes any number of the messages that have
arrived, and only the first of them is looked at. At the end of its input the reader
of `signals/client.c` sends empty commands without pause (`Eof`, `Flood`). A line may
never end (`NeverEnds`, thread `hung`): its program may not, and the handshake of
`Launch_stuck` does not. `extra_buf` says whether the collection's buffer holds `quit`
and its end, older text behind whatever comes (`stale`), or neither; a `recv` of 0
leaves it as it is, so that the loop of a client that has left ends if it still holds
`quit`, and spins if not (`HungUp`). The showing process is `crashed` if its own handler
has killed it.

**`PoojaShell`** extends `JobControl` and reuses its steps that leave the job list
alone (the code is the same); the others are written out for a list that is shared by
all clients (`jobs[c]` is the same for every `c`) and allocated anew by each line while
`count`, its length, goes on. No lock guards that list. `add_to_joblist` is therefore
three steps: `count++` (`CountEntry`), the writes of `pgid` and `index` (`WritePgid`),
and that of `status` (`WriteStatus`), each to the entry that `count` names by then;
`adding[c]` is what thread `c` has still to write. Another thread may scan the entry
before it is written, or move `count` on. `MCPoojaShell` adds whether a line has found
jobs of an earlier one (`carried`), who has sent lines (`users`), `modest` (lines of
programs only, no stopped program killed), and `torn` (a thread has taken a step of its
line while another was between these writes).

**`Echo`**: a client that never receives and a server that sends everything back;
buffers of `Room` messages; sockets that a failed `recv` leaves open.

`MC*` modules give the constants their values; `MCJobLists`, `MCSignalsShell` and
`MCPoojaShell` add history variables. Operators marked "Mutant" in the modules are
mistakes one could make in the code; replacing a definition by its mutant breaks the
property named with it in `PROJECT.json`.

## Runs

| Run | Question | Bounds | Outcome |
| --- | --- | --- | --- |
| `JobControl_solo` | Does one client's shell always have a child to wait for, stay up and answer? | 1 client, 3 children, foreground lines (also pipelines, `fg`, `bg`, empty ones, a stale second program), stops and kills also of stopped programs, CTL z and others, `job_count` -1 or 0 at first | holds: `SoloInv`, `WaitHasChild`, `DaemonStaysUp`, `PromptReturns` |
| `JobControl_lists` | Do job list and children agree? | 1 client, 3 children, `&`, `fg`, `bg`, stops, kills also of stopped programs, `job_count` 0 or 1 at first | holds: `IndexCoversPosition` and, without pipelines, `NeverForgotten` always; `PlainChildrenListed`, `PlainSlotPerProgram`, `PlainPromptMeansSettled` until `&`, `bg` or the kill of a stopped program is used |
| `JobControl_two` | Does the daemon stay up with two clients? | 2 clients, 3 children, one program per line | **violated**: `DaemonStaysUp` |
| `SignalsShell` | Whom does an interrupt reach, and is its end counted once? | 2 clients, 3 children, pipelines, `&`, `fg` (also with a stale second program), `bg`, empty lines, both interrupts, stops and kills also of stopped programs | holds: `ApartWaits` while `Orderly` (`apart` and `simple`), `CtlReachesOwn` while `Orderly` and `tidy` |
| `PoojaShell` | What does a forgotten list do? | 2 clients, 2 children, every line | holds: `FaultNeedsOldJobs`, entries nobody wrote are only read after a line has found jobs of an earlier one (`carried`) or a thread has moved amid another's `add_to_joblist` (`torn`); `AloneWaits`, `CountIsStopped` for a client that is alone |
| `Launch` | Handshake, pipe ends, end of the line, forks that fail | every pairing of 4 first and 5 second programs, any of the forks fails | holds: `GroupReady`, `NoEarlyEof`, `ByteUnlessBad`, `ExitsForFailedFork`; `LineEnds` except for a second program that reads a pipe nobody writes |
| `Launch_stuck` | Does the parent always get its signal? | `jobs` or a bad redirection as first program | **violated**: `SignalComes` |
| `AcceptLoop` | One thread for each connection? | 4 connections, 3 descriptors, array of 2 | holds as long as no client overtakes the start of a thread (`raced`), `ThInBounds` as long as no creation fails; `NewestServed` always |
| `Collect` | Whose text is read, whose file is written, whose output goes where? | 2 clients, 2 files, 2 lines, 2 letters typed in pieces or 3 at once, every left-over of the stack | holds: `NothingLeft` always; `OwnOutput` until two lines overlap; `TypedArrives` until two collections meet or a text is shorter than the one before; `FirstCatWrites` for the first `cat > f` of a session |
| `PidLock` | One instance, its number in the file, and all as `OneServer` says? | 3 starts with ids of 3, 2 and 1 digits | holds |
| `Session` | Is each message answered, once; does the thread end; whom does the client signal? | 3 versions, 4 messages, user leaves, server dies and a line never ends at any time | holds, with the exceptions the properties name |
| `Echo` | Is all echoed? | 2 clients, buffers of 2, 1 descriptor, 5 messages | holds until the buffers are full |

All passing runs explore their whole state space, two of them within a constraint that
cuts nothing a property speaks of. `SignalsShell` (1,009,204 distinct states, the longest
run with about a minute and a half) stops at states that are not `Orderly`: both properties have
that as a premise, and once false it stays false. The two kinds of events that `tidy`
names are in the run, and `ApartWaits` is checked beyond them; `job_count` starts at 0
there, since above 0 `CtlReachesOwn` claims nothing. `PoojaShell` (709,567 distinct
states) stops at states that are not `Undecided`: two clients have used the server and
`carried` or `torn` holds, which never become false again, so that no property says
anything of what follows. `Symmetry` permutes the two clients of these runs, which check
invariants and an action property only. Bounds: three children are one
stopped job, and two programs of a later line, which is where the wait loop can
miscount; two children with two threads are enough for a thread to take the other's.
An array of 2 and 4 connections wrap `th` and reuse a descriptor. The numbers of
messages allow two of them to be joined, the protocol's words to fall into one `recv`
and one to be left over. A letter, `quit` (two letters) and three letters are a text
that is shorter than, as long as, and longer than what `extra_buf` holds; two lines are
two collections that meet, or one behind the other in the same buffers. Runs end when
bounds are reached or clients have left, so deadlock is not an error in them; where
waiting for ever matters a liveness property says so.

Several properties hold under a condition that a history variable or a named operator
states. These conditions are not there for the model's convenience: each marks the
edge where the code stops to keep the promise, and the promise fails just behind it.

- `DaemonStaysUp`, `WaitHasChild` (one client, no `&`). With `&` a program is entered
  in the list and waited for all the same; its end then lengthens the loop by one
  (`daemon/server.c:280`), waitpid fails and `exit(EXIT_FAILURE)` ends the daemon
  (`:521`). Two clients: `JobControl_two`.
- `PlainPromptMeansSettled`. `bg` goes on as a line of one blank (`:399`), whose child
  dereferences a null token; the job it continued adds a report of its own. The next
  line's loop takes the report left over for its own program.
- `NeverForgotten` (lines of one program). The entry of a stopped second program has
  its own id, which is no group: `waitpid` in `fg` fails, the status nobody has written
  may read as an end, and the entry is marked "Done" and dropped with its program there
  (`daemon/server.c:315`).
- `PlainSlotPerProgram`. The array has `MAX_CMD_SIZE` slots and `add_to_joblist` does
  not look whether one is left. As long as the property holds it takes that many
  stopped programs to fill it; after a `bg` one program does, since each further stop
  appends an entry.
- `PromptReturns`. A line whose first program is `fg` or `bg` and which has a second
  one waits for the end of `sync_pipe`, which a stopped program holds.
- `LineEnds`. `jobs | cat`: the first child writes no byte, the second holds
  `sync_pipe[1]` and waits for the end of `pfd`, which the parent holds. A first fork
  that fails does the same to `ls | cat`.
- `ExitsForFailedFork`. The line counts a child it does not have, waits for one report
  too many and exits, for all clients.
- `CtlReachesOwn`, `ApartWaits`. When lines of two clients overlap (an empty line resets
  the `wait_cnt` that another thread counts with, and leaves that thread's program to be
  reported to someone else), or an earlier line
  has left a report behind (`&`, `bg`, `fg` of a pipeline, which takes one of two), a
  client's `waitpid` may be told of another's program and list it.
- `CtlReachesOwn` alone (`tidy`). An `fg` that goes on with a stale second program has it join the group `chid1`,
  which is the last line's of whichever client; the end of a stopped program that is
  killed from outside is left for the next loop, of whichever client; a `job_count`
  above 0 makes an entry nobody wrote the last job.
- `FaultNeedsOldJobs`. `count` goes on from line to line over arrays that are
  allocated anew; and `count++` (`pooja/yash.c:163`) stands before the writes of the
  entry (`:165` to `:169`), between which another thread's `update_job_list` (`:232`)
  compares a status that nobody has written.
- `EveryStoppedListed`, `PromptSettles` (theorems). With a `job_count` of -1 the first
  stop is written to `job_list[0]`, which neither `fg` nor any loop looks at.
- `EachServed`, `NoCrossTalk`, `OnlyGoneClosed`. If a second client comes before the
  first thread has run, both threads serve the second one.
- `OwnOutput`. Two lines at the same time leave descriptor 1 where the later `dup2` put
  it.
- `TypedArrives`. A second collection truncates the file of the first
  (`daemon/server.c:785`). A text shorter than the last one is stored with that one's
  end, because `recv` does not terminate `extra_buf`; a longer line makes the `quit`
  that follows it unrecognisable, and the collection goes on.
- `FirstCatWrites`. `new_buf` is never emptied: the second `cat > f` of a session is
  appended to the first, and `check_output_redirection` takes the first file
  (`daemon/server.c:804`). The same happens to the first one if the stack holds an
  earlier thread's line.
- `ThreadEnds`. A client that leaves while its input is collected makes `recv` return
  0 for ever (`:788` tests `< 0`), unless the buffer still holds an earlier `quit`. A
  thread whose line never ends does not see its client leave, and one that has left its
  loop after a CTL message is gone without a close.
- `AnswerComes`. `EchoServe` waits for `process_cmd` without a limit, and a line may
  never end: because its program does not, or by the handshake of `Launch_stuck`, which
  the other servers have too. An interrupt of `signals/` needs no line and is answered in
  any case.
- `NoStray`. Once the server has ended, the showing process ends too, and `getppid` in
  the reader names another process; the same when the handler of `daemon/client.c` has
  killed it.
- `EveryMessageAnswered`, `AnswerComes`. A user who types ahead, or a reader that
  floods the server at the end of its input, has messages joined, and one prompt is
  sent for several.
- `EchoComes`. The client never receives; at the end of its input it sends its last
  line again and again, until it and the thread wait for each other in `send`.
- `LeakNeedsEcho`. A client that leaves with echoes unread resets the connection; the
  failed `recv` ends the thread without close (`server.c:123`).

## Fairness

Each thread and each process is run by the scheduler: weak fairness for the actions
of a thread, for the end of a program that is neither stopped nor killed (or that a
kept SIGINT is about to end), for the steps of an instance's start. Users, signals,
crashes and failures of system calls get none: nobody must type, stop a program or
kill it. In `Session` the steps of the thread are fair but `NeverEnds` is a choice of
its own: that every line ends is not assumed. In `JobControl` fairness is per thread, not per statement: a thread has one
next statement. `Echo` adds that a client whose input is over sends by itself, because
its loop does.

## Proofs

Eight modules prove the safety properties of most components for every value of the
constants: any clients (where a count of them matters, finitely many), any lines,
messages and bounds, any lengths of buffers and arrays. The named assumptions of the
modules are all they rest on.

**`JobControlProofs`**

- `TypeCorrect`: `Spec => []TypeOK`.
- `IndexCovers`: `Spec => []IndexCoversPosition`, the number `print_job` shows for an
  entry is not below its position. The inductive invariant is that together with types
  and list lengths; `update_job_list` moves entries down, `add_to_joblist` appends one
  whose index is its position, and the `EXCEPT` of a status leaves indices alone.
- `SoloInvariant`, `SoloStaysUp`, `SoloWaitHasChild`: under `Solo` (one client, no `&`,
  no `c`, no SIGINT) `Spec => []SoloInv`, `[]DaemonStaysUp` and `[]WaitHasChild`,
  whatever the uninitialized `job_count` holds, a negative number included: entries
  nobody wrote name no child, and a stop that is written below the list leaves its
  program among those no entry speaks for.

`DaemonStaysUp` is not inductive: the daemon exits if `waitpid` finds no child, so one
must know how many reports the loop still asks for. `SoloInv` adds the ledger: while
the loop runs, `wait_cnt - waited` is at most the number of children *not spoken for by
an entry of the job list* (`Hidden`). A fork adds a child and raises `wait_cnt`; a stop
takes a child out of `Hidden` (it is listed) and counts one; an end of an unlisted
child takes one out and counts one; an end of a *listed* child takes none out and
raises `wait_cnt` along with the count. While a report is in flight, between `waitpid`
and `process_wait_status`, `Credit` says which of these it will be. Reaped entries may
linger in the list and `fg` may revive them, which does no harm, since they only
shrink `Hidden`. The lemmas are about cardinalities of sets that gain or lose a member
and about what the list operators do to the set of listed ids.

`Solo` is a predicate on the constants, an assumption of the three theorems and not of
the module; `JobControl_two` shows that its first part cannot be dropped.

**`ShellProofs`** relates the job list to the children, for `JobControl` and for
`SignalsShell`, whose steps of `process_cmd` are the same (`ShellIsWork`).

- `NothingForgotten`: `Spec => NeverForgotten` under `Single` (one client, lines of one
  program, anything else allowed: `&`, `c`, interrupts, any initial `job_count`, also a
  negative one). The
  invariant `ListInv` says that each child leads its own group, that the entries name
  children that were forked and "Done" only those that were waited for, and that a
  reported end which waits to be handled is that of a reaped child. Then `fg` marks
  "Done" only a child that it has reaped or that `waitpid` could not find, and what
  `update_job_list` drops, the first "Done" entry, was reaped.
- `EveryStoppedListed`, `PromptSettles`, `OneSlotEach`: under `Alone` (one client) and
  an initial `job_count` that is not negative, `ListsSpec` implies `PlainChildrenListed`, `PlainPromptMeansSettled` and
  `PlainSlotPerProgram`. Here the ledger of `SoloInv`, an upper bound, is not enough:
  the loop must not ask for *less* than is there either. `Active` is the set of
  children that will still report something, and `Work` says that the loop asks for at
  least their number (and one more while a report is in flight), so that none is left
  when the loop is over. `Kempt` follows each of the others: it is `Parked` (in the
  list, each of its entries "Stopped"), while whatever the loop is still to be told of
  is `Unlisted`, so that a stop never adds a second entry and an end never lengthens the
  loop. `Spaced` says that no pid has two entries. `OneSlotEach` asks for a `job_count`
  of 0 or 1: two entries nobody wrote share the pgid 0, and the property is about
  programs.
- `OrderlyWaits`: with any finite number of clients, `MCSpec => []ApartWaits`, that the
  wait loop of the signals server has a child to wait for while no two clients' lines
  have overlapped, empty ones included. At most one thread is at work; the ledger holds for it, and the
  others say nothing of the globals they share with it (`ApartInv`).
- `CtlOnlyOwn`: `MCSpec => CtlReachesOwn`, with any finite number of clients. The
  invariant `OwnInv` gives every child the owner of its group and every entry the owner
  of its list. An end or a stop is taken by the thread at work, so it must be its own
  child's: `Work` counts the active children, as above, and none is left when the thread
  is done. Hence the premise `tidy` of the property beside `Orderly`: it is a part of
  the behaviour (a history variable), not an assumption on the constants, so that the
  theorem speaks of every choice of lines, messages, signals and counts, up to the
  first event that `tidy` or `Orderly` names.
- `AloneAlwaysWaits`: `UserSpec => []AloneWaits`. A line of the earlier server begins
  with a list that names no child, so the ledger starts afresh with each line
  (`NextLineAccounted`), also after a line with `&`; the steps on the list that
  `PoojaShell` writes out keep it as those of `JobControl` do (`HandledStep`). While an
  entry is half written its program is in nobody's list but in the thread's hand
  (`InHand`), and the ledger counts it there.
- `CountAlwaysStopped`: `UserSpec => []CountIsStopped`. Since no entry names a child,
  an end never finds one and never drops one; so `Counted` says that the length is the
  number of children that are neither active nor set aside while their report is
  handled: a stop adds one to both, to the length with `CountEntry`.
- `FaultsByOldJobs`: `UserSpec => [](ArrayHolds => FaultNeedsOldJobs)`, for any number
  of clients. `MidInv` says what a thread that is amid `add_to_joblist` has in hand and
  where it stands. Until a line has begun with a count above 0, or a thread has moved
  amid the writes of another, every entry is written (`Filled`), but for the last one
  while the thread that has counted it fills it; a scan comes only when nobody is amid
  an addition, so it meets no null pointer. The hypothesis `ArrayHolds` (the array is
  not full) is needed because the property is about faults of every kind and an array of
  few slots can be overrun; the run checks the property without it, for within a line
  its two programs never fill 8 slots.

**`PidLockProofs`**: `SingleInstance`, `FileNames`, and `Refinement`, that `PidLock`
implements `OneServer`. The invariant says that whoever is past `lockf` is the holder,
that the holder alone may be in service, and that the file begins with the holder's
number and a newline once it has been written. The lemmas compute the first line of an
overwritten file, whatever was in it and however long. In the refinement `lockf` is
`Claim`, the write `Publish`, a bind that succeeds `Serve`; the end of the holder is
`Retire`; everything else stutters, also the end of an instance that was turned away.

**`AcceptLoopProofs`**: `ThAlwaysInBounds`, `NewestAlwaysServed`, `EachAlwaysServed`,
`NeverCrossed`, `OnlyGoneEverClosed`. The invariant ties `thread_client` to the newest
connection and, as long as no client has overtaken a thread, gives each open descriptor
exactly one thread: a serving one, or the one that is starting. Closing is safe because
a descriptor is reused only after its own thread has closed it.

**`LaunchProofs`**: `GroupAlwaysReady`, `NeverEarlyEof`, `AnsweredByByte`,
`OnlyFailedForkExits`. The invariant says for each process which ends it holds at each
place of its code, and counts `waits` as the children not yet waited for plus the forks
that failed.

**`CollectProofs`**: `CollectsThroughRunYash` proves `CollectSpec => Spec`, that the
server with its collections implements `RunYash`, so that `OutputIsOwn` and
`NothingStays` carry over from `RunYash`'s invariant (the number of saved descriptors
is the number of threads inside `run_yash`, hence the finite `Clients`; while lines
have not overlapped, at most one thread is inside, and descriptor 1 leads to it). For
`TypedAlwaysArrives` the invariant follows the text from `typed` to `stream` to `tmp`:
as long as no piece was shorter than the buffer's contents, what `recv` leaves is what
it received, and a `tmp` in use by an unshared collection is written by nobody else.
`FirstCatAlwaysWrites` rests on what `Redirected` returns for the composed line.

**`SessionProofs`**: `NoPromptEarly`, `EachMessageAnswered`, `NeverStray`. The invariant
counts prompts: those shown, those under way, the messages that wait and the line that
runs are together at most the messages sent, and equal to them while the user waits,
since then no two messages can be joined. For `NeverStray` it says that while the reader
can still send its signal, the showing process is there, or the server has ended, or the
process was killed by its own handler: these three cases are the statement, in all three
versions.

**`EchoProofs`**: `NothingIsLost`, `LeakedOverEcho`, by an invariant of one connection:
what has been sent is in one of the buffers or in the thread's hands, and a connection
is reset only if something has been sent.

## What is only model-checked

Liveness (`PromptReturns`, `LineEnds`, `StartEnds`, `ThreadEnds`, `AnswerComes`,
`EchoComes`), which is out of the prover's reach. `FaultNeedsOldJobs` is proved as long
as the array of the job list is not full; that two programs do not fill eight slots is
what TLC adds. The two runs that expect a violation are counterexamples and have
nothing to prove.

## What is left out

- Stops: a program that is stopped before it has written its byte to `sync_pipe`;
  reuse of process ids.
- Collection: a redirection that is glued to its file name (`cat >f`), which
  `get_tokens` does not split, and the ends that the unterminated `strncpy` and
  `substr` copies may leave in a token; a client that leaves during its own collection
  (it is in `Session`).
- The contents of the freshly allocated, unwritten job list beyond "nothing readable"
  and "pgid 0".
- Messages that TCP splits, or that are longer than the buffers (`buf[rc] = 0` with
  `rc` = 512 writes behind `buf`).
- A CTL message sent while the client's own line runs: it is received after the line,
  because the thread is in `run_yash` until then.
- The accept loop of the other servers, which is that of `AcceptLoop` with another size
  of the array; the descriptor that `run_yash` of `pooja/server.c` leaves open.
- Log file, listing of jobs, and the two copies of `yash.c` that are not built: none of
  them changes state that another part reads.

## Plan

1. Done: all components of the inventory that keep state, the refinement of
   `OneServer` by `PidLock` and of `RunYash` by `Collect`, and proofs of the safety
   properties of all of them.
2. Next: `JobControl` as an implementation, under `Solo`, of an abstract shell session
   (a client sends, its programs run, one prompt answers), model-checked and proved.
3. Next in models: a stop between fork and the byte in `Launch`; messages that TCP
   splits.
