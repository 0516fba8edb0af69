# Verification of the course programs

TLA+ modules, TLC configurations and TLAPS proofs for the programs of this
repository: a student database, a string tool, three stages of a shell and a
remote shell. The modules are translated from the C sources; the questions
files, header comments and test scripts are read as what the programs are
*meant* to do, and where the code does something else a run shows it.

1. [Inventory](#1-inventory)
2. [Modules and how they correspond to the code](#2-modules-and-how-they-correspond-to-the-code)
3. [Runs, bounds and what they show](#3-runs-bounds-and-what-they-show)
4. [Fairness](#4-fairness)
5. [Proofs](#5-proofs)
6. [Observations](#6-observations)
7. [What is not modelled](#7-what-is-not-modelled)
8. [Plan](#8-plan)

## 1. Inventory

| Component | Source | State | Operations | Correct when |
|---|---|---|---|---|
| Student database | `StudentDB/sdbsc.c`, `db.h`, `sdbsc.h` | the file `student.db` of 64-byte records, and per invocation an offset and a few locals | `-a` add, `-c` count, `-d` delete, `-f` find, `-p` print, `-z` zero, `-x` (a stub) | each student is in its own slot and in no other; an answer describes students that were there; alone, an invocation acts as one step on a set |
| Remote shell client | `RShell/rsh_cli.c` | one connection, the line typed, the response buffer | connect; send a line; receive until the end mark; leave | every command is answered; the client learns that the server is gone; `exit` ends it |
| Remote shell server | `RShell/rsh_server.c` | listening socket, the client being served, descriptors | boot, accept, receive, `system()`, answer with one byte | each command runs once, in order; no client can end the server |
| Pipeline | `execute_pipeline()` in `ShellP3/dshlib.c`, `RShell/dshlib.c` | pipes, children, descriptors of all of them | `pipe`, `fork`, `dup2`, `close`, `exec`, `waitpid` | the shell comes back, every child is reaped, no pipe end is left open |
| Command loop | `exec_local_cmd_loop()` and what it calls, same files; and that of `ShellP2/dshlib.c` | the stdio buffers of standard input and output, the file offset shared with children | prompt, `fgets`, parse, built-ins, run, wait | every line is executed once and in order; what is printed comes out once; the loop ends |
| Command parsing | `build_cmd_list()`, `build_cmd_buff()` of `ShellP1`, `ShellP2`, `ShellP3` | none: functions of the line | split at pipes, trim, split at spaces, quotes | arrays are not overrun; no word is lost, doubled or reordered |
| stringfun | `stringfun.c` (= `C-Refresher/stringfun.c`) | one buffer without a terminator | set-up, count, print words, reverse, replace | the text is the collapsed argument; each operation does what it says at every fill of the buffer |

`RShell/dshlib.c` is the text of `ShellP3/dshlib.c` but for a newline, so one
module stands for both; the same holds for the two `stringfun.c`.

**How they interact.** The command loop hands a line to the parser, and what it
returns to a built-in, to `exec_cmd()` or to the pipeline; the pipeline and
`exec_cmd()` share file descriptors (and the offset behind standard input) with
their children. The remote client and server exchange bytes over TCP and share
nothing else; the server gives its commands to `system()`. Invocations of the
database share one file and no lock. `stringfun` is on its own.

**What is hard.** Invocations of the database that interleave at every system
call, read errors in the middle of a scan, and kills; the lockstep of client and
server with one byte as the mark of the end, TCP that may cut or join what was
sent, ends of connections and `SIGPIPE`, a listen queue and a descriptor table
with limits; stages of a pipeline that run while the shell is still forking,
and the many copies of every pipe end; buffers of lines read and of text printed
that a `fork()` duplicates and that `exit()` of a child writes back; arrays with a last
place for NUL or NULL. `PROJECT.json` lists these hazards at their lines, with
the properties that watch them.

## 2. Modules and how they correspond to the code

| Module | What it is |
|---|---|
| `StudentStore` | abstract: a set of students, each command one step |
| `StudentDB` | `sdbsc.c`, one system call per step |
| `StudentDBScan` | `StudentDB` with history variables: what a scan is worth while others write |
| `MCStudentDB`, `MCStudentDBScan` | instances for TLC |
| `StudentDB_proofs`, `StudentDBScan_proofs` | theorems about them |
| `StudentStore_proofs` | the proof that `StudentDB`, used by one at a time, implements `StudentStore` |
| `ShellService` | abstract: clients that ask for commands, a server that takes one client after the other |
| `RemoteShell`, `MCRemoteShell` | `rsh_cli.c` and `rsh_server.c` with the connection between them; instance for TLC |
| `RemoteShell_proofs` | theorems about it, and the proof that it implements `ShellService` |
| `Pipeline`, `Pipeline_proofs` | `execute_pipeline()`: the shell, its stages, the pipes; theorems |
| `LocalShell`, `LocalShell_proofs` | `exec_local_cmd_loop()` of ShellP2 and ShellP3, its input, output and children; theorems |
| `CommandLine`, `CommandLine_proofs` | the three parsers; theorems |
| `StringFun`, `StringFun_proofs` | `stringfun.c`; theorems |

`Pipeline`, `LocalShell`, `CommandLine` and `StringFun` need no MC module: their
constants are numbers and sets of strings, given in the `.cfg` files. Definitions
named `X_Something` above a definition `X`, marked "Mutant" in their comment, are
plausible wrong versions of `X`: each property is known to notice one of them.

### StudentDB

`file[s]` is the record at offset `64 * s`, `size` the length of the file in
records; a slot skipped by `lseek` reads as zeroes, which is the empty record.
The names are payload that no branch looks at. A record is 64 bytes at a
multiple of 64, so a read or write of one is a single step. `pc[p]` is

| `pc` | the invocation is about to |
|---|---|
| `open` | call `open_db(DB_FILE, false)` and enter the switch of `main()` |
| `scan` | `read()` the record at `pos[p]`, in `get_student()`, `count_db_records()` or `print_db()` |
| `write` | write, in `add_student()` or `del_student()` |
| `truncate` | call `open_db(DB_FILE, true)` for `-z` |

`rows[p]` is the sequence of records that `print_db()` has printed, and `out` what
the invocation says. `AddSlot` and `DelSlot` are the offsets of `sdbsc.c:121` and `:169`; they are
not the same function, which `studentdb_delete` shows. `ReadFails` follows the
code: only `count_db_records()` tells -1 from the end of the file.

`StudentDBScan` adds `kept` and `seen`, the students stored at every moment and
at some moment of a scan, and `cut`, set when a failed `read()` ended it. Without
a lock no scan is a snapshot; the properties say what is true nevertheless.

### RemoteShell

`c2s` and `s2c` are the bytes under way; the server sends nothing but
`RDSH_EOF_CHAR`, so `s2c` is a number. `conn` is a connection as the sockets API
shows it: `up`; `sfin`/`cfin` when the server or client closed it; `srst`/`crst`
when a reset has been caused, after which a send fails or raises `SIGPIPE`.
`spc` walks `Boot`, `Accept`, `ServerRecv`, `RunCmd`, `SendEof` as
`start_server()` to `send_message_eof()` do. `fds` grows with every client,
since no path closes `cli_socket`. With `Segmented` a `recv()` returns any
non-empty prefix of what is pending, otherwise all of it. `sent` and `ran` are
history; a command that `system()` could not start is `NotRun` in `ran`, since
the server answers it all the same. `"stop-server"` is a command like any other:
`rsh_server.c:53` compares a return code that `exec_client_requests()` never
returns. `rsh_cli.c:70-73` says that it ends client and server, and that `exit`
ends the client; `EndingCommandsEnd` states both, and `remote_exit` shows both wrong.

`ShellService` says the same without bytes, sockets, queues and descriptors: a
client that asks is ready again when its command was dealt with or the server is
down; the server admits a client at most once and stays with it until it has
left with nothing undone, or says `exit`; commands are executed in the order in
which they were asked for. It also says what an ending command does: a client that
asked for one of `Honoured` is not ready again, and after `stop-server` the server
can only stop. `RemoteShell` takes it with `Honoured` empty: the two commands
are exempt by name, because the code honours neither. `ImplementsService` maps `cur` to `serving`, `fds` to
`admitted` (the descriptors are never closed, so they are the clients ever
accepted) and `cpc` to `state`. What stands between the two is the whole
protocol: that a command is executed when the client believes it is rests on the
NUL and on the one-byte answer. With `Segmented` it does not hold.

### Pipeline

Stage `k` of line `l` is the process `<<l, k>>`. `reads[h]` and `writes[h]` are
the pipe ends open in process `h`, the shell included: `Fork` copies the
shell's, `SetUp` is the `dup2` pair with the loop of `close`, which closes the
pipes of this line only. `i` is the loop variable of whichever loop the shell is
in. The programs are the environment: `seq` writes and ends, `cat` copies to the
end of its input, `head` reads once and ends. Errors return at once, as lines
135 and 146 do, with everything made so far left as it is.

### LocalShell

`script` is the input, a line being one `fgets()`; `next..last` is what the
stdio buffer holds, `off` the offset of the open file description, which
children share. A child that finds no program calls `exit()`, and `exit()` of
the C library moves the offset of a seekable input back over what the child's
*copy* of the buffer still holds. `ran` is the history of lines taken. The
pipeline appears by its first stage, the only one whose input is the shell's.

`shell` is "P2" or "P3", and stays what it is. `Means` says what a line is to
each: ShellP2 has no `exit` and no pipes, these words are programs and arguments;
a line of spaces is refused by its parser, and crashes ShellP3; more than ten
words overwrite the line itself, in the build, so that no program is found.

`unsaid` says that the shell has printed something that is still in the buffer of
standard output, which is the rule when that is a file or a pipe. ShellP3
flushes behind each prompt, so its messages are out before the next `fork()`;
ShellP2 does not, and a child that ends by `exit()` writes its copy (`repeated`).

### CommandLine

`ShellP1`, `ShellP2`, `ShellP3` give what the parser of that shell makes of a
line; the state machine only types the line, so that TLC visits all of them.
`ShellP2` is a loop of `OnChar` over the line (`Loop`, a recursive function of the
place), with the pointer `arg_start` and the places that received a NUL as its
state, since arguments are pointers into a text that is cut later (`Stop`). `Found` is
what the loop finds if `argv` has a place for each; the code has no limit, so with
`Argv2Max` (its `CMD_ARGV_MAX`) arguments or more the result is "overrun", and
nothing is said of the arguments: they are behind the array. `Tokens` is `strtok()`: `Starts` are the places where a
token begins, `EndOf` where it ends, and `At` takes them in order by counting
(`Nth`), which can be reasoned about, as sorting a set cannot.

### StringFun

A step is one round of a loop, from the `malloc()` of `main()` on; its argument
checks and `-h` are left out. Places count from 1. `temp` of `replace_string()`
has room for `BUFFER_SZ - 1` characters and `strncpy` fills it up with NULs
(`Copied`). What lies behind the buffer is taken to be a NUL.

## 3. Runs, bounds and what they show

| Run | Bounds | States | Shows |
|---|---|---|---|
| `studentdb_concurrent` | 2 invocations, `MAX_STD_ID` = 2, ids 0..3, all faults | 142,378 | `TypeOK`, `RecordsInPlace`, `AbsentMeansNotKept`, `PresentMeansSeen`, `CountWithinInterval`, `PrintWithinInterval`, `CommandsFinish` |
| `studentdb_sequential` | 1 invocation, ids 1..4 of 3, two gpa | 2,249 | `ImplementsStore`: refinement of `StudentStore` |
| `studentdb_delete` | 1 invocation, no faults | violation | `DeleteRemovesThatStudent` is false |
| `remote` | 2 clients, 2 commands each, queue of 1, 2 descriptors, all faults | 146,435 | `TypeOK`, `Lockstep`, `RunsWhatWasSent`, `ServerSurvivesClients`, `CommandsAnswered`; `ImplementsService`: refinement of `ShellService` |
| `remote_segmented` | 1 client, 2 commands of up to 3 letters, kills, no memory, no fork | 608,184 | `NeverMixesCommands` |
| `remote_exit` | 1 client, no faults | violation | `EndingCommandsEnd` is false |
| `pipeline` | 2 lines of up to 3 stages, pipes of 1 item, programs that write 2 | 349,839 | `TypeOK`, `AllReaped`, `NoStrayEnds`, `PipelineReturns`, `StagesEndWithShell` |
| `pipeline_hang` | 1 line, `fork()` may fail | violation | `StagesEnd` is false |
| `local_shell` | both shells, 3 lines of 10 kinds, buffer of 2, 5 lines taken | 125,992 | `TypeOK`, `InOrderOnPipe`, `NoLineSkipped`, `ReplayNeedsMissing`, `SaidOnce`, `LoopEnds` |
| `command_line` | lines of 6 characters, limits 2, 3, 4, 3, 4 | 55,987 | `TypeOK`, `P1AgreesWithP3`, `P3KeepsWords`, `P2KeepsWords`, `P2AgreesWithP3` |
| `command_line_quotes` | the same | violation | `QuotedIsOneArgument` is false |
| `stringfun` | buffer of 4, input of 5, `-x` arguments of 2 | 4.2 million | `TypeOK`, `SetupCollapses`, `WordsRight`, `ReverseRight`, `ReplaceKeepsRest` |

Why the bounds are enough:

- **studentdb_concurrent.** A race needs two invocations. Two ids give a scan a
  slot behind the one it has read, an id that is not asked for and the reserved
  slot 0; ids 0 and 3 are the values just outside the range. The gpa is not in
  the way of any of these properties and has one value.
- **studentdb_sequential.** A refinement is only claimed for one invocation
  without `-d` and without read errors, since with them it is false (the other
  two runs and section 6); it has two gpa values so that a record that is
  replaced would be seen. Ids are positive: `-f 0` finds a hole.
- **remote.** Two clients, one of them waiting in the queue while the other is
  served, and exhaust the descriptors when both have been accepted; two commands
  let one be behind the other. Commands are `exit`, `stop-server` and the
  empty one. `CommandsAnswered` exempts a client for which the server had no
  buffer (`TurnedAway`), and whom it never served before; every other fault is
  covered. `CHECK_DEADLOCK FALSE`: the system stops when the server is gone and
  the clients have left, and, which `remote_exit` shows, after `exit`.
- **remote_segmented.** Commands of up to three letters with a common beginning
  (`exit` and a longer one), cut anywhere.
- **pipeline.** Three stages have a first, a middle and a last; the second line
  meets what the first has leaked. Two items for a pipe that holds one make a
  writer wait, and find its reader gone when it wakes.
  Deadlock is not checked: when the shell has left, the system is over, and a
  stage whose line failed may wait for ever.
- **local_shell.** Three lines with a buffer of two on a file fill the buffer
  twice, give a child a copy with a line in it, and let a second line move the
  offset again; from a pipe the buffer is filled by any number of lines. The bound
  `MaxRan` cuts the replay, which would go on for ever; the properties hold of
  every prefix. `LoopEnds` exempts the inputs that can replay: the others take at
  most three lines, fewer than `MaxRan`. It also exempts the crash of ShellP3 on a
  line of spaces, and nothing else that crashes. Of the kinds that a program can
  be, each is there once: `nocmd` single and as a pipeline, a reader as a pipeline
  (it can outlive the prompt when a later `fork` fails).
- **command_line.** Six characters hold three commands for `CMD_MAX` = 2, three
  words for `CMD_ARGV_MAX` = 3 of ShellP3, four arguments for `CMD_ARGV_MAX` = 4 of
  ShellP2 (three words, one of them in quotes and so given twice) and a name of
  `EXE_MAX` = 3 characters, so every limit is met exactly and exceeded. `ARG_MAX` is 4.
- **stringfun.** A buffer of four is empty, partly full, exactly full and overrun
  by inputs of five; `-x` arguments are empty, shorter, as long and longer than
  each other.

The four runs that end in a violation each check one sentence of the
repository that the code does not keep; `PROJECT.json` quotes it under
`findings`:

1. `-d` writes the empty record at `(id - 1) * 64` (`sdbsc.c:169`) while `-a`
   uses `id * 64` (`:121`): the student named stays, the one below is wiped.
2. After `exit` the remote client waits in `recv()` for ever (`rsh_server.c:68`), and
   `stop-server` stops neither client nor server (`:53`).
3. When `fork()` fails in a pipeline the shell keeps the write ends, and stages
   already running wait for ever (`dshlib.c:146`).
4. An argument in quotes is passed twice by ShellP2 (`ShellP2/dshlib.c:127`).

## 4. Fairness

- `StudentDB`: `WF_vars(CallReturns(p))` for each invocation: the kernel
  schedules it and its system calls return. No fault is ever obliged to happen
  and no user is obliged to start a command.
- `RemoteShell`: weak fairness of the server and of each client. A client's step
  includes its user, who types on or ends the input; `system()` returns. Kills,
  crashes and boot failures are not obliged.
- `Pipeline`: weak fairness of the shell inside `execute_pipeline()`, and of the
  stages taken together: some stage runs if one can. Each stage has finitely many
  steps, so this is enough and asks less of the scheduler than fairness of each.
  Nobody is bound to type a line or to leave. The fairness includes the programs,
  which make progress when their pipes let them.
- `LocalShell`: weak fairness of the shell and of its children, which do not run
  for ever. With several children the fairness is of any of them.
- Weak fairness is enough everywhere: a step that is possible stays possible
  until it is taken, or until its process ends.

`CommandLine` and `StringFun` state no liveness.

## 5. Proofs

**`StudentDB_proofs`**, for any number of invocations, any `MaxId`, `MaxGpa`,
set of options, ids asked and faults:

- `TypeCorrect == Spec => []TypeOK`: no step writes outside the slots.
- `RecordsStayInPlace == Spec => []RecordsInPlace`: whatever invocations do
  between each other's system calls, the record of student i is in slot i.
- `DeleteRemovesOneBelow`, an action property: every `-d` removes the student
  below the one it names and nobody else. It is the exact statement of the fault
  that `studentdb_delete` shows by an example, so no run repeats it.

`TypeOK` is not inductive: the slot that `AddStudent` writes is one of the file's
only since the id was validated in `OpenDb`, many steps of other invocations
earlier. `IInv` adds `RequestOK`, which carries that fact along the scan, bounds
the count of `-c` by the offset, and says which options reach which label. The
lemmas `ExitKeeps`, `GotoKeeps` and `WriteKeeps` say what the three building
blocks of the actions do to `IInv`; there is one lemma per action that needs
more, and `NextIInv` puts them together.

**`StudentDBScan_proofs`**, for any number of invocations that add, delete and
empty the file while another scans it:

- `NoneOverlooked` (`AbsentMeansNotKept`), `NoneInvented` (`PresentMeansSeen`),
  `CountIsBounded` (`CountWithinInterval`), `TableIsBounded`
  (`PrintWithinInterval`): action properties about the moment of the answer. The
  last one is about the sequence printed: it has every student of `kept` and none
  outside `seen`, each once and in the order of ids.

The theorems of `StudentDB_proofs` are used here through `ScanNextIsNext`: a step
with the history variables is a step of `StudentDB`. That the history variables
never keep `StudentDB` from a step is not proved; they are only assigned, from
the other variables.

They follow from `ScanInv`, which says of every scan under way what it has found
out *so far*: `Below(kept, pos)`, the students stored all along whose slot the
scan has passed, were all met, and what was met is in `Below(seen, pos)`. At the
end of the file `Below` is the whole set, because nothing lies behind `size`. An
answer is given in one step, so each theorem relates `ScanInv` before it to `out`
behind it.

**`StudentStore_proofs`**: `ImplementsSequentially`, that `StoreSpec` implements
`StudentStore` for every `MaxId`, `MaxGpa`, set of options and ids asked, under
two hypotheses: `OneAtATime`, that no two invocations exist, and that id 0 is not
asked for. Both are necessary. Without a lock two invocations do not act as one
step each (section 6), and `-f 0` finds a hole of the file. `StoreSpec` leaves out
`-d` and read errors, for which the sentence is false. `StoreInv` says that what
a scan has met is what is stored in the slots it has passed; steps of the scan
are stutters, the step that answers is the step of the store. The store answers `-p`
with a set of students, so `Told` maps the records printed to the set of them
(`RecordsOf`); that each is printed once is `TableIsBounded`.

**`RemoteShell_proofs`**, for any number of clients, any length of the listen
queue, number of descriptors, set of commands and set of faults:

- `TypeCorrect`, and `NoTwoCommandsAsOne` (`NeverMixesCommands`), however TCP
  cuts what is sent.
- `EndsStayInStep` (`Lockstep`), `RunsInOrderOnce` (`RunsWhatWasSent`),
  `NoSigpipe` (`ServerSurvivesClients`) and the refinement `Implements`
  (`ImplementsService`), under the hypothesis `~Segmented`: a `send()` of the client
  arrives by one `recv()`. Without it all four are false: the
  protocol has no framing, and section 6 says what then happens. `Implements` is for
  a service with no ending command honoured, see section 2.

`BaseInv` says where a connection is: in the queue, with the server, or gone, in
one place only, and what the state of the socket says of both ends (`Link`).
`Exchange` is the protocol: each client is in one phase of the exchange of one
command (`AtRest`, `OnTheWay`, `Running`, `Answering`, `Answered`, `Dismissed`),
and the phase fixes the number of bytes in each direction and how much of `sent`
has been run. `Lockstep` alone is not inductive because it speaks of the prompt
only. The refinement maps a client's program counter to the state of its user and
the server's to `new`, `up` or `down`; there is one lemma for each action, which
says which step of the service it is, or that it is none. For the stream that is cut,
`PieceInv` says that between two NULs on the way there is a piece of one command.

**`Pipeline_proofs`**, for any number of lines and stages, any capacity of a pipe
and any output of a program:

- `TypeCorrect`, `NoneLeftBehind` (`AllReaped`), `EndsAreClosed` (`NoStrayEnds`).

`Started` says how far the stages of each line are from the position of the
shell's loops, and `ShellEnds` and `StageEnds` bound what each process has open:
the shell the pipes between its two loops (`HeldNow`), a child just forked the
pipes of its line, a program its input and output; and each of them the pipes of
lines given up (`LeakedEnds`), which nobody closes.

**`LocalShell_proofs`**, for every input, size of the buffer and set of faults:

- `TypeCorrect`, `PipedLinesInOrder` (`InOrderOnPipe`), `NothingSkipped`
  (`NoLineSkipped`), `OnlyMissingReplays` (`ReplayNeedsMissing`), `PrintedOnce`
  (`SaidOnce`), for ShellP2 and ShellP3.

The properties speak of the history `ran`; what makes them inductive is
where the offset and the buffer are. `Forward`: as long as nothing was given
back, the offset is not before the end of the buffer and everything executed is
before the buffer. `Complete`: as long as no program read the input, the offset
is not behind the end of the buffer and every line before it was executed.
`LinesKnown` ties children to lines. `Flushed`: in ShellP3 the output buffer is
empty from `fgets()` to `fork()`, and so is every child's copy. `LinesKept` says
that what was said of the lines taken holds as long as they stay. A child moves the offset back only if its
line is in `Missing` and forward only if it is in `Readers` (`KidStepOK`), which
are the first disjuncts of `Forward` and `Complete`.

**`StringFun_proofs`**, for every alphabet, `BUFFER_SZ` and length of arguments:

- `TypeCorrect`, `CountsWords` (`WordsRight`), `ReversesText` (`ReverseRight`).
- `CollapsesItsInput` (`SetupCollapses`): an argument without a blank at its ends is
  collapsed with dots behind it, and refused only if it does not fit collapsed.
- `ReplaceLosesNothing` (`ReplaceKeepsRest`): the first match is replaced, what is
  before and behind it stays, NULs come behind what became shorter and in the last
  place; it refuses, and changes nothing, only without a match or when the
  replacement is longer.

The loops of `stringfun.c` are steps here, so what a loop computes is an
invariant of its position and needs no induction over the text: `Collapsing`
relates the buffer to the part of the input read, `CountingWords` and
`MeasuringWords` relate `words` to the starts of words passed, `Reversing` says
which ends have been exchanged. Cardinalities tie them to the properties: the
n-th character of the text is the kept character with n kept ones up to it. The
two lemmas that would be inductions are proved otherwise: `LeastNumber`
takes a least counterexample, `EveryPlace` counts an injection.

**`CommandLine_proofs`**, for every alphabet, length of a line and all limits:

- `TypeCorrect`: ShellP1 and ShellP3 never overrun `commands`, `exe`, `args` and
  `argv`, whose last place is left for the NUL or NULL.
- `KeepsWords` (`P3KeepsWords`): within its limits ShellP3 loses no word of a line
  without a tab.
- `ParsersAgree` (`P1AgreesWithP3`): two programs without a line in common, one
  taking blanks off the line and one off every part, find the same commands in a
  line that both accept, has no tab, and has no name of a program too long for `exe`.
- `QuotesKeepWords` (`P2KeepsWords`): of a line in which every quote begins or ends a
  word ShellP2 loses no word and changes no order, a word in quotes coming twice,
  as long as `argv` has room for that; every such line that needs more overruns `argv`.
- `BareLinesAgree` (`P2AgreesWithP3`): where quotes, pipes and tabs play no part the
  loop of ShellP2 and `strtok()` in ShellP3 give a program the same arguments, as
  long as `argv` of ShellP2 has room.

The only variable is the line; what has to be shown is about operators. `NthIs`
says that places taken by rank are in order, `TokenEnds` and `TokensAre` that each
start of a token has its end, `FlattenFront` that flattening a sequence appends
its last member, so that the test `TooBig` before a word is appended bounds what
the whole of `args` is in the end (`ArgsFit`). The recursive function in
`FlattenSeq` is shown to exist, and to be unique, by a least counterexample.

That no word is lost needs no induction over the line. A part between two pipes,
blanks taken off, is a `Stretch` of the line, so its words are a slice of the words
of the line (`StretchTokens`); the parts hold all words, each at least one, with a
pipe between any two (`Divides`). So the ends of the parts cut the words
(`DividesCuts`), and what is cut and joined is the whole (`FlattenCut`). A line has
only one such division (`PartingUnique`: the first part to end elsewhere would hold
a pipe), and the commands of ShellP1 are one (`P1Divides`), as are those of ShellP3
(`P3Divides`). `RoomAssumption`, that `exe` has room for a character and `argv` for
a word, is needed for `P1AgreesWithP3`: with less, every command of ShellP1 would
look blank.

ShellP2 needs the induction, since its loop carries a state. It is made of least
counterexamples, as the rest: the recursive function exists (`LoopExists`), so it
obeys its recursion (`LoopIs`), and a first place where the invariant `Reads` fails
contradicts `ReadsStep`. `Reads` says of the state after k characters that `quoted`
is the parity of the quotes so far, that the NULs are the unquoted blanks and the
closing quotes, and, counting with `Begins(k)` the words begun, that `argv` holds what
the words before the present one give (`Given`), and the present one once if its second
quote was the last character (`ClosedOnce`). `P2KeepsWords` by itself says nothing of
the loop before its end. What `argv` holds are pointers; that the text at each is a
word without its quotes (`ArgText`) depends on NULs put later, so `Text` takes those
of the whole line, which `Nuls` gives without the loop.

The assumptions are the named `ASSUME`s of the modules (sizes are natural
numbers, sets of options, faults and kinds of lines are among those the code
has); TLC evaluates them in every run. One care is needed with tlapm 1.4.5: its SMT
backend accepts `DOMAIN f = 1..Len(f)` for any function `f`, which is right for
sequences only. A step that states it has a fact by which `f` is a sequence.

**Only model-checked:**

- Everything under fairness, which is out of the prover's reach:
  `CommandsFinish`, `CommandsAnswered`, `PipelineReturns`, `StagesEndWithShell`,
  `LoopEnds`.
- The four sentences that are false: a violation is a behaviour, not a theorem.

## 6. Observations

What the code does that a reader may not expect, met while modelling. The four
sentences of section 3 have a run of their own. Of the rest, those marked
**contradicts** go against a comment or a test, which is named; the properties
leave that case out, or state what the code does, and say so in their comments.
The others go against nothing that is written down.

Student database:
- Two `-a` of one id can both pass the duplicate check (`sdbsc.c:110`); the second
  replaces the first, in the right slot.
- A `read()` error is the end of the file to `get_student()` (`:79`), so `-a` may
  replace a student that is there and `-f` may deny one.
- `-f 0` finds the first hole (`:73`), is refused by `print_student()`, and the
  exit status is success. `-d 0` seeks to -64 and fails.

Remote shell:
- `stop-server` never stops the server (`rsh_server.c:53`); `remote_exit` shows it.
- The client's socket is never closed by the server (`:50`): after enough
  clients `accept()` fails and the server ends.
- The one-byte protocol relies on TCP not cutting a command. Cut, a prefix is run
  as a command (`:66`) and two answers come for one command; then the lockstep is
  lost, and a client that is killed can take the server with it by `SIGPIPE`.
  Two commands are never run as one (`NeverMixesCommands`).
- Without memory for its buffer the server accepts a client and forgets it
  (`:60`); a command that `system()` could not start is answered like any other
  (`:70`).
- A failed `send()` ends the client's loop, which returns OK (`rsh_cli.c:109`); a
  failed `recv()` does not end it (`:112`): it prints what is in its buffer.

Local shell:
- With a file as input, a program that is not found makes the shell execute
  lines again: the child's `exit()` moves the offset they share. If it is again
  not found, this never ends.
- ShellP2 with its output in a file or a pipe prints its prompts and messages
  again after a program that is not found (`ShellP2/dshlib.c:59`, `:103`).
- When `pipe()` or `fork()` fails, the pipes made so far leak and the children
  forked so far are not waited for (`dshlib.c:135`, `:146`).
- A line of spaces without a pipe ends the shell (`match_command()` is given a
  null pointer); `dshlib.h:92` has a warning for it.
- Commands beyond `CMD_MAX` are dropped without a word (`:211`), although
  `CMD_ERR_PIPE_LIMIT` exists; a stage with too many words runs truncated while
  a single command with too many is refused.
- ShellP1 cuts the name of a program that is too long for `exe` and returns OK
  (`ShellP1/dshlib.c:67`). **Contradicts** `ShellP1/dshlib.c:28-30`, which has
  `ERR_CMD_OR_ARGS_TOO_BIG` for it. `P1AgreesWithP3` leaves such names out
  (`NamesFit`).
- A tab is a blank to ShellP3 at the ends of a command, and a character of a word to
  ShellP1: on a line of a tab, `a|b`, they find different commands. The properties
  that compare them leave out lines with a tab.
- ShellP2 writes its arguments without a limit behind `argv[CMD_ARGV_MAX]`
  (`ShellP2/dshlib.c:128`, `:133`, `:143`, `:146`; `dshlib.h:16`). `P2KeepsWords` says
  which well quoted lines do it ("overrun").
- ShellP1 accepts the line `|` with no commands. ShellP2 has no built-in `exit`
  (`ShellP2/dshlib.c:79`): the word is looked up as a program, and only the end of
  the input ends that shell.

stringfun:
- `-x` refuses every replacement longer than the part replaced, since the text it
  measures includes the dots. **Contradicts** `test.sh:72-76` and `:84-94`, which
  expect it to be put in, the end of a text that is then too long being cut.
- A shorter replacement leaves NULs at the end. **Contradicts** `test.sh:96-100`,
  which expects dots. The last place of the buffer is always lost.
  `ReplaceKeepsRest` states all three as the code has them.
- A blank at either end of the argument is kept, as one space. **Contradicts**
  `test.sh:28-33` ("remove extra spaces"), which expects none. `SetupCollapses`
  leaves such arguments out (`OuterBlank`).
- A text that fills the buffer is refused if blanks follow it, although they would
  be collapsed (`stringfun.c:25`).

## 7. What is not modelled

- Wording and layout of what is printed; the names of students; `-h`.
- Heap blocks: `build_cmd_buff()` loses one block per command (`dshlib.c:261`),
  unconditionally. Its `strdup()` (`:262`) is not tested: without memory `strtok()`
  is given a null pointer, from where any behaviour is possible.
- The directory that `cd` changes; exit statuses of commands.
- The programs that shells start, beyond what a pipeline needs of them.
- Option parsing of `RShell/dsh_cli.c` (a `-c` or `-s` behind `-i` puts the default
  address back; `-x` is accepted and ignored): no state, and nothing happens
  concurrently. Restart of a server on the same port.
- `send_message_string()` and the other functions without a caller.
- The loop of ShellP1, which keeps no state and only prints.
- A buffer of standard output that fills up, and is written early; output to a
  terminal, which `fgets()` flushes.
- Memory outside the buffers: `strstr()` and `strlen()` of stringfun run over a
  buffer without a NUL, for which `StringFun` takes the outcome of a fresh heap.
  ShellP2 fills `argv` without a limit: `CommandLine` says "overrun" of a line that
  does not fit, and nothing more; `LocalShell` assumes the outcome of the build, so
  what it shows of those lines holds under that assumption only.
- `main()` of stringfun before its `malloc()`: the argument checks and `-h`
  (`stringfun.c:182-203`).
- Makefiles, built programs and test scripts.

## 8. Plan

Done, in this order: the database and its store, the remote shell, the pipeline,
the command loop, the parsers, stringfun; the proofs of `StudentDB` and
`LocalShell`; the abstract remote shell and its refinement, the loop of ShellP2
and the output buffer, with their proofs; the proofs of `RemoteShell` and its
refinement, `StudentDBScan`, the sequential refinement of `StudentDB`, `Pipeline`
and `StringFun`, and of the limits of the parsers; that ShellP3 loses no word, that
the parsers of ShellP1 and ShellP3 agree; that ShellP2 loses no word, and agrees with
ShellP3 where both mean the same.

The model has what the code has to offer; `LocalShell` and `Pipeline` share only
the first stage of a pipeline, which both have, and are not composed further.

Every safety invariant and action property that a run checks is a theorem. What is
left to TLC is liveness, which the prover does not reach.
