# Verification of mk-configure in TLA+

mk-configure is a build system: a set of bmake include files (`src/mk`), shell
scripts that test the toolchain and install files (`src/scripts`), and a small
C library of replacements for functions a platform may lack (`src/features`).
There is no long-lived process and no network. What makes it hard to get right
is that everything it knows is kept in files that several processes, several
projects and several runs share: result files, temporary sources, object
directories, installed files. This directory holds TLA+ models of those parts,
TLC configurations that check them on small instances, and TLAPS proofs.

## The system

| component | source | state it keeps | operations | hard behaviours |
|---|---|---|---|---|
| feature tests | `scripts/mkc_check_*.in`, `mkc_check_common.sh` | `_mkc_*.res` (answers), `.c`, `.err`, `.o`, `.exe` files named by the test, in `MKC_CACHEDIR` | run a test, `-d`, `-D` | processes that share file names, kills, empty results, option differences between scripts |
| configure | `mk/mkc.conf.mk`, `mk/mkc_imp.conf_*.mk`, `mk/mkc_imp.pkg-config.mk`, `check_mkc_err_msg` in `mk/mkc_imp.mk` | `HAVE_*` variables of one make, `MKC_ERR_MSG`, the cache | check, require, delete negative answers, fail | old answers, interrupted runs, answers that change during a run, projects that only check what others require |
| compiler settings | `mk/mkc_imp.compiler_config.mk`, `mk/mkc_imp.compiler_type.mk`, `scripts/mkc_compiler_settings.in` | generated settings files | generate, include, regenerate | a temporary file shared by two targets, settings older than the compiler |
| subprojects | `mk/mkc_imp.subprj.mk`, `mk/mkc.subdir.mk`, `mk/mkc_imp.objdir.mk` | the graph of `target-directory` nodes | build the graph, recurse | `NODEPS`, `INTERNALLIBS`, short names, cycles, order under `make -j` |
| library dependencies | `scripts/mkc_get_deps.in`, `mk/mkc_imp.dpvars.mk`, `LIBDEPS` in `mk/mkc_imp.mk` | the dependency file | list transitive dependencies | order of link, duplicates |
| phases | `mk/mkc_imp.final.mk` | the `pre_/do_/post_` targets with `.WAIT` | configure, all, install, ... | order under `make -j` |
| compilation rules | `mk/mkc_imp.rules.mk`, `mk/mkc_imp.dep.mk`, `mk/mkc_imp.lib.mk`, `mk/mkc_imp.prog.mk` | objects, `y.tab.*`, dependency files | compile, yacc, link, clean | two yacc runs that share `y.tab.c` |
| text files | `mk/mkc_imp.intexts.mk`, `mk/mkc_imp.man.mk`, `mk/mkc_imp.pod.mk` | generated texts | substitute | a target half written when make is interrupted |
| installation | `scripts/mkc_install.in`, `mk/mkc_imp.files.mk`, ... | installed files, `#inst.PID#` | copy, link, make directories | interrupts, concurrent installs of one target |
| version test | `scripts/mkc_check_version.in` | none | compare two version strings | numbers of unequal width |
| program search | `scripts/mkc_which.in` | none | search `PATH` | exit status |
| wrapper | `scripts/mkcmake.in` | environment | start bmake | none |
| replacement library | `features/*/*.c` | buffers of `getline`, `fgetln` (a pool), `unvis` (a decoder state), signal handlers and mask | the C functions | buffer growth, failed allocation, overflow, decoder states, signals between two steps |
| feature makefiles | `features/mkc_imp.f_*.mk` | none | choose replacement sources | none |
| containers | `features/netbsd_sys_queue.h`, `features/netbsd_sys_tree.h` | the links of lists and trees | insert, remove, concatenate, search, loops | ends of lists, loops whose body changes the list, rebalancing |
| platform files | `mk/mkc_imp.platform.*.mk`, `mk/sys.mk` | variable settings | | none |
| examples, tests, documentation | `examples`, `tests`, `doc`, `presentation` | | | |

How they interact: bmake reads a project's makefile, which includes
`mkc.conf.mk`; each `HAVE_X != mkc_check_...` there runs one feature test
synchronously. The test's answer comes from `MKC_CACHEDIR` if the result file
exists. Required items that are missing are remembered in `MKC_ERR_MSG`, their
results are deleted, and the project's `configure` target fails. `mkc.subprj.mk`
runs one bmake per subproject and target, with `MKC_CACHEDIR` in the
environment, so subprojects share the cache.

Correctness, component by component:

* feature tests: an answer is the truth when it is worked out; it is repeated
  until it is deleted; a test is shown its own program; every test ends; nothing
  else is left behind when that is asked for;
* configure: a missing required item leaves no negative answer behind, is not
  blamed again once it is there, all subprojects of a run agree, and a run
  succeeds once everything is there;
* subprojects: every dependency written in `SUBPRJ` becomes an edge for every
  target unless `NODEPS` names it, and all targets of a project are reached;
* library dependencies: a topological order without repetition;
* installation: the target is the old file or the whole new one, at every moment;
* text files and yacc: a target that exists is complete;
* version test: agrees with the order of versions;
* containers: what has been put in and not taken out is there, once, in order; a loop
  misses nothing; a red-black tree is balanced;
* library: each function agrees with its documented result for every input, and
  leaves its buffers in a state later calls can use.

## What is modelled

### CheckTests, CheckMemo, CheckCache: the feature tests

`CheckTests` holds what each kind of test asks and how it decides: the sixteen
sizes of `mkc_check_sizeof` (`SizeofCompiles`, `SizeofDecide`), the two
compilations of `mkc_check_decl type`, the one compilation of the other
`mkc_check_decl` tests, `mkc_check_header` and `mkc_check_funclib`, the output
of custom commands and programs, and which of `-d` and `-D` deletes what in
which script (`DeleteMode`).

`CheckCache` runs those tests as processes that share `MKC_CACHEDIR`. Each
system call on a shared file is an action: `Test` (`test -f`), `Cat`, `Trunc`
and `WriteIncludes` (`get_includes > $tmpc`), `WriteBody` (`cat >> $tmpc`),
`Compile`, `Run`, `Open` and `Write` (`echo "$ret" > "$_cache"`), `Purge`,
`Cleanup`, `RmCache`, `RmTmp`. A descriptor that is open while its file is
removed is tracked by `held`: what is written through it is lost. `Crash` kills a
process at the points in `CrashAt`; `Change` installs or removes something while
no test runs. The contents of a source file are the sequence of pieces written
into it; `Verdicts` says what a compiler makes of them, and leaves every mixture
that is not some test's own program open.

`MayStart` is the discipline that `mk-configure(7)`, BUGS, asks of its users: run
`configure` first, so that no test is worked out twice at once. With
`Overlap = TRUE` it is lifted.

`CheckMemo` is the abstract promise: `Ask`, `Recall`, `WorkOut`, `Leave`, `Forget`,
`Change`. `CheckCache!Memo` instantiates it: an entry counts once it is written, a
process has been told its answer once it is past the write.

### Configure, ConfItems: runs over subprojects

One run configures every project of a tree, in any order the dependencies may
ask for. `Enter` starts a make (`HAVE_*` given by the user are set), `Check` is
one `HAVE_X != mkc_check_...` (the feature test is taken from `CheckMemo`: cached
answer, or a new one which is cached unless the command failed), `Judge` is one
turn of the loop over `MKC_REQUIRE_*`, `Delete` one `mkc_check_... -D`, `Target` the
recipe of `check_mkc_err_msg`, `Kill` an interrupt, `Change` a package installed
or removed at any moment. The fragments are included in the order of
`mkc.conf.mk` (`Reached`); those in `Inline` check and judge in one loop. What
`mkc_imp.pkg-config.mk` asks, `pkg-config` itself and the packages, is `Guarded`:
`mkc_imp.mk` includes that file only while `MKC_ERR_MSG` is undefined, and its loop
needs `HAVE_PROG.pkg-config`, so once something is missing a make ends without having
asked (`Included`). A project with modules in Lua is not modelled: `mkc_imp.lua.mk`
includes the file whatever is missing.
What a positive answer adds to the compiler's flags is left out.

A variable and the file its value is kept in are two things. An item is judged by
variables (`CheckVars`); each gets its value from a result file (`Result`), the first
spelling of an item that sets a variable decides from which; and when the item is
missing, `DeleteKeys` are deleted. `Value` is the cached answer, except that a program
whose path is cached is looked for again (`exists` in `conf_progs`).

`ConfItems` says what these are, one operator for each fragment: which variables an
item sets, which files it reads, which it deletes. `conf_funcs` reads another name
with `MKC_FUNC_OR_DEFINE`, `conf_custom` with `MKC_CUSTOM_CACHE`; `ByHeaders` drops all
headers but the last from the variable and none from the file; `pkg_config` deletes
without `MKC_CACHEDIR` in its environment. `MCConfigure` computes the constants of
`Configure` from items with it. Programs given by an absolute path, `MKC_CHECK_SIZEOF`
and `MKC_CHECK_*_OPTS` (never required) are left out. No run gives a variable a
value of the user's (`Preset`); the proofs have any.

`wronged` and `seen` are history: the items that were reported although present,
and the answers each project of the current run was configured with.

### InstallRequests, AtomicInstall, Install: mkc_install

`Install` tells names (directory entries) from inodes, because a target may be
a hard or symbolic link to a source. A process goes through `copy_file` once per
source: `CreateCopy` and `Fill` (`cp` to `#inst.PID#`; an inode whose contents are
not there yet) or `CreateLink` (`ln -f`, `ln -f -s`), one `SetAttr` for each of
`chown`, `chgrp`, `strip` and `chmod` that is asked for, in that order, and `Move`
(`mv` to the target; `Rename` knows that rename(2) does nothing when both are one
file and that `mv` moves *into* a directory). `Fail` is any command that fails
(`set -e`), `Trap` the trap that removes `#inst.PID#`, `Kill` a kill that leaves
it. `Target` is the choice between `DIR/BASENAME` and the second operand.

`AtomicInstall` is the promise: each source operand in turn replaces its target
at once by the finished file, or the request is given up; nothing else happens
to what can be opened under the names of targets and sources. `Install!Abs`
instantiates it with what one reads through each name (`viewBar`).

### GetDeps: the order of libraries

`mkc_get_deps` prints the libraries a project must be linked with. `Visit` is one
turn of the loop of `print_all_deps`, with the early return for a project that is
in `processed`; `Return` is its end, which appends to `result`. The calls that go on
are a stack. `LIBDEPS` may be any graph; the order of the dependencies of one
project is any order.

### SubPrj: subprojects under make -j

`SubPrj` has the graph that `mkc_imp.subprj.mk` builds: nodes are the targets it
declares (`all`, `all-lib`, `nodeps-all-lib`, `subdir-all-lib`, `lib`), `Linked` is
what it links, `Cut` the patterns of `NODEPS` with those that `NOSUBDIR` and
`INTERNALLIBS` add, `Prerequisites` what is left. `Enters` is the recipe
`__recurse`: it knows the node by its name only. On this graph a make runs
(`Ask`, `Enter`, `Pass`, `Leave`, `Quit`): this part is bmake's, modelled as the
project uses it: a node is made after its sources and what precedes it across a
`.WAIT`, at most `-j` at once, each may fail, and after a failure nothing new
begins unless `-k` is given, and then nothing that needs what failed.

`errorcheck-*` (not one of `TARGETS`) and short names (`SHORTPRJNAME`: aliases of
nodes that are there) are left out.

### Vis, Unvis, VisCodec: the codec

The code is `mkc_vis.c` and `mkc_unvis.c`. `Vis` is what one byte is
encoded as: `Encode` chooses `do_hvis`, `do_mvis` or `do_svis` by the flags,
`ExtraList` is the list of further bytes, in which `wcschr` also finds the
terminator, so that a NUL is always one of them. `Unvis` is one call of the decoder:
`unvis` takes the state (`*astate` and `*cp`) and a byte and gives the state and the
code that is returned, `unvisEnd` is the call with `UNVIS_END`. `VisCodec` makes them
a pipe with no length: `EncodeByte` writes the encoding of a byte, which depends on
the next (`istrsenvisx`), `DecodeByte` and `DecodeEnd` are the loop of `strnunvisx`
with its `goto again`, and `lag` holds the bytes that are on their way, so that
`RoundTrip` speaks of strings of every length with a finite state. The flags of both
sides agree: `VIS_HTTPSTYLE` is decoded with `VIS_HTTP1808`, and with
`VIS_HTTP1866`, for which there is no encoder, names come from `EncodeName`. The
locale is "C", so a character is a byte.
`VIS_CSTYLE` with `VIS_GLOB` or `mbextra`, and numbers (`&#65;`), do not come back
(see below), so the instance does not have them; nor has it `VIS_NOSLASH`, which
nothing can decode. `Decodable` says which flags are left, `NamesRight` what the table of
names has to be for `S_STRING` to find them.

### VisStrings: the functions of the codec

What `codec_runs` shows of bytes, `VisStrings` takes to the functions a program
calls: `istrsenvisx` with its buffer, its limit and its two allocations, what of the
encoding is written and where it stops (`Output`); the entry points above it with a
length, a limit, both or neither; and `strnunvisx` on the result, with a limit of its
own. `reach` is the last byte that was written, so that a write behind the end shows.

### SysQueue, Queues: lists

`SysQueue` has one operator for each macro of `netbsd_sys_queue.h`, of all six kinds
of lists, as functions on a memory of `next` and `prev` fields. A pointer to a pointer
field is the object that holds the field, so `*(elm)->le_prev` is a field of the
object that `prev` names. The checks of `QUEUEDEBUG` are operators too.

`Queues` is the program: any number of lists of one kind, every insertion, removal and
concatenation that kind has, and loops (`FOREACH`, `_SAFE`, `_REVERSE`) whose body does
any of these between two turns. What was removed is free, and others write over its
fields (`Junk`). A program may do what `queue(3)` lets it: a loop without `_SAFE` does
not remove the element it is at, one with it not the element it has read ahead. `content` is the sequence a list should be.

### SysTree, Trees: red-black and splay trees

`SysTree` has the macros of `netbsd_sys_tree.h`. What the code writes twice, once
for left and once for right, is written once for a side and used for both
(rotations, the colours of `RB_INSERT_COLOR` and `RB_REMOVE_COLOR`, the steps of a
splay). `Trees` inserts, removes and searches; what is removed is written over.

### Fparseln, LineInput: lines with comments and continuations

`Fparseln` is one call of `fparseln`, with each choice of its three characters (any may be
off) and of its flags, and with a failure of `getline` or of its own `realloc`; `Round` is one
turn of its loop. `LineInput` has a writer, who makes a file of parts (text, escaped characters,
broken lines, comments), and a reader who calls `fparseln` until NULL. `Meant` is what the writer
means, worked out from the parts and not from the characters. `LineAssumption` says that a
character has one meaning: none is the newline, and that of comments is neither of the others;
those of escapes and of continuations may be one, as they are by default.

### LineBuffers: getline, getdelim and fgetln

Only sizes count here: how a buffer grows until a line and its terminator fit
(`Grown`, `Doubled`), what a failed allocation leaves in `*lineptr` and `*n`, and which
slot of the pool `fgetln` takes. A line is known by its stream and number; `reach` is
the last byte written, `holds` the line a buffer has. A call after a failure is a call
with what the failure left; when that writes through a null pointer (`wild`), the
program is at its end.

### CStrings, Strings

`CStrings` has `strlcpy`, `strlcat`, `stresep` and `shquote`, one operator each.
`Strings` uses them as programs do: a path put together from pieces in a small
buffer, directly or through the wrappers of `efun`, which call what `esetfunc` has
set when the result would be cut or an allocation fails; a string escaped, joined by
a separator and taken apart by `stresep`; an argument quoted and read by `sh` (`ShRead`).

### Reallocs, Numbers

`Reallocs` has `reallocarr` and `reallocarray` for any width of a `size_t`: half of its
bits count up to `SQRT_SIZE_MAX - 1`, products are cut to it (`Product`), and the
division is skipped where the code skips it. The code's `(number|size) >=
SQRT_SIZE_MAX` asks whether either operand has one of the upper bits, since
`SQRT_SIZE_MAX` is a power of two. `Numbers` has `strtoi` and `strtou` (with the value
`strtoimax` gives, cut to its range) and `humanize_number` with every flag and scale;
the digits are kept as numbers.

### Signals: raise_default_signal

A program, or a handler of its own, calls `raise_default_signal`, while signals
arrive from outside. Each system call is an action (`Block`, `Default`, `Raise`,
`Unblock`, `Unblocked`, `RestoreAct`, `RestoreMask`, `Return`), may fail where the code
looks at its result, and any signal may be delivered between two of them. The kernel's
part is written as POSIX has it: a mask, pending signals, a handler with its own
signal blocked. `DefaultRaised` says what the call restores and which signals come
through between its first `sigprocmask` and its last (`Inside`), the calls that wait under
handlers included: only its own, by default until `RestoreAct`, and after that to the
handler it found.

## Runs

| run | instance | shows |
|---|---|---|
| `cc_shared` | two processes, two header tests with one file name (`sys/b.h`, `sys_b.h`), `MKC_NOCACHE` empty or 1, kills everywhere but in the write of a result | each test compiles its own program (`OwnSource`); the result file is a memo (`MemoSpec`) |
| `cc_kinds` | one test of every kind, each in turn, two processes, `-d`/`-D`, `MKC_DELETE_TMPFILES=1`, sixteen sizes | types, `NoLitter`, `MemoSpec` for every kind |
| `cc_overlap` | two processes, a sizeof test (two sizes) and a custom test that may fail, run at once and removing each other's files | both end (`Terminates`) |
| `conf_runs` | a library that checks and a program that requires a function in a library (two results) and a custom test that may fail; the program requires a package too, hence `pkg-config`, and asks about both only when nothing else is missing; kills and changes at any time | types, `NegativesNotCached`, `Coherent`, `BlamedOnce`, `FixAndRetry` |
| `inst_runs` | two installers, copies (strip, chmod), hard and symbolic links, two sources into a directory, a usage error; targets missing, old files, hard or symbolic links to sources; failures and kills anywhere | types, `NoLitter`, `OwnCopy`, `AtomicSpec` |
| `inst_directory` | a directory has the name of the file to install | the file ends as `DIR/NAME/#inst.PID#` (finding) |
| `deps_walk` | every graph over a program and three libraries, cycles included | types, `LinkOrder`, `Once`, `Complete`, `Ends` |
| `make_runs` | five projects (public, internal, left out, program, virtual) and every choice of eight edges between them; three targets, eight goals, two jobs, failures, with and without `-k` | types, `Ordered`, `Excluded`, `Complete`, `Ends` |
| `codec_runs` | strings of any length over 29 bytes, one for each way in which `vis` or `unvis` tells a byte from another; fifteen sets of flags; ten of the names of RFC 1866, six of which share a beginning with another | `RoundTrip`, `NothingLost`, `Taken` |
| `library_runs` | programs that use one part of the library each: lists, trees, `fparseln`, line buffers, strings, `vis` with limits, numbers, signals | `Chained`, `Checked`, `Visited`; `Sorted`, `Balanced`, `Answers`; `LinesRight`; `LinesKept`; `StringsRight`; `VisRight`; `NumbersRight`; `DefaultRaised` |
| `cc_killed_writing` | one header test, killed between truncating and writing the result | the next test prints an empty line (finding) |
| `conf_wrongkeys` | `MKC_FUNC_OR_DEFINE`, `MKC_CUSTOM_CACHE`, and a type checked and required with two lists of headers, in one project; a package in another; both set the same `MKC_CACHEDIR` in their makefiles | four required items whose negative answers stay cached, one reported by one make, three by another (four findings, one trace) |

Bounds. Two processes are enough for every interference the scripts can have,
because a process touches the files of one test only and two processes already
produce every order of two accesses to one file; the proofs cover any number.
Two tests with one file name are enough for the sharing of names. `cc_kinds`
takes one request at a time because requests of different kinds share no file.
In `conf_runs`, two projects are enough for a cache filled by one and read by the
other, and one item of each shape is enough: one with two variables, one whose
command may fail, one whose answer is looked at again, one that is asked about after
all others. In `inst_runs`, two installers and two targets give
every pair of accesses to a target, six inodes are one for each name, so that
a copy always finds a free one; processes and the inodes that are not sources
are symmetric. In `deps_walk`, four projects give diamonds, chains of three and
cycles through and beside the program. In `make_runs`, the edges have one
direction, since a cycle is an error of the makefile that bmake reports, and go
along the order of the `.WAIT`s; a project that is left out can be a source, a
middle and an end of a path; three projects can run at once, so two jobs are a
limit. In `codec_runs` any byte can follow any other, and an encoding is read
to its end before the next is written, so two bytes and their order are all that a
call can depend on.

`library_runs` is one run, since its parts share nothing and none is large alone
(250,968 states). Two lists of three elements, because the macros look at an element,
its neighbours and the head, and the element in the middle can be removed with a loop
behind it or ahead of it; all six kinds, with two heads for concatenation. Nine elements with eight keys, one key twice: a red-black tree with
eight elements meets every case of the removal, also where it goes up more than one
level, and an insertion of a key that is there; a splay tree has many more shapes and
holds six of the keys at most (`MCSplayElms`), with questions for all. Files of up to four parts: a
comment, an escape, a break and text in any order, read with escapes, continuations
or comments off and with all on; the first or the second line of a call may fail
(`FaultLines`). Three streams on two slots, so
that the pool goes round while a line is held; lines of 1 and 5 bytes and buffers
that are missing, too small, and just large enough; at most two lines are read from
each stream (`MaxLines`), and the first or the second allocation of a call may fail
(`Failing`). Strings of up to four bytes into up to four. Two bytes to
encode, each of another way, with limits around the lengths of their encodings.
`SQRT_SIZE_MAX` is 3, so that a `size_t` has nine values and products of every kind;
the proof covers any. `humanize_number` takes the amounts at which a column, a prefix
or the rounding changes, up to a hundredth of what an integer of TLC holds: its own
overflows, further up, are not in the instance. Two signals, one that ends a program
by default and one that stops it; three of them arrive (`MaxArrivals`), and calls and
handlers are four deep (`MaxDepth`): a call of the program, a handler, a call of that
handler, and a handler again. These programs may stop, so
deadlock is not asked about.

No other counter is bounded: the models are finite.

`MCCheckCache`, `MCCheckKinds`, `MCConfigure`, `MCInstall`, `MCGetDeps`, `MCSubPrj`,
`MCVisCodec` and `MCLibrary` hold the instances.

## Fairness

`CheckCache!FairSpec` asks that every started process goes on: the operating
system schedules it and the scripts wait for nobody. Nothing asks that processes
start. `Configure!FairSpec` asks that a started run goes on and that somebody
starts another run when it has ended; `FixAndRetry` is a statement about someone
who tries again, so this is its premise. Neither kills nor changes are fair;
`FixAndRetry` assumes that they end. `GetDeps!FairSpec` asks that awk goes on.
`SubPrj!FairSpec` asks that a make that has been asked for goes on: bmake starts
what can be started and waits for its jobs, and a make in a subdirectory ends
(well or not). Nobody has to ask for another goal. `VisCodec!FairSpec` asks that the
loop of `strnunvisx` goes on; nobody has to write more. The modules of `library_runs`
have no fairness: their functions return within a step, and of a loop only the order
is asked.

## Proofs

`CheckCacheProofs`, for any processes, requests, names and sizes:

* `TypeCorrect`: types. The rounds are part of it: a test never leaves its loop.
* `OwnSourceCorrect`: under the discipline, whatever is killed. The inductive
  invariant follows the contents of the source file through the program points
  of the one process that works on it: empty after `Trunc`, the includes after
  `WriteIncludes`, the whole program at `compile`; and says that no two processes
  work on one file (`MayStart`), so that no other process's descriptor is open on
  it.
* `MemoCorrect`: the scripts implement `CheckMemo` when nothing is killed inside
  the write of a result. Each action maps to a memo action or to a stutter;
  `Compile` of the last round and `Write` are the interesting ones, and need that
  the round reached so far is explained by the toolchain's answer (every earlier
  size failed to match). That the toolchain does not change while a test runs is
  the guard of `Change`.
* `NoLitterCorrect`: no test that has ended leaves a source or an `.err` file behind,
  when nothing is killed between its first temporary file and its cleanup (`cc_kinds`
  has no kills there either, since a kill leaves litter). It needs no discipline: tests
  of one name may run at once and take each other's files away. The inductive
  invariant `LitterInv` says that every file that is there is looked after by a process
  that still has its cleanup before it (`Tended`); a process that ends leaves nothing to
  a file that only it tends, since its cleanup removes the file whoever made it.

`ConfigureProofs`, for any tree, items and interruptions:

* `TypeCorrect`: types; a failed command is never cached.
* `NegativesCorrect`, `BlamedOnceCorrect`, `CoherentCorrect`, under two assumptions on
  the constants: `DeletesAll`, what is deleted for an item is what it is judged by
  (false with `MKC_FUNC_OR_DEFINE`, `MKC_CUSTOM_CACHE` and `pkg_config` in
  `conf_wrongkeys`); and `Apart`, a variable gets its value from one file and no two
  from the same (false for the type that is checked with other headers there).
  The inductive invariant `IInv` says: between
  makes there is nothing judged (`Quiet`); a reported item was found missing by
  every result it has, and its negative answers are deleted or about to be
  (`Reported`); an item blamed although it is there has no negative answer left
  anywhere, so it cannot be blamed again (`Cleared`); while a run can still succeed,
  what its projects have seen is what is cached or given by the user (`Shared`).
  None of the properties is inductive alone: agreement needs that nothing is
  deleted in a run that goes on to configure, which needs that a deletion goes
  with a report, which ends the run.

`InstallProofs`, for any processes, sources, targets and requests, whatever fails
or is killed:

* `TypeCorrect`, `OwnCopyCorrect`, `NoLitterCorrect`: types, `OwnCopy` and `NoLitter`.
* `AtomicCorrect`: `Install` implements `AtomicInstall`, if no directory has the name
  of a target (`NoDirectories`; `inst_directory` shows what happens otherwise). The
  inductive invariant `IInv` says that no source is ever written to, that the
  temporary name of a process that copies is a copy of its current source, whole
  after `Fill`, that nobody else has a name for that inode, and that the temporary
  name of a process that links leads to its source. `AwayStep`, `WriteStep` and
  `CreateLinkStep` preserve it for the three kinds of steps; `Unseen` says that what
  is written to an inode without a visible name changes no view, `MoveFinished` that
  what is moved is finished.

`GetDepsProofs`, for any projects and graphs:

* `TypeCorrect`, `OnceCorrect`: a project is either on the stack or printed, and
  never twice, because it is marked before it is pushed.
* `LinkOrderCorrect`: what a printed library depends on was visited before it, and
  is printed or still on the stack; on the stack it would depend on the library,
  a cycle.
* `CompleteCorrect`: what is printed or on the stack is closed under `graph` but for
  what `todo` still holds, and is reached from the project.

`SubPrjProofs`, for any projects, graphs, patterns and number of jobs:

* `TypeCorrect`: types, and no more makes at once than `-j` says.
* `OrderedCorrect`: the inductive invariant `Local` says that whatever has begun has
  its direct sources made, which is stable because what is made stays made. Then
  the projects that are made, with the one that has begun, are closed under the
  edges that are not cut, and so contain all it depends on.
* `ExcludedCorrect`: nothing is wanted that an edge leading to what is left out would
  bring in (`Uninvited`).
* `CompleteCorrect`: a make that ends without an error has made its goal and all that
  what was asked for depends on. It holds of finitely many projects, if `all` is one of
  the targets and neither the pairs nor the `.WAIT`s, nor both together, lead round in
  a circle (`Unwound`, which TLC evaluates on the instance; bmake refuses a circle as an
  error of the makefile). What is wanted is closed under `Prerequisites` (`Wanted`). Of
  the nodes that are wanted and not made, one with the least rank has everything it
  waits for, so the make could go on: it does not end before it has made them all.
  `Asked` leaves out what `NODEPS` cuts off from the goal itself.

`StateProofs`, what the library keeps between calls. First the queues, for any lists and
elements (finitely many, for the order):

* `QueuesChecked`: no check of `QUEUEDEBUG` ever fails, whatever is inserted, removed
  and concatenated, also in loops. The inductive invariant `QueueInv` is local
  (`Linked`): the predecessor of the successor of an object is the object. For a
  CIRCLEQ this is a ring; a TAILQ is a ring once the NULL behind its last element is
  read as its head; a LIST is a chain. `RingInsert`, `RingRemove` and `RingConcat` say
  this of rings, one lemma for each macro says which of them it is, and one for each
  action that it keeps `QueueInv`.
* `ChainedCorrect`: for all six kinds, what is reached from a head is what the program
  has put there, in its order, and so backwards. The local links do not give this alone:
  `OrderInv` adds `Ordered`, that the cells of a list, its head and its elements in the
  program's order, lead from one to the next, and that the head of a STAILQ or SIMPLEQ
  knows the last of them. The singly linked kinds look for the cell before an element by a
  walk (`WalkTo`), which stops there because no element is twice in a list; the doubly
  linked kinds find it by the local links.
* `VisitedCorrect`: loops. `LoopInv` adds `Looping`: the place a loop stands at (with
  `_SAFE` the element it has read ahead) splits its list into what it has come to and
  what it has still to come to (`Split`), in either direction. A call in the body keeps
  the order of the elements that stay (`Kept`), so it keeps the split.

Then the buffers of lines, and signals:

* `LinesKeptCorrect`, for any streams, lengths, sizes of buffers and pool, and any
  choice of allocations that fail: `LinesKept`. The inductive invariant `BufferInv` says
  that each buffer is sound (its block is as large as its size says, or missing after
  a failure only) and that the slot of the line `fgetln` returned last is as many back as
  the cursor has moved since, and still the stream's (`InPool`). `StreamsAssumption` and
  `SizesAssumption` are what the constants must fulfil: lines are not empty, and
  no caller hands in a buffer of one byte.
* `DefaultRaisedCorrect`, for any signals, any depth of calls and handlers, and any
  number of arrivals. One half of the inductive invariant, `SignalInv`, says that a
  call that has blocked the signals and not yet put the handler back is at the top of the
  stack (`Covered`); until then the mask and the handler are such that only its signal comes
  through, by default, and what was raised is pending until that has happened (`Window`); every frame found the handlers that
  those who do not change them see (`Faithful`); and a call before its first or after its
  last step has the mask it found, or gets it back from what runs above it (`MaskChain`).
  `GotoKeeps`, `PushKeeps` and `PopKeeps` preserve it for the three ways in which the
  stack changes. The other half, in `ShutInv`, is about the time between the last
  `sigaction` and the last `sigprocmask`: the call has succeeded or every signal is
  blocked (`Closing`); and when it is under handlers and calls (`Beneath`), it has
  succeeded, all of them are for its signal, and the mask each of them gives back blocks the
  others. `GotoShut`, `PushShut` and `PopShut` preserve it.

`LibraryProofs`, what the functions of the library compute:

* `Room`, for any `SQRT_SIZE_MAX` above 1: a block has room for its array, the product
  taken as it is, and nothing that fits is refused (`RoomForAll`, a part of
  `NumbersRight`). Two factors below `SQRT_SIZE_MAX` have a product a `size_t` holds,
  which is why the division may be skipped; where it is not, `SIZE_MAX / number < size`
  says exactly that the product is too large.
* `NumbersCorrect`: all of `NumbersRight`, for any width of `intmax_t`, any texts, bounds,
  amounts, lengths, suffixes, scales and flags. Of `humanize_number` the proof says that the
  digits are nearest to the amount and that the smallest unit is taken in which
  they fit. It rests on `NumbersAssumption`: a hundred times an amount is used up by
  the divisors there are prefixes for, as one of 64 bits is. Its integers have no
  width, so the overflows named below stay outside of it.
* `RoundTripCorrect` and `NothingLostCorrect`, for all 256 bytes, strings of any length,
  any `mbextra` and any table of names. What they ask of the flags is `Decodable`: no
  `VIS_NOSLASH`, no `UNVIS_NOESCAPE`, and not `VIS_CSTYLE` with what it writes and `unvis`
  refuses (see below); what they ask of the table is `NamesRight`: it is sorted, so
  that names with a common beginning are neighbours, and no name is there twice. TLC
  evaluates both on the instance, whose ten names are of the table of
  `mkc_unvis.c`. `EncodeWritten` says what `vis`
  writes for a byte: `Reads`, something the decoder takes without pushing anything back and
  answers with that byte at its last; or `\0`, when no octal digit follows. One lemma
  for each form (`LetterReads`, `OctalReads`, `MetaCntrlReads`, `PercentReads`,
  `EqualReads`) leads there, with arithmetic for `cp |= b` (`OrHigh`, `OrNibbles`).
  `NameReads` says it of names: after n letters `S_STRING` is at the first name that
  begins with them (`First`), and from there to the name that is meant all do
  (`Between`). The inductive invariant `CodecInv` says that the decoder is at rest, or
  is reading the encoding of the one byte that is on its way, or has been given `\0`
  and waits (`Shortly`), or waits with the encoding of the next byte before it, which
  does not begin with an octal digit, so that what is pushed back is read again with
  nothing lost (`Waiting`).

* `VisStringsCorrect`: all of `VisRight`, for any bytes, flags and extra characters (as
  `VisAssumption` has them: decodable, in the sense of above), strings of any length,
  buffers of any size, and allocations that fail. `EncodeWritten` says what one byte becomes;
  `Spelt` says it of a string, and of the beginning of one that its limit has cut. The loop
  of `strnunvisx` is a sequence of states (`FedIs`), with an invariant over the bytes it has
  given to `unvis` (`MidByte`): the text is the bytes whose encodings are complete, and the
  decoder is at rest, reads the rest of the encoding it is in, or waits after a `\0`, of
  which it may push the next byte back (`ByteGiven`, `ByteGivenBack`). `LastWaits` and
  `FinishedRight` are what `UNVIS_END` adds.
* `StringsCorrect`: all of `StringsRight`, for any pieces and sizes and for strings of any
  length to take apart, with an escape character or none; the delimiter and what is quoted
  are those of the module. Three invariants, one for each job:
  `PathInv`, that what is in the buffer is a beginning of what was asked for (`Cut`), and that
  a cut was told, with the wrappers also to `efunc` (`Known`); `SepInv`, that what `stresep`
  has left is the tokens it has not returned, laid in memory as they were written, with
  escape characters that are not closed up yet; and `QuoteInv`, that `sh` is inside the
  quotes before each character of the argument.
* `LinesRightCorrect`: all of `LinesRight`, for any characters and flags that `LineAssumption`
  allows, files of any number of parts, and failures at any lines. `Clean` is the beginning of a
  line in which all that has a meaning is escaped, and `AddLineIs` what `fparseln` makes of such a
  line for each of its four ends (`CleanChar`, `CleanEscaped` and `EscapedNext` say why no more
  than one escape character before a character matters). Between two rounds of the loop
  (`Gathering`) what is gathered means what the writer has said since the line began: `Lined`,
  which follows `Unescaped` character by character (`UnescMore`). Each round takes something from
  the file (`RoundLine`), so the loop ends. The inductive invariant `LineInv` has two functions of
  the number of parts: what of the file is behind them, and what they mean; the reader is behind
  a part where a line ends (`AtLine`), or at the end with all that is meant. `AllPromised` says
  that what is meant so far is the beginning of what will be, also in the middle of a
  line: that is what a failure may return.

`NaturalsLemmas` has what these proofs need of numbers: a least element, induction, and
functions that are iterated (`Iterates`, `IteratesAgree`). The library's induction takes an
operator, which no prover here can be given; `InductionOnSet` says it of a set, from the
library's theorem on minimal elements (`WFMin`), so a property of paths or walks of any
length can be proved.

Only model-checked: `Sorted`, `Balanced` and `Answers`, whose modules (`SysTree`, `Trees`)
have recursive operators, of which the prover knows nothing; and the
liveness properties `Terminates`, `FixAndRetry`, `Taken`, `GetDeps!Ends` and `SubPrj!Ends`
(liveness is out of its reach). `Linked` and `Cut` of `SubPrj` are
compared with the documentation's words in `DependsOn` and `LeftOut`, which are
written for the properties alone.

## What the code does otherwise than its documentation

The findings in `PROJECT.json`. Met as well, without a run of their own.

Feature tests. `mkc_check_compiler` never calls `cleanup`, so its `.err` file stays under
`MKC_DELETE_TMPFILES=1` although `mkc_check_compiler(1)` says otherwise (`NoLitter`
excepts it). `mkc_check_prog` has `-d` and `-D` the wrong way round, so that `-d`, which
its usage says deletes `cache files and temporary files`, keeps the `.err` file
(`DeleteMode` has it so). `mkc_check_version` compares numbers as strings of four digits and
is wrong from 10000 on. `MKC_NOCACHE` is compared with 1 (`check_and_cache:67`): with
`MKC_NOCACHE=yes` results are cached and used again under another name, although
mk-configure(7) says that results are cached `unless MKC_NOCACHE variable is set
non-empty value`.

Subprojects. `make subdir-<target>-<subproject>` runs nothing
(`mk/mkc_imp.subprj.mk:120`: the node has no recipe), although mk-configure(7)
(`scripts/mk-configure.7.in:1042`) has it as a synonym.

The codec. With `VIS_CSTYLE` a byte that is encoded because of `VIS_GLOB` or
`mbextra` is written as `\*`, which `unvis` refuses (or takes for an escape: `\n`
of an extra `n`). `&#65;` does not decode: `*cp += *cp * 10 + d` adds the old value
once more and `;` does not leave `S_NUMBER` (`mkc_unvis.c:468`). `strvisx` with a length
of 0 encodes the whole string (`mkc_vis.c:378`), where its comment says exactly len
characters. The terminator of `strnvis` may be written one byte behind the limit, which
is why `VisRight` allows it.

Lines. A failed `realloc` in `getline` leaves `*lineptr` NULL and `*n` the new size: the old
block is lost, and the next call with the two writes through NULL; so does `fgetln` for a
slot of its pool. `LinesKept` allows this after a failure only. `getdelim` with
`*bufsiz` 1 writes a byte behind it (`SizesAssumption`). In `fparseln`, a line
that has only a comment is skipped also when it continues an empty line, which then
goes on; a continuation character right before a comment continues the line when it is
not the escape character too; and when the second `getline` fails, the part that was
read is returned as if it were whole.

Trees. `SPLAY_REMOVE` returns its argument and not the element of that key which it took
out.

Numbers. `strtoi` and `strtou` do not report a number that `strtoimax` had to cut to its
range: `_STANDALONE` hides `errno`. `humanize_number` with a scale that is given and
`HN_DECIMAL` loses the sign when the whole part is 0; its `max` overflows when the
buffer is 17 or more longer than it need be, and `bytes * 100` beyond
`INT64_MAX / 100`.

Output. `vdprintf` opens a stream on the descriptor and neither flushes nor closes it: what
is printed comes out when the program ends, and each call leaves a stream behind.

Signals. A second signal of the same kind that comes from outside between `Unblock` and
`RestoreAct` is delivered by default too. One that comes between `RestoreAct` and
`RestoreMask` runs the handler that was put back, although the caller may have had the
signal blocked: the code restores the handler before the mask
(`mkc_raise_default_signal.c:104`, `:110`). `DefaultRaised` states both.

## Plan

1. `CheckTests`, `CheckMemo`, `CheckCache` and their proofs. Done.
2. `Configure`, on top of the memo, and its proofs. Done.
3. `Install`: `mkc_install` against an abstract atomic replacement, with kills,
   failing commands and concurrent installers; refinement proved. Done, but for
   `-d`, and pids are not used again while their temporary file is there.
4. `GetDeps` and `SubPrj`, with proofs. Done, but for short names and `errorcheck-*`;
   the phases of `final.mk` as a part of the graph, and several goals at once, are left.
5. The library: `Vis`, `Unvis`, `VisCodec` and `VisStrings`; `SysQueue` and `Queues` with
   their proofs, `SysTree` and `Trees`; `Fparseln`, `LineInput`, `LineBuffers`; `CStrings`,
   `Strings`; `Reallocs`, `Numbers`; `Signals`; the proofs of queues, buffers and
   signals in `StateProofs`, of the codec, of strings, lines and numbers in
   `LibraryProofs`. Done. Left: proofs of the order and the balance of trees, once their
   recursive operators are written as functions.
6. `CompilerConfig` (settings generated under `make -j`), yacc and text file rules,
   the version test, `-d` of `mkc_install`. Left.

## Not modelled, and why

The feature makefiles, platform files and the wrapper set variables and have no
behaviour over time. Examples, tests and documentation are not the program's own
logic. Object and executable files of the feature tests are written and never read
by a script. Of the library,
`strndup`, `err`, `warn`, `progname`, `pwdgrp`, `dprintf` and `bswap` call one function, or
print, and keep nothing; `posix_getopt` puts a `+` before the options it hands to
`getopt`; characters of several bytes depend on the locale's tables. Everything else listed under the plan is left for later
modules; the hazards in `PROJECT.json` name where each would bite.
