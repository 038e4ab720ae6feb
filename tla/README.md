# nota in TLA+

nota keeps code review threads as XML files in a repository's `.nota/`
directory. Command line processes, a daemon that serves editors, and users with
`rm` and `git` all write that directory at the same time. These modules state
what the code in `src/` makes of that, check it with TLC on small instances and
prove the main results with TLAPS for every instance.

Paths below are relative to `src/`.

## 1. The system

| Component | State | Operations | What makes it correct |
|---|---|---|---|
| directory lock, `pkg/thread/ops.go` `LockDir` | `.nota/.nota.lock`, its inode, flocks | lock, unlock closure (release, then unlink the path) | one holder at a time; waiters are served; a crash blocks nobody |
| thread store, `pkg/thread/ops.go`, `io.go`, `discover.go` | one XML file per thread | Create, Spawn, AddComment, UpdateStatus, UpdateGoal, AddDependencies, RemoveDependencies | each command is one atomic change; numbers are unique; nothing written is lost |
| extract, `pkg/extract` | source files, thread files | write a thread per comment group, then delete the comments from the sources | a batch clashes with nothing, also when it stops half-way; no comment is lost or extracted twice |
| anchor tracing, `cmd/nota/cli_thread.go`, `cli_trace.go` | the anchors in thread files | read a thread, ask git, write the thread back, without the lock | anchors are append-only; nothing else changes |
| line tracing, `pkg/trace`, `pkg/git` | a thread's anchors | map a line through diff hunks, batch by batch, back through older anchors after a revert | an anchor stands on its line or is marked outdated |
| service, `pkg/service/service.go`, `mutate.go`, `query.go` | subscribers, pending writes | mutate and notify, subscribe, unsubscribe | no change is missed; own changes are not announced twice |
| change poller, `pkg/service/poller.go` | last listing, paused | tick, list, diff, event; pause, resume | every change on disk is seen once |
| rpc server, `pkg/rpc` | open requests, the output stream | one goroutine per request, subscriber loop, shutdown | one response per request; streams are not mixed |
| nvim client, `nvim/lua/nota/{transport,client,model}.lua` | daemon process, waiting requests, thread cache, buffer marks | spawn, request, time out, retry, refresh on change | each request is answered once; marks follow the cache |
| github pull, `pkg/github` | an index of thread files | fetch, match, merge, write under the lock | a local change is not overwritten; a remote thread maps to one file |
| scanner, parser, blocks, grouper | none | find nota comments in a file, merge and group them | every comment is found, with its bytes and its line, and nothing else |
| deleter, `pkg/deleter` | source files | cut ranges, atomic rename | only the comments go; the line an anchor gets is the line in the file that is left |
| tracking files, formatters, extensions, views, CLI parsing | — | render, parse, copy | wording and layout |

The components meet in three places. **The directory**: every writer goes
through `thread.WriteThread`, an atomic rename; most take `LockDir` first,
tracing does not, and the importers (pull, extract) decide what to write before
they take it. **The event channel**: handlers and the poller call
`Service.notify`, which sends to the channel of each subscriber; a loop
(`rpc.SubscribeAndNotify`) turns events into `thread/didChange`. **The stream**:
responses and notifications share the daemon's stdout; the editor reads all
threads again when a notification arrives.

Hard behaviours: a lock whose file is unlinked while others wait on it; batches
that stop half-way; read-modify-write with and without the lock; a removed
number that is given out again while somebody holds the old thread; marks that
are set after the write they stand for; sends to a copied subscriber list;
channels that fill up; a poller that is paused and resumed; retries, timeouts
and late callbacks of the editor; pages that move while they are read; diffs
that are applied to anchors they do not start from. `PROJECT.json` lists each at its line under `hazards`,
with the properties about it.

## 2. The modules

| Module | Models | Composition |
|---|---|---|
| `DirLock` | `LockDir` over flock | — |
| `Threads` | threads, numbering, tracing of one thread, as operators | — |
| `AtomicStore` | the abstract store: commands as single steps, no lock | EXTENDS `Threads` |
| `ThreadStore` | processes on the directory | EXTENDS `DirLock`, `Threads`; implements `AtomicStore` |
| `ChangeFeed` | handlers, poller, subscribers, clients | — |
| `RpcServer` | daemons: requests, responses, notifications, ends | — |
| `NvimTransport` | the editor's connection to them | EXTENDS `RpcServer` |
| `NvimModel` | the editor's cache and marks | takes from `ChangeFeed` that changes are announced |
| `SharedDir` | the directory under the lock, and other commands, as single steps | takes from `ThreadStoreProofs` that they are |
| `PullSync`, `ExtractRun` | `nota sync pull`, `nota extract` | EXTEND `SharedDir`, meet in `MCImport` |
| `LineTrace` | anchors through a git history | — |
| `SourceEdit`, `CommentScanner` | a source file scanned, and without its comments | — |
| `MCDirLock`, `MCThreadStore`, `MCChangeFeed`, `MCSession`, `MCNvimModel`, `MCImport`, `MCAlgorithms` | symmetry sets, constraints, values and compositions for TLC | EXTEND the above |
| `ThreadStoreProofs` | theorems about `DirLock` and `ThreadStore`, and that it implements `AtomicStore` | EXTENDS `ThreadStore` |
| `ChangeFeedProofs`, `NvimModelProofs`, `SessionProofs` | theorems about the daemon's events, the editor's cache, and the session of the two | EXTEND `ChangeFeed`, `NvimModel`, `NvimTransport` |
| `ImportProofs`, `PullProofs` | theorems about the importers in one directory; what pulls bring | EXTEND `MCImport`; `ImportProofs` |
| `AlgorithmProofs` | theorems about deletion and tracing | EXTENDS `LineTrace`, `SourceEdit` |
| `ScannerProofs` | theorems about the scanner | EXTENDS `CommentScanner` |

### DirLock

`LockDir` opens the path, then blocks in flock; its closure releases the flock
and then unlinks **the path**. A flock belongs to an inode and an unlink to a
name, so the model has both: `lockfile` is the inode that the name refers to,
`fd[p]` the inode p has open, `holder[i]` the process with the flock on inode i.
`pc` runs `idle -Open-> waiting -Acquire-> locked -Unlock-> unlocked -Unlink->
idle`; `Crash` can come at any point and leaves the name. `overlap` is a history
variable: the directory has had two holders at once.

### Threads, AtomicStore and ThreadStore

A process takes the lock (`Start`, `Granted`), reads the directory and works
out what it will write (`Create`, `Spawn`, ... `Extract`, into `pending[p]`),
writes file by file (`Write`), and returns (`Release`, `Return`). `Fail` stands
for every error return: what is written stays, the rest is dropped. `Die` is
the end of the process at any point. Tracing is a second, unlocked track:
`ReadCopy` and `ReadHead` in either order (`show` reads the thread first,
`trace` reads HEAD first), then `WriteTraced` writes the copy back, or
`QuitTrace`. `Cleanup` is a user who removes the file of a resolved thread
(`commands/nota-cleanup.md`), `Commit` moves HEAD.

What is abstracted:

- A thread is id, number, status, goal, comments, blockers and anchors. Comments
  are ids; an anchor is its commit and its outdated flag; an anchor without a
  commit is never traced and counts as none. Titles, tags, group inheritance,
  parents and times are data that no property reads.
- `NextNumber` is a predicate on the directory (`IsNextNumber`), not a loop.
- The scan of the directory is one step. Until the lock fails only tracing and
  removal can interleave with it. Tracing keeps numbers, and a scan sees each
  file that is still there at its end, so what it computes is above all of them.
- Random ids are drawn from a finite set and never twice (`issued`); the code
  draws random ids and trusts them.
- What git answers about a line is a free choice: traced or outdated. A comment
  may have an anchor of its own, traced in place; the thread is then written
  back as it was read.
- `trace` over all threads is as many independent traces as there are threads
  (each is allowed a HEAD that was read earlier).
- HEAD moves forward only. Extract's HEAD is any commit up to the current one,
  since it is read before the lock; when it cannot be read, the anchors have no
  commit.
- A group becomes a thread with one comment, which stands for all its comments:
  they are drawn together and written together (`convert.go:42`).

`AtomicStore` knows only the directory and one bit. Its steps are `Post` (a new
thread with the next number), `PostGroup` (a new thread over a named group's
file) and `Amend` (one field of one thread); once the lock is `broken` anything
may happen. `ThreadStore!Atomic` is that specification under the mapping
`broken <- overlap`.

### ChangeFeed

A handler (`Workers`) runs `Mutate` (the whole locked command, which ThreadStore
shows to be one step), `ListThreads` and `ReadBack` (`Get`; only AddComment and
SetStatus), `Mark` (`markPendingWrite`), then notifies. `ReadBack` has three ends:
the thread is `Found`; some file has gone since the listing, or cannot be read, and
the handler returns the error with neither mark nor event (`Unread`); or the thread
was not listed and its nil view is dereferenced (`Missing`). The poller runs `Tick`, `List`, `Build`
(diff, re-reading files, new snapshot), `Filter` (`notifyFromPoller`), then
notifies. Notifying is `CopySubscribers` (under the mutex), one `Send` per
channel in any order (without it), `Sent`. `Subscribe` and `Unsubscribe` are
single steps under the mutex and resume or pause the poller. `Receive` and
`Refresh` are the subscriber loop and the client behind it. `ForeignWrite` and
`ForeignRemove` are other processes; `panicked` stops everything, as a panic in
any goroutine ends the daemon.

`Owed` is what a client is to learn: a thread that is there, not as the client knows
it, written since it was subscribed. For a thread without anchors it leaves out the
writes of other processes (`foreign`) and those that their handler could not read
back (`failed`): a mark that an earlier write left behind swallows the poller's
event of such a write, and no handler announces it. That loss is real
(`AllAnnounced`, section 3). `since` is there because the daemon serves its client
before it subscribes it (`cli_daemon.go:33`): a client may have read the threads
before (`Attach`), and is then owed only what changes from there on.

What is abstracted:

- A file's mtime, size and inode are the serial number of its last write: two
  writes of one file always differ for the poller (a rename gives a new inode).
- A listing is one step; the diff and the re-reading of files are one step, and
  what they read between listing and event matters only by being there or not.
- Which file a read-back cannot read is left open: any file may be replaced by
  something unreadable, or go between the listing and the read.
- An event has no contents once it is sent: a client reads all threads again for
  any event (`on_change_handler`). The files it names decide only whether the
  poller delivers it (`Anchored`), and which buffers are redrawn (not modelled).
- Subscribers that leave take their client with them: the editor has one daemon.
- A `Refresh` succeeds; the editor does not repeat one that fails, and keeps what
  it knew until the next event. `ClientsConverge` is about clients that succeed.
- The order of sends is free, though the code goes by subscription order.
- The shipped daemon has one subscriber, gone when a signal comes; the service
  is modelled for any number, as its tests use it (`poller_test.go`).

### RpcServer and NvimTransport

A daemon (`RpcServer`, one record per process) reads requests from its stdin
(`Take`), answers each in a goroutine (`Respond`) and writes notifications beside
them (`Notify`), all behind `writeMu` (`MayWrite`). A line goes through the pipe
in two parts (`BeginWrite`, `EndWrite`), so that lines could mix and a death can
cut one. It ends when stdin does and its handlers have returned (`EndOfInput`,
`Exit`), by a signal, which leaves requests in stdin unread, by SIGPIPE, or by a
crash.

`NvimTransport` is `transport.lua` and `client.lua`: the fields of the connection
are those of `new_connection`. What libuv reports becomes a callback in
`scheduled` that runs later and knows only the repository: `HandleStdout` and
`HandleExit` act on the connection there is **then**, which may be another
daemon's. `Retry` is the deferred spawn, `Timeout` a request's timer, `Reset` and
`Shutdown` the user. A failed spawn is one that libuv refuses, or a binary that
is not there. `mixed` is a history variable: bytes of one daemon were read into
the buffer of a later one, which can happen after an exit was handled before the
rest of the output.

Abstracted: what requests ask and handlers do (`ChangeFeed`), lines that are no
JSON, `ParseError`, `InvalidRequest` and `MethodNotFound` (this client sends
nothing of the kind), the scanner's 64 KB limit for a line, how long delays are.

### NvimModel

The cache, `generation` and the refreshes under way, attached buffers, and what
their marks were drawn for. A buffer stands for its file and the threads of a
file for the number of changes they have seen, which makes "older" and "newer"
comparable. `List` (the daemon reads the directory) and `Reply` (the callback
runs) are two steps, so answers can be old when they come and come in any order;
only the latest request's counts (`Counts`). A request remembers which state of a
buffer it would draw, since a buffer that was detached and attached again is not
drawn for its earlier self. `dropped` and `failed` record what was not drawn
because a later refresh overtook it, or because of an error.

### SharedDir, PullSync, ExtractRun

The importers over a directory in which other commands are single steps
(`Create`, `AddComment`), users remove threads (`RemoveThread`, which asks for no
lock) and the lock excludes; what happens when it does not is
`ThreadStore`'s subject. A pull reads threads, pages of comments and pages of the
conversation from a remote side that goes on posting, editing and deleting
(`FetchThreads`, `FetchRemaining`, `CheckCounts`, `FetchConversation`), indexes
the directory and merges (`Index`), and only then locks, numbers and writes
(`Lock`, `Write`, `Unlock`). An extraction reads files (`ReadFile`), groups
(`Group`), writes threads under the lock (`LockDir`, `WriteGroup`, `UnlockDir`)
and writes the files back from what it has read (`DeleteFile`). A file that cannot
be read or decoded is skipped (`extract.go:110`). `Stop` and
`Abort` are errors and deaths at any point. These windows are real, and the
properties say that nothing else is lost:

- `exposed`: what was typed into a thread between a pull's `Index` and its write,
  or into a source file between `ReadFile` and `DeleteFile`, is overwritten;
- `replaced`: a named group that is extracted again is written over its file;
- `shared`: two pulls at once duplicate and overwrite each other's threads;
- `removed`: what was in a thread that a user removed;
- `revived`: a pull indexes the directory (`pull.go:87`), the thread with the
  greatest number is removed, `Create` gives its number out again, and the pull
  writes the old thread back with its old number (`pull.go:189`). Then two threads
  have one number, against "can never collide on number" (`extract.go:298`).
  `NumbersApart` is about the files that no pull has brought back like that.

A remote comment has a body, which an edit replaces, and the time of its last
update. A review has only the time of its submission (`reviews.go:10`,
`mapper.go:149`): `Edited` leaves it alone, so `mergeThread`, which compares times
(`pull.go:257`), never brings an edit of a review that was pulled before.
`PulledAll` asks for the version whose time a comment had when the pull started, or
a later one; of a pulled review that is the submission. Reviews without a body are
not mapped at all (`HasBody`, `mapper.go:93`). `Forget` takes from what a pull must
bring the comments of a thread that is removed, unless the pull still has it to
write.

Abstracted: a comment is its origin and the edits it has seen; reviews and issue
comments are one list, and no two of them have the same id; a user's change of status, which a
pull overwrites in the same window as comments; pages of review threads (only
those of their comments are modelled); counts are checked when all threads are
there, not one by one, which only moves an error. References to a group that the
run has no comment of are warned about and deleted (`grouper.go:100`).

### LineTrace

One file of a git history. A line is a pair, after how many commits it was typed
and where, which stands for its text: no two inserted lines are alike, so that the
truth about a line is known. `home` is the line the thread was opened on. Users edit, remove the file, commit and check out any
commit, which makes branches and reverts. `Script`, `PrintedDiff` and what parses
it model the hunks as git prints them and `ParseDiffs` reads them, context and
all: the script places a line of the old file at the number of lines passed in both
files, what is removed before what is added; `Spans` cuts it into the stretches that
are within `Context` lines of a change. `TraceThread` is the batch of `nota trace` (one diff for all anchors of a
file, from their earliest commit or a merge base, then backtracking),
`ShowThread` the one-by-one trace of `nota thread show`. Anchors may or may not
have a content hash, as threads created from the command line and extracted ones
do. `plain` says that a diff has one hunk, with context, removes no line that
looks like a file header and adds none; the code is wrong about others. With more
hunks the offset counts twice (section 3). A removed line that begins with `-- `
(`Dashes`) prints as `--- ...`, an added one that begins with `++ ` (`Pluses`) as
`+++ ...`: `ParseDiffs` drops either from its hunk and takes it for the file's old or
new name (`diff.go:90`, `diff.go:104`), so that the lines behind it move and the
content hash is looked up in another file, which is assumed not to be there. Followed
by `/dev/null` (`Nulls`) they say that the file was created or deleted. An anchor
that was traced into such a name is `stray`: git has no diffs of it, and no content
to compare. With `diff.context=0` a hunk that only adds lines carries the
number of the line above them, and `applyHunks` moves that line too. `askew` says that an anchor was moved by diffs that do not start at its
commit, which a batch of anchors of several commits does.

Abstracted: renames, other files, equal lines, git's choice among shortest
scripts, and commands that fail.

### SourceEdit and CommentScanner

`SourceEdit` types every file of a few tokens (code, blanks, newlines, tagged and
untagged comments) and computes what `nota extract` makes of it: merged line
comments, ranges grown to whole lines, the file without them, the line and the
hash of each anchor. The bytes and the comments among them grow token by token, so
that files of any length can be reasoned about. `CommentScanner` types files piece by piece, so that it is
known which pieces are comments, and then runs the scanner's state machine over
the runes (`InCode`, `InString`, `InLineComment`, `InMultilineComment` and the
line comment of VimScript that may be a string), for seven languages that between
them have line comments, block comments, nested ones, ones at the first column or
the start of a line, and backslash and doubled escapes. `runes` is the text, `scan.at`
the runes that were read; bytes and lines are counted as they are read (`Advance`).

`ScanExact` needs to know what a file means. `Legible` says what a language makes of
a piece: a string ends at the first quote that is not escaped (`IsString`), code is
strings and runes that begin nothing (`CodeFrom`), a line comment has no line end
(`IsLine`), a block comment ends where its nesting does (`IsMulti`). A string that
could be a line comment is one line. Two things that the scanner is known to misread
are not legible: a backslash that is escaped before a quote, and a nested comment's
end with another start or end right behind it. The run types such pieces too, for
`ScanOrdered`. `TypePiece` puts a piece only where it is what it is: a line comment
before a line end, a first-column comment at the start of a line, and the line
comment of an ignore list behind nothing but blanks.

## 3. The runs

Passing runs:

| Run | Bounds | Shows |
|---|---|---|
| `lock` | 3 processes, 4 inodes | `LockInv` (inductive); `ExclusiveWhileLinked`: at most one holder has locked the file the name refers to; `WaiterServed`: once crashes stop, every waiter gets the flock |
| `locked_commands` | 2 processes, 3 inodes, 2 threads, 1 group, 3 comments; all locked commands | `AtomicInv`, `UniqueWhileExclusive`, and `Atomic`: ThreadStore implements AtomicStore |
| `tracing` | 2 processes, 2 threads, 3 commits; create, comment, trace | types, and numbers stay unique whatever stale copies overwrite |
| `commands_finish` | 2 processes, 2 threads, 2 comments; create, status, extract, cleanup | `NumberInv`, also when users remove threads, even one that a holder writes back; `CommandsFinish`: every started command returns |
| `feed_own` | 2 handlers, 2 channels of capacity 1, 1 thread without anchors, 2 writes; others write and remove, read-backs fail | `ChangesAnnounced`: of a thread without anchors, no change of a handler that did its work is missed; `PausedAlone`, and no channel overfills |
| `feed_foreign` | 1 handler, 1 channel of capacity 1, 2 threads, one of them anchored, 2 writes; others write and remove, read-backs fail | `ChangesAnnounced` although marks swallow foreign changes and those whose handler failed; `ClientsConverge`: who stays subscribed comes to know every thread that is there |
| `session` | 2 daemons, 2 calls, 1 notification, 1 of reset, shutdown, failed spawn | `AnswersMatch`, `OneServed`, `WholeLines`, `Drained`; `CallsEnd`: a call that waits returns without its timer; `Reconnects` |
| `model` | 2 buffers attached up to twice, 2 changes, 3 refreshes | `MarksFollow`, `CacheMonotone`; `CacheConverges`: with the last answer the cache is the directory |
| `importers` | 2 pulls, 1 review thread and the conversation, pages of 1; 2 source files, 1 group, 3 typed items; 5 inputs, 4 where both importers are at work | `NumbersApart`, `OneCopy`, `PulledAll`, `BodiesForward`, `CommentsKept`, `NothingLost`, `ExtractedOnce` |
| `algorithms` | 3 lines, 3 commits, edits of 2 and then 1 line, 2 traces; files of 6 tokens; texts of 4 pieces | anchors: `AnchorOnLine`, `OutdatedMeansGone`, `HashCatches`, `ViewOnLine`; deletion: `RangesDisjoint`, `CodeLinesKept`, `AdjustedExact`; scanner: `ScanExact`, `ScanOrdered` |

Runs that find what a comment or a document says to be false (`findings` in
`PROJECT.json` quotes the statement):

| Run | Property | What happens |
|---|---|---|
| `number_collision` | `UniqueNumbers` | the unlink lets a waiter on the old inode and a newcomer on a new one hold the directory together, and both create the same number |
| `hunk_lines` | `HunkLinesExact` | `applyHunks` adds the offset of earlier hunks to a `NewStart` that already has it |

**Other divergences.** These properties are defined beside the code they are
about and are violated; no configuration here runs them. Each shows with the
run named, with its properties replaced by the one given:

| Property | Where | What happens |
|---|---|---|
| `CommentsKept` of `ThreadStore` | `tracing` (`Ops` with `comment` and `trace`) | `thread show` and `trace` write back a thread without the comment added since (`cli_thread.go:154`, `cli_trace.go:78`) |
| `RemovalsAnnounced` | `feed_own` | the "generic event" of a removal (`poller.go:245`) is empty and is not delivered |
| `AllAnnounced` | `feed_own` | a handler's write is read back with an error, because a file has gone, and the mark of an earlier write swallows the poller's event: the write is never announced (`mutate.go:67`, `85`) |
| `FilteredIsOwn` | `feed_own` | the mark of a handler's write swallows another process's change |
| `NoPanic` | `feed_own` | `notify` sends on a channel that `Unsubscribe` has closed; or a handler reads back a removed thread as nil (`mutate.go:71`, `90`) |
| `CallsReturn` | `session` | a request that fails at once resumes the coroutine that is still running, and the caller then yields for ever (`client.lua:36`) |
| `CodeKept` | `algorithms` | line comments behind code on two lines are merged, and the code between them is deleted with them (`merge.go`, `deleter.go`) |
| `HashAnchored` | `algorithms` | an extracted anchor has the line its comment leaves free (`AdjustedLine`) and the hash of what was in that line before (`convert.go:51`): the next trace marks an unchanged line outdated |
| `AnchorOnLine` without `PlainHistory` | `algorithms` | a removed line that begins with `-- ` or an added one that begins with `++ ` is read as a file header (`diff.go:90`, `diff.go:104`) and makes its hunk a line short; and the diffs of `hunk_lines` |
| `NumbersApart` over all files, `revived` ones too | `importers` | a pull writes back a removed thread whose number `Create` has given out again (`pull.go:189`) |
| `PulledAll` with bodies for times | `importers` | an edit of a review that was pulled before is not brought (`mapper.go:149`) |

**Why the bounds are enough.** Breaking the lock takes a holder, a waiter and a
newcomer, hence three processes for `DirLock` (two suffice in the store, where
the first can come back), and one inode more than processes so that a name is
never refused an inode. Two commands interleave in every way that two processes
can; two threads let a number be freed by a removal and given out again. One
trace is stale after one commit, two traces can be stale to different degrees
after two: `MaxCommit = 3`. Two handlers, a poller
and two channels give every pairing of senders and receivers; capacity 1 makes a
full channel common (16 in the code differs only in how long that takes); two
writes make one that is seen and one that is not, or leaves a mark for the other. With
two threads in `feed_foreign` one event can name an anchored thread and one that is
not; the proof covers any number of both. `LockIntact`
prunes states after the first overlap, in which nothing is claimed: those
properties say `~overlap =>` or, in `Atomic`, allow everything.

In `session` a second daemon makes output, exits and retries of one meet another,
and two calls make two answers that can be told apart; one trouble is enough for
each of reset, shutdown and a failed spawn, and the daemon's own deaths are not
counted. The last daemon does not fail, since nothing could replace it within the
bound. In `model` three refreshes let one answer be overtaken by two. In
`importers` pages of one comment make every list of two a list of several pages;
two pulls, each with a start, and a post, an edit or a deletion between their
pages fit into five inputs, and so do an extraction, a crash and the extraction
after it. In `algorithms` three lines with one line of context give hunks that
touch, that are apart, and that begin and end with the file; three commits give a
branch and a revert, two traces an anchor that is traced again; six tokens give
code before, between and behind two comments; four pieces give every piece between
two others. Its three walks share nothing and run beside each other, never mixed.

`CHECK_DEADLOCK FALSE` in the `MCFeed*` runs and in the runs of the last four
rows: inputs are bounded, and a daemon or an editor with nothing left to do, one
that has panicked, or a file that is typed to its end, stops. The other runs check
for deadlock. Symmetry is used only in runs without liveness.

**Sensitivity.** Each property of a passing run has a mutant beside the
definition it changes ("Mutant of ..."), a mistake one could make in that code
— a shared flock, a number computed as the maximum, a batch in any order, a
release before the write, a mark that suppresses a second announcement, a second
listing for the snapshot, a poller that is not resumed, request ids that start
again with each daemon, an answer that counts though a later one was asked for, a
page that is not fetched, comments deleted before their threads are written —
under which TLC finds
the property violated. One is instructive: `UnlinkNothing`, keeping the lock
file as users of flock do, restores exclusion and breaks `WaiterServed`, since
flock promises no order among waiters of one inode. The unlink buys liveness
with exclusion.

**Fairness.** In DirLock and ThreadStore a process that has opened the lock file
goes on: its own steps are weakly fair. Weak fairness is enough for `Acquire`
because an inode that has been released once loses its name and gains no
waiters; nothing is assumed about the order in which the kernel serves them.
Starting a command, crashing, removing files and committing owe nothing.
Liveness is stated for executions in which crashes stop, as a crash between
release and unlink leaves the name and lets new waiters overtake old ones for as
long as crashes go on (a crash in `unlocked` that finds no name to unlink does
no harm and is allowed for ever). In ChangeFeed handlers, goroutines that are
sending, the ticker, the subscriber loop and the client's event loop are weakly
fair: Go's scheduler, `time.Ticker` and the editor's main loop. Requests, foreign
processes and subscriptions owe nothing. In `NvimTransport` daemons and their
handlers, the pipe, the reports of libuv, scheduled callbacks and deferred spawns
are weakly fair; timers of requests, users, signals and crashes owe nothing, so
that `CallsEnd` does not rest on a timeout. In `NvimModel` notifications are
delivered and answers come; an error may come instead of an answer, which
`CacheConverges` excepts, as the code does not ask again.

## 4. What is proved

All theorems hold for every value of the constants that satisfies the named
assumptions. These only give constants their sorts: bounds are naturals, a channel
and a page have room for something, "nobody" and "no group" are none of the
processes, groups or threads (`DirLockAssumption`, `ThreadsAssumption`,
`ChangeFeedAssumption`, `SharedAssumption`, `PullAssumption`, `ExtractAssumption`,
`ImportAssumption`, `RpcAssumption`, `NvimAssumption`, `ModelAssumption`,
`TokensAssumption`, `HistoryAssumption`), and `PiecesAssumption` says that pieces of
text are not empty and typed in languages that are modelled. `ReviewThreads` are
finitely many. Source files and texts have no bound in length, nor threads, pages,
processes, refreshes or commits in number, nor lines in a file.

**The lock.** `LockInvariance`: `LockSpec => []LockInv`. `LockInv` is inductive as
it stands: a process has a file open exactly while it waits or holds
(`FlockInv`), so the flock on one inode names one holder, and `overlap` is set by
the only step that can break exclusion. `LockedFileIsExclusive` follows: two
holders of the file that the name refers to hold the same flock.

**The store's files.** `StoreTypes`: whatever commands run, fail, crash, trace or
remove, the directory, the copies and what is still to be written are well formed.
Unlike `StoreInvariance` this needs no assumption about `Ops`; it needs `LockInv`,
which says that only a process with the lock is past it.

**Numbers.** `StoreInvariance` and `NumbersUnique`. `UniqueWhileExclusive` alone
is not inductive: a step from a state where a holder is about to write a used
number breaks it. `NumberInv` adds that only a holder has files to write
(`PendingLocked`), that what it has to write clashes neither with the directory
nor with the rest of its batch and keeps the number of a file that is there
(`PendingSound`), that named groups have number 0 and file names come from drawn
ids (`StoreSound`), and that a traced copy belongs to a file that is still there
with that number (`CopySound`). The last one is false when files are removed
while others trace, hence the assumption `~({"trace", "cleanup"} \subseteq Ops)`;
a trace that writes back a removed thread after its number has been given out
again really makes two threads with one number (`cli_thread.go:154` against
`commands/nota-cleanup.md`). While
`~overlap`, `AloneUntilOverlap` makes the holder's view of the directory current
except for traces, and those keep numbers.

**Atomicity.** `PendingIsAtomic` and `CommandsAreAtomic` (`Spec => Atomic`), for
`Ops` without `trace` and `cleanup`; tracing is excluded because it overwrites
comments (section 3), and a holder that writes a removed thread again is no single step of
AtomicStore. On top of `NumberInv` the invariant `AtomicInv` says that all ids in
sight have been drawn, and that each file a holder has still to write is
either one edit of the thread that is in the directory (`IsEdit`) or a new
thread that clashes with nothing and whose number continues the directory's or
the batch's (`IsNew`). With the batch written in number order each `Write` is then
`Post`, `PostGroup` or `Amend`; every other step stutters. Because this holds at
each write, a batch that fails or dies half-way needs no case of its own.

**The change feed.** `FeedTypes` (a channel never holds more than its capacity),
`PausedNobody`, and `NoChangeMissed`: `Spec => []ChangesAnnounced`, for any threads,
anchored or not, whatever others write or remove and whichever handlers fail. The
invariant is `TypeOK`, `SeenInv` (listings and snapshots never run ahead of the write
counter) and `CoveredInv`, which is `ChangesAnnounced` with one of its two reasons for
each thread (`Covered`): a change of an anchored thread is announced by the poller,
whose event its files keep alive; an owed change of a thread without anchors by the
handler that wrote it, and the poller may drop what it finds. `ChangesAnnounced` itself
is not inductive, as the poller could drop an event on which an unanchored thread
rests. For a thread without anchors nothing more can be had: the losses of
`FilteredIsOwn` and `AllAnnounced` follow.

**The editor's cache and marks** (`NvimModelProofs`). `CacheNeverOlder`:
`[]CacheMonotone` needs `AgeInv`: every generation is one request's, so at most one
answer counts, and what that one has listed is no older than the cache, because the
cache changed last before it was asked for. `MarksFollowCache`: `MarksFollow` says
nothing of a buffer before anything is loaded, nor of changes nobody has listed.
`ListedInv` and `CachedInv` follow a change from the directory to the cache: what
the answer that counts leaves out is announced, and what the cache lacks is
announced, asked for, or was dropped; `DrawnInv` continues to the marks.

**The session of editor and daemons** (`SessionProofs`). `OneDaemonServed` and
`DaemonsDrained` rest on `PipesInv`: the pipes of a connection are those of one
daemon, the last one, and a stdin is open exactly as long as it is the
connection's. Hence nothing reaches a daemon after its end of input, and `DrainInv`:
a daemon that was not told to stop drains only when it has read everything.
`CallsAnswered` (`AnswersMatch`): `AnswerInv` follows an id through stdin, handlers,
stdout, scheduled callbacks and the buffer; anywhere it is below `next_id`, and if
it is pending it is pending for the same call. That ids are not started again with
each daemon is all it takes. `LinesArriveWhole` (`WholeLines`): `ChainInv` says that
buffer, callbacks and pipe, read in that order, are one sequence of lines of the
connection's daemon, each part followed by its other half; `mixed` marks the
sessions in which output of an earlier daemon comes in between.

**The importers** (`ImportProofs`). `ImportNumbersApart`: `NumberInv` says that who
writes under the lock has a number above all that are there, and that an entry for
a file that exists carries that file's number and remote thread, so writing it
again changes neither. The number of a removed file may be another's by then, hence
`revived`: the invariant is about the files that nobody brought back, and entries for
one file agree on its number (`SameThread`), so that it stays that file's number when
two pulls write it. `CommentsStayed` (`CommentsKept`, an action property):
`CopiesInv` says that what a pull is to write over a thread covers what the thread
has by then, up to what is `exposed`, and, if two pulls run at once, what the other
brought; of a thread that is removed the copies have all the same. `ExtractLosesNothing`: `LossInv` follows a typed comment from the source
to the groups to a thread before its file is written back. `ExtractTakesOnce`:
`OnceInv` adds that names are drawn in order, that files share no item, and, as long
as no extraction broke off, that what is to be written is in no thread yet and what
is in a thread is still in a source only while that file is among those to be
written back (`ApartInv`).

**What pulls bring** (`PullProofs`). `BodiesInOrder`, `CopiedOnce` and
`PullsBringAll` state `BodiesForward`, `OneCopy` and `PulledAll`. Lists are in the
order of their ids (`OrderInv`), which the cursor and the page numbers rely on; a
remote comment's name is only ever with its remote thread (`OriginInv`); copies are
never ahead of what they are copies of, wherever they are (`EditInv`): a comment's
bodies are no later than its time (`Stamped`), which makes an update append a later
body and nothing else, and a review's time never changes, so that nothing is appended
to it; a remote thread has one file, which is the one an entry for it is to be written
to, and if that has been removed there is none (`Unwritten`, in `OnePlaceInv`). `BroughtInv` is the heart: what
was there when the pull started has been fetched or will come with a request that is
still to be made (`Coming`), then is in the directory or in what is to be written,
and what is written over a file is no older than the file (`CoversEdits`). What was
posted or edited since is the same comment with the same or a later body (`Later`),
hence with the same or a later time (`LaterOf`). `PulledAll` excepts
comments that were deleted, or that a deletion moved to a page already read, and those
of a thread that a user removed after the pull had written it (`Forget`);
everything but types, numbers and origins is claimed for histories in which no two
pulls overlapped (`~shared`), since two do overwrite each other.

**Deleting comments** (`AlgorithmProofs`), for files of any length. The invariant
`SourceInv` describes the comments of a file: they have bytes, follow each other,
begin and end with no newline, hold no code, and know their line. From it follow
`DeletionNotRefused` (the grown ranges are what `DeleteComments` accepts),
`DeletionKeepsCode` and `AnchorsFitWhatIsLeft` (`AdjustedLine` is the line in the
file that is left). The last two are about tidy files: a comment of several lines
has its lines for itself. Without that they are false (`CodeKept`, section 3).

**Anchors**, for files and histories of any length. `HashesOnTheirLine`
(`HashCatches`): whatever hunks, batches and histories do to line numbers, an anchor
that still has its content hash is on the line the thread was opened on. `HashInv`
says so of every anchor and that each hash is the home line's. That proof uses nothing
of `applyHunks`: it is the comparison behind it that a wrong number does not survive.

The others do. `AnchorsOnTheirLine` (`AnchorOnLine`) and `OutdatedAreGone`
(`OutdatedMeansGone`) are about anchors with or without a hash where the history is
plain and nothing went askew, `ViewsOnTheirLine` (`ViewOnLine`) about the diff to the
working tree. The argument goes up from the lines:

- `Script`: two versions that have their common lines in the same order (`Versions`)
  give a script whose old lines are the one version and whose new lines the other, each
  at its place (`ScriptIs`); of the lines up to a place as many are old as its line's
  number there (`CountPlace`).
- A hunk: where the changes with their context are one stretch, it is the only hunk
  (`OneSpan`), what is read of it is that stretch (`HunkIs`), and the loop over its
  lines moves a line of it to its place (`InHunk`), the offset one behind it
  (`HunkMoves`). Hence `DiffMoves`: `ParseDiffs` and `applyHunks` together take a line
  to where the new version has it, and to 0 if it has it nowhere.
- A name: a plain diff has no line that is read as one, so no anchor becomes `stray`
  (`NeverStray`).
- A range: the commits from an ancestor on each follow the one before (`PathIs`), so
  the loop over their diffs follows the line from version to version (`FollowIs`) and
  `TraceDiffs` gives an anchor that is right (`TraceDiffsRight`).
- The history: `TraceInv` is inductive. `HistoryInv` says what descends from what;
  `FilesInv` that any two versions have their common lines in the same order, which
  is so because an edit types new lines only (`EditedIs`); `RightInv` that every anchor
  is on its line or given up with reason (`OnItsLine`), that only the last one may be
  given up, and that the first is on the first commit, so that `TraceWithBacktrack`
  always finds one on the way to HEAD. A batch starts at a commit on the way to HEAD
  (`BatchFromIs`).

What these definitions compute by recursion over data is found by the smallest
counterexample instead of an induction theorem: a property of 0 that goes on to the
next number holds up to any (`UpTo`), hence a recursive function that keeps to given
sets exists and keeps to them (`Recursion`, `Walk`). `Ascending` is taken apart by
counting (`AscendingIs`).

**The scanner** (`ScannerProofs`), for texts of any length. `CommentsInOrder`
(`ScanOrdered`) is about any pieces, legible or not: `ScanInv` has the scanner's
counts right for the place it is at (`OnPlace`), and for the comment it is in a place
where it began, on its line if it is a line comment and behind all that were found
(`Started`). A line comment is entered without reading its marker; that it is not
empty when it ends comes from the markers of the languages, which do not begin with a
line end (`GoodConfig`).

`ScanFindsAll` (`ScanExact`) is about files of legible pieces. What the proof needs
of the languages (`Shape`: one kind of line comment and of block comment at most,
quotes of one rune, and which markers begin alike) is proved of `LanguagesConfig`
(`ShapeIs`). `ExactInv` adds to `ScanInv`:

- `FileInv`: the pieces follow each other in the text, each where it may stand.
- `Columns`: the scanner's flags for the first column and the start of the line say
  what the text before it says.
- `Right`: there is a piece before which all comments were found and nothing else
  (`Upto`), and the scanner is at its start or in it (`Progress`, `InPiece`): at a
  place from which its text is code (`CodeAt`), in a string whose end is ahead and
  whose escapes it is not in the middle of (`InStringAt`), in a line comment
  (`InLineAt`) or in a block comment (`InMultiAt`), where its depth is the number of
  starts before the place less the number of ends (`CountBelow`).

One step per state of the scanner shows that it goes on in the piece or to the next
one. At the end of a file `Peek` fails: what then was not seen is nearer to the end
than the language's longest marker, and `Expected` leaves it out (`StopsRight`).
`Expected` is a set; that the comments come once each and in order is `ScanOrdered`.

**Only model-checked.** Liveness (`WaiterServed`, `CommandsFinish`,
`ClientsConverge`, `CallsEnd`, `Reconnects`, `CacheConverges`) needs ENABLED and
fairness, which the prover does not reason about. All other properties of passing
runs are proved.

## 5. Not modelled

- XML encoding and validation, titles, list filters, formatters, the legacy
  tracking files, editor layout, extensions: wording and layout, or pure functions
  of one file that nothing else depends on.
- Git itself, the GitHub server, libuv and the file system: external; what they
  may answer is in `LineTrace`, `PullSync`, `NvimTransport` and `DirLock`.
- HTTP, authentication, JSON; pages of review threads.
- Renames and equal lines in a traced file; languages other than the seven;
  encodings.
- A `.nota` directory that disappears under the daemon (`ShutdownCh` is closed and
  nobody reads it); errors of `os.ReadDir` in the poller (a scan that does
  nothing).
- `client.lua` sends `id` and `body` where `handlers.go` reads `threadId` and
  `message`: what handlers answer to that is an error or a result like any other.
- `thread show --authors` drops the first comment that is otherwise always shown
  (`cli_thread.go:290`): a filter over one list.

Each component is listed with what is left out of it under `components` in
`PROJECT.json`.

## 6. Plan

Done, in this order: `DirLock` and its proofs; `Threads`, `ThreadStore` and its
invariants; `AtomicStore` and the refinement; `ChangeFeed` and its proofs; then
`LineTrace`, `SourceEdit`, `CommentScanner`; `RpcServer` and `NvimTransport`;
`NvimModel`; `SharedDir`, `PullSync` and `ExtractRun`; the proofs about the editor,
the session, the importers, deletion, the scanner and anchors.

Next:

1. The refinement of `ThreadStore` with removals allowed in `AtomicStore`.
2. That `ChangeFeed`'s `Mutate` and `SharedDir`'s commands are steps of `AtomicStore`.
3. Renames in `LineTrace`; pages of review threads in `PullSync`.
