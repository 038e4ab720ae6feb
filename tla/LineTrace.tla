------------------------------ MODULE LineTrace ------------------------------
(***************************************************************************)
(* One file of a git history and a thread anchored to one of its lines.    *)
(* Users edit, commit and check out; `nota trace` (cli_trace.go) and       *)
(* `nota thread show` (cli_thread.go) carry the anchors to HEAD with the   *)
(* diffs that pkg/git parses, and the service resolves the current anchor  *)
(* against the working tree (query.go).                                    *)
(*                                                                         *)
(* A line is a pair: after how many commits it was typed, and where in the *)
(* edit.  Every inserted line is new, so the pair stands for its text and  *)
(* says which line it is.  An empty sequence is an absent file.            *)
(***************************************************************************)
EXTENDS Integers, Sequences, SequencesExt, FiniteSets, FiniteSetsExt

CONSTANTS
    RootLength,  \* lines of the file in the first commit
    Context,     \* git's diff.context
    Dashes,      \* lines whose text starts with "-- "
    Pluses,      \* lines whose text starts with "++ "
    Nulls,       \* those of them that go on with "/dev/null"
    Changes,     \* Changes[c]: how many lines the edit after c commits changes
    MaxCommits,
    MaxTraces

ASSUME HistoryAssumption ==
    /\ RootLength \in Nat \ {0}
    /\ Context \in Nat
    /\ Dashes \cup Pluses \cup Nulls \subseteq Nat \X Nat
    /\ MaxCommits \in Nat \ {0}
    /\ MaxTraces \in Nat
    /\ Changes \in [1 .. MaxCommits -> Nat]

VARIABLES
    commits,  \* commits[c]: its history, itself among it, the file's lines, the
              \* diff to them from its parent, and whether that is plain
    head,     \* the commit checked out
    tree,     \* the file in the working tree
    anchors,  \* the thread's anchors, oldest first
    comment,  \* the anchor of a comment: a sequence of at most one
    home,     \* the line the thread was opened on
    askew,    \* an anchor was moved by diffs that do not start at its commit
    traces    \* how often anchors were traced

traceVars == <<commits, head, tree, anchors, comment, home, askew, traces>>

NoHash == <<0, 0>>

(* The numbers of a finite set as a sequence that grows. *)
Ascending(K) ==
    [n \in 1 .. Cardinality(K) |-> CHOOSE k \in K : Cardinality({j \in K : j <= k}) = n]

-----------------------------------------------------------------------------
(* The history: git merge-base, git merge-base --is-ancestor.              *)

History(c) == commits[c].history

IsAncestorOf(c, d) == c \in History(d)

MergeBase(c, d) == Max(History(c) \cap History(d))

-----------------------------------------------------------------------------
(* What git prints: the first character of a line of a diff.  A removed    *)
(* line that starts with "-- " is printed as "--- ...", an added one that  *)
(* starts with "++ " as "+++ ...", as git prints the names of files.       *)

Same == " "
Removed == "-"
Added == "+"
OldName == "--- name"
NewName == "+++ name"
NoOldFile == "--- /dev/null"
NoNewFile == "+++ /dev/null"

OldTypes == {Same, Removed, OldName, NoOldFile}
NewTypes == {Same, Added, NewName, NoNewFile}

(* An edit script lists the lines both files have, and between them what   *)
(* is removed before what is added.  It walks both files: a line's place   *)
(* is the number of old lines and of new lines passed with it.             *)

Passed(old, new, i) ==
    Max({0} \cup {j \in DOMAIN new : \E k \in 1 .. i : old[k] = new[j]})

OldPlace(old, new, i) == i + Passed(old, new, i)

AddedPlace(old, new, j) ==
    j + Max({0} \cup {i \in DOMAIN old : Passed(old, new, i) < j})

Script(old, new) ==
    LET Old(lines) == {OldPlace(old, new, i) : i \in {k \in DOMAIN old : old[k] \in lines}}
        New(lines) == {AddedPlace(old, new, j) :
                          j \in {k \in DOMAIN new : new[k] \in lines \ ToSet(old)}}
        kept == Old(ToSet(new))
        added == New(ToSet(new))
        order == Ascending(Old(ToSet(old)) \cup added)
        named == Old(Dashes) \cup New(Pluses)
        null == Old(Nulls) \cup New(Nulls)
        Typed(p, line, name, nothing) ==
            IF p \notin named THEN line ELSE IF p \in null THEN nothing ELSE name
    IN  [n \in DOMAIN order |->
            IF order[n] \in added THEN Typed(order[n], Added, NewName, NoNewFile)
            ELSE IF order[n] \in kept THEN Same
            ELSE Typed(order[n], Removed, OldName, NoOldFile)]

Count(script, first, last, types) ==
    Cardinality({n \in first .. last : script[n] \in types})

(* The lines that git shows: changes with Context lines around. *)
Shown(script) ==
    {n \in DOMAIN script :
        \E p \in DOMAIN script : script[p] # Same /\ p - n \in -Context .. Context}

Starts(script) == LET shown == Shown(script) IN {n \in shown : n - 1 \notin shown}

Spans(script) ==
    LET first == Ascending(Starts(script))
        shown == Shown(script)
        EndOf(n) == Min({p \in shown : p >= n /\ p + 1 \notin shown})
    IN  [k \in DOMAIN first |-> <<first[k], EndOf(first[k])>>]

PrintedHunk(script, span) ==
    LET StartOf(types, n) == Count(script, 1, span[1] - 1, types) + (IF n = 0 THEN 0 ELSE 1)
        oldCount == Count(script, span[1], span[2], OldTypes)
        newCount == Count(script, span[1], span[2], NewTypes)
    IN  [OldStart |-> StartOf(OldTypes, oldCount), OldCount |-> oldCount,
         NewStart |-> StartOf(NewTypes, newCount), NewCount |-> newCount,
         Lines |-> [n \in 1 .. span[2] - span[1] + 1 |-> script[span[1] + n - 1]]]

PrintedDiff(old, new) ==
    LET script == Script(old, new)
        spans == Spans(script)
    IN  [Created |-> old = <<>>, Deleted |-> new = <<>>,
         Hunks |-> [k \in DOMAIN spans |-> PrintedHunk(script, spans[k])]]

(* No line that is removed from a file, or added to it, prints as the name *)
(* of one.                                                                 *)
NoDashRemoved(old, new) == new = <<>> \/ ToSet(old) \cap Dashes \subseteq ToSet(new)

NoPlusAdded(old, new) == old = <<>> \/ ToSet(new) \cap Pluses \subseteq ToSet(old)

(* A diff in one hunk, with context, in which only names print as names.   *)
Plain(old, new) ==
    /\ Context > 0
    /\ NoDashRemoved(old, new) /\ NoPlusAdded(old, new)
    /\ Len(Spans(Script(old, new))) <= 1

-----------------------------------------------------------------------------
(* ParseDiffs: what prints as a name is no line of its hunk, and is taken  *)
(* for one: the file was created, or deleted, or has another name.  That   *)
(* there is no file of that name is assumed.                               *)

ParsedHunk(hunk) ==
    LET read == Ascending({n \in DOMAIN hunk.Lines : hunk.Lines[n] \in {Same, Removed, Added}})
    IN  [hunk EXCEPT !.Lines = [n \in DOMAIN read |-> hunk.Lines[read[n]]]]

Prints(diff, type) == \E k \in DOMAIN diff.Hunks : type \in ToSet(diff.Hunks[k].Lines)

ParseDiffs(output) ==
    [i \in DOMAIN output |->
        [Created |-> output[i].Created \/ Prints(output[i], NoOldFile),
         Deleted |-> output[i].Deleted \/ Prints(output[i], NoNewFile),
         Renamed |-> Prints(output[i], NewName),
         Hunks |-> [k \in DOMAIN output[i].Hunks |-> ParsedHunk(output[i].Hunks[k])]]]

(* `git log -p --reverse from..to -- file`: every commit changed the file. *)
GetDiffs(from, to) ==
    LET range == Ascending(History(to) \ History(from))
    IN  ParseDiffs([i \in DOMAIN range |-> commits[range[i]].patch])

GetWorkingTreeDiffs(from) ==
    LET lines == commits[from].lines
    IN  ParseDiffs(IF lines = tree THEN <<>> ELSE <<PrintedDiff(lines, tree)>>)

-----------------------------------------------------------------------------
(* applyHunks: the new number of an old line, 0 when it was removed.       *)

Grown(hunk) == hunk.NewCount - hunk.OldCount

OffsetAfter(hunks) ==
    LET offset[i \in 0 .. Len(hunks)] ==
            IF i = 0 THEN 0 ELSE offset[i - 1] + Grown(hunks[i])
    IN  offset

WithinHunk(hunk, line, offset) ==
    LET Before(k, types) == Count(hunk.Lines, 1, k - 1, types)
        hits == {k \in DOMAIN hunk.Lines :
                    /\ hunk.Lines[k] \in {Same, Removed}
                    /\ hunk.OldStart + Before(k, {Same, Removed}) = line}
        k == CHOOSE hit \in hits : TRUE
    IN  IF hits = {} THEN line + offset + Grown(hunk)
        ELSE IF hunk.Lines[k] = Removed THEN 0
        ELSE hunk.NewStart + Before(k, {Same, Added}) + offset

(* Mutant of ApplyHunks: the hunk's last line is already behind it.        *)
ApplyHunksShort(line, hunks) ==
    LET reached == {i \in DOMAIN hunks : line < hunks[i].OldStart + hunks[i].OldCount - 1}
        i == IF reached = {} THEN Len(hunks) + 1 ELSE Min(reached)
        offset == OffsetAfter(hunks)[i - 1]
    IN  IF reached = {} \/ line < hunks[i].OldStart
        THEN line + offset ELSE WithinHunk(hunks[i], line, offset)

ApplyHunks(line, hunks) ==
    LET reached == {i \in DOMAIN hunks : line < hunks[i].OldStart + hunks[i].OldCount}
        i == IF reached = {} THEN Len(hunks) + 1 ELSE Min(reached)
        offset == OffsetAfter(hunks)[i - 1]
    IN  IF reached = {} \/ line < hunks[i].OldStart
        THEN line + offset ELSE WithinHunk(hunks[i], line, offset)

-----------------------------------------------------------------------------
(* Tracing one anchor: the loop over the diffs, then the content hash.     *)

(* An anchor is stray when its file is a name that a line was taken for:   *)
(* git knows no diffs of it, and its lines cannot be read.                 *)
Follow(start, diffs) ==
    LET Step(at, d) ==
            LET next == ApplyHunks(at.line, d.Hunks)
                Gone(line) == [line |-> line, gone |-> TRUE, stray |-> at.stray]
            IN  IF at.gone THEN at
                ELSE IF d.Deleted THEN Gone(at.line)
                ELSE IF d.Created THEN Gone(start)
                ELSE [line |-> IF next = 0 THEN start ELSE next, gone |-> next = 0,
                      stray |-> d.Renamed]
        at[i \in 0 .. Len(diffs)] ==
            IF i = 0 THEN [line |-> start, gone |-> FALSE, stray |-> FALSE]
            ELSE Step(at[i - 1], diffs[i])
    IN  at[Len(diffs)]

HashAt(lines, line) == IF line \in DOMAIN lines THEN lines[line] ELSE NoHash

(* Mutant of Mismatch: a line whose number is the old one is not compared. *)
MismatchIfMoved(a, lines, line) ==
    line # a.line /\ a.hash # NoHash /\ lines # <<>> /\ HashAt(lines, line) # a.hash

(* The content hash tells another line at the place that was found.        *)
Mismatch(a, lines, line) ==
    a.hash # NoHash /\ lines # <<>> /\ HashAt(lines, line) # a.hash

TraceDiffs(a, target, lines, diffs) ==
    LET at == Follow(a.line, IF a.stray THEN <<>> ELSE diffs)
        stray == a.stray \/ at.stray
        read == IF stray THEN <<>> ELSE lines
        outdated == at.gone \/ Mismatch(a, read, at.line)
    IN  [commit |-> target, line |-> at.line, stray |-> stray, outdated |-> outdated,
         hash |-> IF outdated \/ a.hash = NoHash THEN NoHash ELSE HashAt(read, at.line)]

Traced(a) == [anchor |-> a, outdated |-> a.outdated]

TraceAnchor(a, target) ==
    IF a.commit = target THEN [anchor |-> a, outdated |-> FALSE]
    ELSE IF IsAncestorOf(target, a.commit) THEN [anchor |-> a, outdated |-> TRUE]
    ELSE Traced(TraceDiffs(a, target, commits[target].lines, GetDiffs(a.commit, target)))

WorkingTree == 0

(* Mutant of TraceToWorkingTree: the diff of HEAD, whatever the anchor's   *)
(* commit is.                                                              *)
TraceFromHead(a) == TraceDiffs(a, WorkingTree, tree, GetWorkingTreeDiffs(head))

TraceToWorkingTree(a) ==
    TraceDiffs(a, WorkingTree, tree, GetWorkingTreeDiffs(a.commit))

(* Mutant of TraceWithBacktrack: the current anchor is taken for usable.   *)
TraceCurrentOnly(target) ==
    LET at == Last(anchors)
    IN  Traced([commit |-> target, line |-> at.line, stray |-> at.stray, hash |-> at.hash,
                outdated |-> ~IsAncestorOf(at.commit, target)])

(* The last anchor that lies on the way to target; none: outdated.         *)
TraceWithBacktrack(target) ==
    LET current == Last(anchors)
        usable == {i \in DOMAIN anchors : IsAncestorOf(anchors[i].commit, target)}
    IN  IF current.commit = target THEN [anchor |-> current, outdated |-> FALSE]
        ELSE IF usable # {} THEN TraceAnchor(anchors[Max(usable)], target)
        ELSE Traced([commit |-> target, line |-> current.line, stray |-> current.stray,
                     outdated |-> TRUE, hash |-> NoHash])

-----------------------------------------------------------------------------
(* Tracing a batch: the diffs are fetched once, for all anchors of a file. *)

IsStale(a) == a.commit # head /\ ~a.outdated

AnyStale == IsStale(Last(anchors)) \/ \E a \in ToSet(comment) : IsStale(a)

InBatch(a) == IsStale(a) /\ ~a.stray

Batch ==
    LET OfThread == IF InBatch(Last(anchors)) THEN <<Last(anchors)>> ELSE <<>>
        OfComment == IF comment # <<>> /\ InBatch(comment[1]) THEN comment ELSE <<>>
    IN  OfThread \o OfComment

(* Earliest(batch)[i]: the earliest commit after the anchors up to i. *)
Earliest(batch) ==
    LET earliest[i \in 0 .. Len(batch)] ==
            IF i = 0 THEN batch[1].commit
            ELSE IF IsAncestorOf(batch[i].commit, earliest[i - 1]) THEN batch[i].commit
            ELSE earliest[i - 1]
    IN  earliest

FindEarliestCommit(batch) == Earliest(batch)[Len(batch)]

(* The first anchor is not on the way to head, or two are on two branches. *)
NeedsMergeBase(batch) ==
    LET Diverges(i) ==
            LET earliest == Earliest(batch)[i - 1]
            IN  /\ ~IsAncestorOf(batch[i].commit, earliest)
                /\ ~IsAncestorOf(earliest, batch[i].commit)
    IN  \/ ~IsAncestorOf(batch[1].commit, head)
        \/ \E i \in 2 .. Len(batch) : Diverges(i)

BatchFrom(batch) ==
    LET earliest == FindEarliestCommit(batch)
    IN  IF NeedsMergeBase(batch) THEN MergeBase(earliest, head) ELSE earliest

TraceInBatch(a, batch) ==
    IF IsAncestorOf(head, a.commit) THEN [anchor |-> a, outdated |-> TRUE]
    ELSE Traced(TraceDiffs(a, head, commits[head].lines, GetDiffs(BatchFrom(batch), head)))

(* An anchor's line number is moved by diffs that do not start at its      *)
(* commit.                                                                 *)
IsAskew(a, from) == ~IsAncestorOf(head, a.commit) /\ from # a.commit

-----------------------------------------------------------------------------
(* Users.                                                                  *)

(* The file with the lines at `removed` gone and a new line in every gap.  *)
Edited(old, removed, gaps) ==
    LET order == Ascending({2 * i : i \in DOMAIN old \ removed} \cup {2 * g + 1 : g \in gaps})
    IN  [n \in DOMAIN order |->
            IF order[n] % 2 = 0 THEN old[order[n] \div 2]
            ELSE <<Len(commits), order[n] \div 2>>]

Edit ==
    /\ tree = commits[head].lines
    /\ Len(commits) < MaxCommits
    /\ \E removed \in SUBSET DOMAIN tree, gaps \in SUBSET (0 .. Len(tree)) :
            /\ Cardinality(removed) + Cardinality(gaps) \in 1 .. Changes[Len(commits)]
            /\ tree' = Edited(tree, removed, gaps)
    /\ UNCHANGED <<commits, head, anchors, comment, home, askew, traces>>

RemoveFile ==
    /\ tree = commits[head].lines
    /\ tree # <<>>
    /\ Len(commits) < MaxCommits
    /\ tree' = <<>>
    /\ UNCHANGED <<commits, head, anchors, comment, home, askew, traces>>

Commit ==
    /\ tree # commits[head].lines
    /\ head' = Len(commits) + 1
    /\ commits' = Append(commits,
           [history |-> History(head) \cup {head'}, lines |-> tree,
            patch |-> PrintedDiff(commits[head].lines, tree),
            plain |-> Plain(commits[head].lines, tree)])
    /\ UNCHANGED <<tree, anchors, comment, home, askew, traces>>

Checkout(c) ==
    /\ tree = commits[head].lines
    /\ c # head
    /\ head' = c
    /\ tree' = commits[c].lines
    /\ UNCHANGED <<commits, anchors, comment, home, askew, traces>>

(* Someone comments on the same line where it is in HEAD.                  *)
Comment ==
    /\ comment = <<>>
    /\ \E line \in DOMAIN commits[head].lines :
            /\ commits[head].lines[line] = home
            /\ comment' = <<[commit |-> head, line |-> line, stray |-> FALSE,
                             outdated |-> FALSE, hash |-> NoHash]>>
    /\ UNCHANGED <<commits, head, tree, anchors, home, askew, traces>>

-----------------------------------------------------------------------------
(* Commands.                                                               *)

(* `nota trace`: the batch; the thread's anchor goes back through its      *)
(* history when the batch finds it outdated.                               *)
TraceThread ==
    LET current == Last(anchors)
        batch == Batch
        found == TraceInBatch(current, batch)
        result == IF found.outdated THEN TraceWithBacktrack(head) ELSE found
    IN  /\ AnyStale
        /\ traces < MaxTraces
        /\ anchors' = IF IsStale(current) THEN Append(anchors, result.anchor) ELSE anchors
        /\ comment' = [i \in DOMAIN comment |->
                        IF IsStale(comment[i]) THEN TraceInBatch(comment[i], batch).anchor
                        ELSE comment[i]]
        /\ askew' = (askew \/ \E a \in ToSet(batch) : IsAskew(a, BatchFrom(batch)))
        /\ traces' = traces + 1
        /\ UNCHANGED <<commits, head, tree, home>>

(* `nota thread show`: one anchor at a time.                               *)
ShowThread ==
    /\ AnyStale
    /\ traces < MaxTraces
    /\ anchors' = IF IsStale(Last(anchors))
                  THEN Append(anchors, TraceWithBacktrack(head).anchor) ELSE anchors
    /\ comment' = [i \in DOMAIN comment |->
                    IF IsStale(comment[i]) THEN TraceAnchor(comment[i], head).anchor
                    ELSE comment[i]]
    /\ askew' = (askew \/ \E a \in ToSet(comment) :
                            InBatch(a) /\ IsAskew(a, MergeBase(a.commit, head)))
    /\ traces' = traces + 1
    /\ UNCHANGED <<commits, head, tree, home>>

TraceInit ==
    /\ tree = [i \in 1 .. RootLength |-> <<0, i>>]
    /\ commits = <<[history |-> {1}, lines |-> tree, patch |-> PrintedDiff(<<>>, tree),
                  plain |-> TRUE]>>
    /\ head = 1
    /\ \E line \in 1 .. RootLength :
            /\ home = tree[line]
            /\ \E hash \in {NoHash, home} :
                anchors = <<[commit |-> 1, line |-> line, stray |-> FALSE,
                             outdated |-> FALSE, hash |-> hash]>>
    /\ comment = <<>>
    /\ askew = FALSE
    /\ traces = 0

TraceNext ==
    \/ Edit
    \/ RemoveFile
    \/ Commit
    \/ \E c \in DOMAIN commits : Checkout(c)
    \/ Comment
    \/ TraceThread
    \/ ShowThread

TraceSpec == TraceInit /\ [][TraceNext]_traceVars

-----------------------------------------------------------------------------
(* Properties.                                                             *)

PlainHistory == \A c \in DOMAIN commits : commits[c].plain

OnHome(a) == ~a.stray /\ HashAt(commits[a.commit].lines, a.line) = home

(* Where the history is plain and nothing went askew, an anchor that is    *)
(* not outdated is on the line the thread was opened on (TraceAnchor,      *)
(* TraceWithBacktrack, TraceAnchorsWithGit).                               *)
AnchorOnLine ==
    PlainHistory /\ ~askew =>
        \A a \in ToSet(anchors \o comment) : a.outdated \/ OnHome(a)

(* There, an anchor is given up only if its commit has the line no more.   *)
OutdatedMeansGone ==
    PlainHistory /\ ~askew =>
        \A a \in ToSet(anchors) :
            a.outdated => home \notin ToSet(commits[a.commit].lines)

(* Whatever the history, the hunks and the batches: an anchor that carries *)
(* a content hash is on its line.                                          *)
HashCatches == \A a \in ToSet(anchors) : a.hash # NoHash => OnHome(a)

(* The line the service shows (buildView, query.go:62) is the thread's     *)
(* line in the working tree, if the anchor is right and the diff from its  *)
(* commit is plain.  With a content hash a line that is gone is noticed    *)
(* whatever the diff, unless an added line prints as the name of a file.   *)
ViewOnLine ==
    LET a == Last(anchors)
        lines == commits[a.commit].lines
        view == TraceToWorkingTree(a)
        plain == Plain(lines, tree)
    IN  ~a.outdated /\ OnHome(a) /\ (plain \/ (a.hash # NoHash /\ NoPlusAdded(lines, tree))) =>
            IF home \in ToSet(tree)
            THEN plain => ~view.outdated /\ tree[view.line] = home
            ELSE view.outdated

(* "Uses the actual diff lines to track exactly where each old line maps   *)
(* to" (trace.go:167): with any number of hunks.                           *)
HunkLinesExact ==
    LET old == commits[head].lines
    IN  NoDashRemoved(old, tree) /\ NoPlusAdded(old, tree) /\ tree # <<>> =>
            \A line \in DOMAIN old :
                LET at == Follow(line, GetWorkingTreeDiffs(head))
                IN  IF old[line] \in ToSet(tree)
                    THEN ~at.gone /\ HashAt(tree, at.line) = old[line]
                    ELSE at.gone
=============================================================================
