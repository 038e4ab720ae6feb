------------------------------ MODULE SourceEdit ------------------------------
(***************************************************************************)
(* What `nota extract` does to one source file: the scanner's line         *)
(* comments are merged (scanner/merge.go), tagged comments are picked      *)
(* (parser.go), their byte ranges grow to whole lines (expandByteRange,    *)
(* extract.go), the ranges are cut out (DeleteComments, deleter.go), and   *)
(* every comment gets the line it has in the file that is left             *)
(* (AdjustedLine, blocks.go).                                              *)
(*                                                                         *)
(* The file is typed token by token, so that every file of at most         *)
(* MaxTokens tokens is a state.  A byte is what these functions tell apart:*)
(* "c" code, " " blank, "nl" a newline, "x" a comment.  Offset p is the    *)
(* place after p bytes.  Comments are numbered as they come in the file.   *)
(***************************************************************************)
EXTENDS Integers, Sequences, FiniteSets, FiniteSetsExt

CONSTANT MaxTokens

ASSUME TokensAssumption == MaxTokens \in Nat

VARIABLES
    bytes,    \* the file
    scanned,  \* its comments as CommentScanner returns them, lines not merged
    typed     \* how many tokens it has

sourceVars == <<bytes, scanned, typed>>

(* A note is a line comment with a tag, a remark one without; an inline    *)
(* and a block are tagged, the block goes on in the next line.             *)
LineComments == {"note", "remark"}
Tagged == {"note", "inline", "block"}
Comments == LineComments \cup Tagged
Tokens == Comments \cup {"code", "blank", "newline"}

Bytes(token) ==
    CASE token = "code" -> <<"c">>
      [] token = "blank" -> <<" ">>
      [] token = "newline" -> <<"nl">>
      [] token = "block" -> <<"x", "nl", "x">>
      [] token \in Comments \ {"block"} -> <<"x">>

-----------------------------------------------------------------------------
(* Places in a file.                                                       *)

Newlines(text, start, end) ==
    Cardinality({i \in start + 1 .. end : text[i] = "nl"})

LineAt(text, offset) == 1 + Newlines(text, 0, offset)

LineStart(text, offset) == Max({0} \cup {i \in 1 .. offset : text[i] = "nl"})

LineEnd(text, offset) ==
    Min({Len(text)} \cup {i - 1 : i \in {j \in offset + 1 .. Len(text) : text[j] = "nl"}})

AllBlank(text, start, end) == \A i \in start + 1 .. end : text[i] = " "

-----------------------------------------------------------------------------
(* A file is typed.                                                        *)

SourceInit == bytes = <<>> /\ scanned = <<>> /\ typed = 0

(* The file ends in a line comment, which only a newline ends.             *)
InLine ==
    /\ scanned # <<>>
    /\ scanned[Len(scanned)].end = Len(bytes)
    /\ scanned[Len(scanned)].token \in LineComments

Type(token) ==
    /\ typed < MaxTokens
    /\ InLine => token = "newline"
    /\ bytes' = bytes \o Bytes(token)
    /\ scanned' = IF token \in Comments
                  THEN Append(scanned, [start |-> Len(bytes), end |-> Len(bytes'),
                                        line |-> LineAt(bytes, Len(bytes)), token |-> token])
                  ELSE scanned
    /\ typed' = typed + 1

SourceNext == \E token \in Tokens : Type(token)

SourceSpec == SourceInit /\ [][SourceNext]_sourceVars

-----------------------------------------------------------------------------
(* MergeLineComments.                                                      *)

IndentAt(text, offset) ==
    LET first == LineStart(text, offset)
    IN  Max({n \in 0 .. offset - first : AllBlank(text, first, first + n)})

(* Comment k goes on with the line comment before it.                      *)
Continues(k) ==
    /\ k > 1
    /\ {scanned[k - 1].token, scanned[k].token} \subseteq LineComments
    /\ scanned[k].line = scanned[k - 1].line + 1
    /\ IndentAt(bytes, scanned[k].start) = IndentAt(bytes, scanned[k - 1].start)

LastOf(k) == Max({j \in k .. Len(scanned) : \A i \in k + 1 .. j : Continues(i)})

Merged(k) == [start |-> scanned[k].start, end |-> scanned[LastOf(k)].end]

(* The tag of its first line makes a comment a review comment.             *)
ReviewComments ==
    {k \in DOMAIN scanned : ~Continues(k) /\ scanned[k].token \in Tagged}

-----------------------------------------------------------------------------
(* expandByteRange: a comment alone on its lines takes the lines along, one *)
(* behind code the blanks before it.                                       *)

(* Mutant of ExpandByteRange: whole lines, whatever is before the comment. *)
ExpandToLineStart(text, comment) ==
    [start |-> LineStart(text, comment.start), end |-> comment.end]

(* Mutant of ExpandByteRange: a comment behind code takes the newline too. *)
ExpandPastLineEnd(text, comment) ==
    LET last == LineEnd(text, comment.end)
    IN  [start |-> comment.start,
         end |-> IF AllBlank(text, comment.end, last) THEN Min({last + 1, Len(text)})
                 ELSE comment.end]

ExpandByteRange(text, comment) ==
    LET first == LineStart(text, comment.start)
        last == LineEnd(text, comment.end)
        code == Max({first} \cup {i \in first + 1 .. comment.start : text[i] # " "})
    IN  IF ~AllBlank(text, first, comment.start)
        THEN [start |-> code, end |-> comment.end]
        ELSE IF AllBlank(text, comment.end, last)
        THEN [start |-> first, end |-> Min({last + 1, Len(text)})]
        ELSE [start |-> comment.start, end |-> comment.end]

Ranges == [k \in ReviewComments |-> ExpandByteRange(bytes, Merged(k))]

-----------------------------------------------------------------------------
(* DeleteComments, and the line numbers that blocks.go computes.           *)

(* The offsets of the bytes that DeleteComments keeps.                     *)
Kept(text, ranges) ==
    {i \in DOMAIN text : \A k \in DOMAIN ranges : i \notin ranges[k].start + 1 .. ranges[k].end}

(* lineDeltaForRemoval: whole lines count, anything else does not.         *)
IsWholeLines(text, range) ==
    /\ range.start = 0 \/ text[range.start] = "nl"
    /\ range.end > range.start /\ text[range.end] = "nl"

(* The newlines in the given ranges that count.  They lie apart, so what   *)
(* AdjustedLine adds up block by block is their number.                    *)
RemovedLines(text, ranges, ks) ==
    {i \in DOMAIN text : text[i] = "nl" /\ \E k \in ks :
        IsWholeLines(text, ranges[k]) /\ i \in ranges[k].start + 1 .. ranges[k].end}

(* Mutant of AdjustedLine: the comment's own lines count as removed.       *)
AdjustedLineItself(text, ranges, k) ==
    LineAt(text, ranges[k].start)
        - Cardinality(RemovedLines(text, ranges, {j \in DOMAIN ranges : j <= k}))

AdjustedLine(text, ranges, k) ==
    LineAt(text, ranges[k].start)
        - Cardinality(RemovedLines(text, ranges, {j \in DOMAIN ranges : j < k}))

-----------------------------------------------------------------------------
(* The anchor of the thread a comment becomes: groupToThread (convert.go)  *)
(* takes the line from blocks.go and hashes the text of that line, without *)
(* blanks around it.  A hash stands for the text it is of.                 *)

ContentHash(text, line) ==
    LET places == {i \in DOMAIN text : text[i] \notin {" ", "nl"} /\ LineAt(text, i - 1) = line}
    IN  IF places = {} THEN <<>> ELSE SubSeq(text, Min(places), Max(places))

AnchorOf(text, ranges, k) ==
    LET line == AdjustedLine(text, ranges, k)
    IN  [line |-> line, hash |-> ContentHash(text, line)]

-----------------------------------------------------------------------------
(* Properties.                                                             *)

(* DeleteComments refuses overlapping and inverted ranges                  *)
(* (deleter.go:36-51), and nothing is deleted from any file then: the      *)
(* ranges extract grows never make it refuse.                              *)
RangesDisjoint ==
    \A k \in DOMAIN Ranges :
        /\ Ranges[k].start <= Ranges[k].end
        /\ Ranges[k].end <= Len(bytes)
        /\ \A j \in DOMAIN Ranges : k < j => Ranges[k].end <= Ranges[j].start

(* A review comment of several lines has its lines for itself: no code     *)
(* around it, nor between the line comments it was merged from.            *)
LinesOf(comment) == LineStart(bytes, comment.start) + 1 .. LineEnd(bytes, comment.end)

Tidy ==
    \A k \in ReviewComments :
        \/ Newlines(bytes, Merged(k).start, Merged(k).end) = 0
        \/ /\ \A i \in LinesOf(Merged(k)) : bytes[i] # "c"
           /\ \A i \in LinesOf(Merged(k)) : bytes[i] = "x" =>
                    i \in Merged(k).start + 1 .. Merged(k).end

Code == {i \in DOMAIN bytes : bytes[i] = "c"}

(* "DeleteFromFiles removes extracted comments from source files."         *)
(* (extract.go:241): it removes no code.                                   *)
CodeKept == Code \subseteq Kept(bytes, Ranges)

(* In a tidy file all code stays, and code that was on two lines stays on  *)
(* two (expandByteRange and DeleteComments).                               *)
CodeLinesKept ==
    LET kept == Kept(bytes, Ranges)
        Apart(i, j) == \E n \in i .. j : bytes[n] = "nl"
        StillApart(i, j) == \E n \in (i .. j) \cap kept : bytes[n] = "nl"
    IN  Tidy =>
            /\ Code \subseteq kept
            /\ \A i, j \in Code : Apart(i, j) => StillApart(i, j)

(* The line a comment's thread is anchored to is the line where the comment *)
(* was in the file that is left, in a tidy file: AdjustedLine (blocks.go)  *)
(* agrees with DeleteComments on the lines that go.                        *)
AdjustedExact ==
    LET LineLeft(offset) ==
            1 + Cardinality({i \in Kept(bytes, Ranges) : i <= offset /\ bytes[i] = "nl"})
    IN  Tidy => \A k \in DOMAIN Ranges :
            AdjustedLine(bytes, Ranges, k) = LineLeft(Ranges[k].start)

(* "If the line was deleted or the content changed, Outdated is set to     *)
(* true" (TraceAnchor, trace.go:30): an extracted anchor's hash is that of *)
(* its line in the file that is left, if something is in that line, or the *)
(* next trace takes an unchanged line for a changed one.                   *)
HashAnchored ==
    LET kept == Kept(bytes, Ranges)
        left == [n \in 1 .. Cardinality(kept) |->
                    bytes[CHOOSE i \in kept : Cardinality(kept \cap (1 .. i)) = n]]
    IN  Tidy => \A k \in DOMAIN Ranges :
            LET anchor == AnchorOf(bytes, Ranges, k)
                line == ContentHash(left, anchor.line)
            IN  line # <<>> => anchor.hash = line
=============================================================================
