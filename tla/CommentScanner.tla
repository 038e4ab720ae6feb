---------------------------- MODULE CommentScanner ----------------------------
(***************************************************************************)
(* CommentScanner (pkg/scanner/scanner.go): a file is read rune by rune,   *)
(* and the markers of its language (languages.go) take the scanner from    *)
(* code into strings and comments and back.                                *)
(*                                                                         *)
(* A file is typed in pieces, each of them code, a whole string or a whole *)
(* comment, so that what the scanner should find is known.  A rune is a    *)
(* name: "dq" and "sq" are the quotes, "bs" is the backslash, "nl" and     *)
(* "cr" end lines, "wide" is a rune of two bytes, any other is itself.     *)
(***************************************************************************)
EXTENDS Integers, Sequences, SequencesExt, FiniteSets, FiniteSetsExt

CONSTANTS
    Pieces,    \* Pieces[l]: what is typed in language l
    MaxPieces

VARIABLES
    lang,   \* the language
    file,   \* the pieces, each with the number of runes before it
    runes,  \* their text
    scan,   \* where the scanner is
    found   \* the comments that Scan has returned

scanVars == <<lang, file, runes, scan, found>>

-----------------------------------------------------------------------------
(* What LanguagesConfig says of a few languages that differ in what they   *)
(* ask of the scanner.                                                     *)

LineComment(start, atLineStart) == [start |-> start, atLineStart |-> atLineStart]

Multiline(start, end) == [start |-> start, end |-> end, atFirstColumn |-> FALSE, nested |-> FALSE]

String(quote, escape) == [start |-> <<quote>>, end |-> <<quote>>, escape |-> escape]

CBlockComments == <<Multiline(<<"/", "*">>, <<"*", "/">>)>>

CStrings == <<String("dq", "char"), String("sq", "char")>>

DoubledStrings == <<String("dq", "double"), String("sq", "double")>>

LanguagesConfig ==
    [Rust |-> [line |-> <<LineComment(<<"/", "/">>, FALSE)>>, multi |-> CBlockComments,
               strings |-> <<String("dq", "char")>>],
     SQL |-> [line |-> <<LineComment(<<"-", "-">>, FALSE)>>, multi |-> CBlockComments,
              strings |-> DoubledStrings],
     OCaml |-> [line |-> <<>>, strings |-> CStrings,
                multi |-> <<[Multiline(<<"(", "*">>, <<"*", ")">>) EXCEPT !.nested = TRUE]>>],
     Perl |-> [line |-> <<LineComment(<<"#">>, FALSE)>>, strings |-> CStrings,
               multi |-> <<[Multiline(<<"=">>, <<"=", "c", "u", "t">>)
                                EXCEPT !.atFirstColumn = TRUE]>>],
     Python |-> [line |-> <<LineComment(<<"#">>, FALSE)>>, strings |-> CStrings,
                 multi |-> <<Multiline(<<"dq", "dq", "dq">>, <<"dq", "dq", "dq">>)>>],
     VimScript |-> [line |-> <<LineComment(<<"dq">>, FALSE)>>, multi |-> <<>>,
                    strings |-> CStrings],
     IgnoreList |-> [line |-> <<LineComment(<<"#">>, TRUE)>>, multi |-> <<>>, strings |-> <<>>]]

ASSUME PiecesAssumption ==
    /\ DOMAIN Pieces \subseteq DOMAIN LanguagesConfig
    /\ \A l \in DOMAIN Pieces : \A piece \in Pieces[l] : piece.text \in Seq(STRING) \ {<<>>}
    /\ MaxPieces \in Nat

Config == LanguagesConfig[lang]

-----------------------------------------------------------------------------
(* Reading runes.                                                          *)

BytesIn(start, end) ==
    (end - start) + Cardinality({i \in start + 1 .. end : runes[i] = "wide"})

NewlinesIn(start, end) == Cardinality({i \in start + 1 .. end : runes[i] = "nl"})

(* The text has the marker behind its first i runes.                       *)
Reads(text, i, marker) ==
    i + Len(marker) <= Len(text) /\ \A k \in DOMAIN marker : text[i + k] = marker[k]

(* Fewer runes are left than a marker has: Peek reports the end.           *)
AtEnd(marker) == scan.at + Len(marker) > Len(runes)

PeekEqual(marker) == Reads(runes, scan.at, marker)

Blanks == {" ", "cr"}

(* What nextRune and discardRunes keep up to date, n runes further on.     *)
Advance(s, n) ==
    LET to == s.at + n
        BlankFrom(i) == \A j \in i + 1 .. to : runes[j] \in Blanks
    IN  [s EXCEPT !.at = to, !.bytes = @ + BytesIn(s.at, to), !.line = @ + NewlinesIn(s.at, to),
                  !.atFirstColumn = IF n = 0 THEN @ ELSE runes[to] = "nl",
                  !.atLineStart = \/ @ /\ BlankFrom(s.at)
                                  \/ \E i \in s.at + 1 .. to : runes[i] = "nl" /\ BlankFrom(i)]

DiscardRunes(n) == Advance(scan, n)

(* At the end of the file the scanner stops for good.                      *)
Stopped == [scan EXCEPT !.in = "end"]

NextRune(s) == IF s.at < Len(runes) THEN Advance(s, 1) ELSE Stopped

IsLineEnd == AtEnd(<<"nl">>) \/ PeekEqual(<<"nl">>) \/ PeekEqual(<<"cr", "nl">>)

(* The first marker in a list that is next in the file and may stand here; *)
(* 0: none; EOF: the file was too short to tell.                           *)
EOF == -1

FirstMatch(markers, allowed) ==
    LET hits == {i \in allowed : PeekEqual(markers[i].start)}
        short == {i \in DOMAIN markers : AtEnd(markers[i].start)}
        first == Min(hits \cup short)
    IN  IF hits \cup short = {} THEN 0 ELSE IF first \in short THEN EOF ELSE first

LineMatch ==
    FirstMatch(Config.line,
               {i \in DOMAIN Config.line : Config.line[i].atLineStart => scan.atLineStart})

MultilineMatch ==
    FirstMatch(Config.multi,
               {i \in DOMAIN Config.multi : Config.multi[i].atFirstColumn => scan.atFirstColumn})

StringMatch == FirstMatch(Config.strings, DOMAIN Config.strings)

-----------------------------------------------------------------------------
(* The scanner, one turn of a loop at a time.                              *)

Begin ==
    /\ scan.in = "typing"
    /\ scan' = [scan EXCEPT !.in = "code"]
    /\ UNCHANGED <<lang, file, runes, found>>

(* A string or comment starts: `discarded` runes of it are read.           *)
Enter(in, index, discarded) ==
    [DiscardRunes(discarded) EXCEPT !.in = in, !.index = index, !.depth = 0,
                                    !.start = scan.bytes, !.startLine = scan.line]

LengthOf(markers, i) == IF i \in {0, EOF} THEN 0 ELSE Len(markers[i].start)

(* Which of the markers that match wins: the longest; of equal ones a      *)
(* multi-line comment; a line comment and a string leave it open.          *)
Choice(line, multi, string) ==
    LET longest == Max({line, multi, string})
    IN  CASE longest = 0 -> "code"
          [] longest > 0 /\ multi = longest -> "multi"
          [] longest > multi /\ line = longest /\ string = longest -> "lineOrString"
          [] longest > Max({multi, string}) -> "line"
          [] longest > Max({multi, line}) -> "string"

(* processCode.                                                            *)
InCode ==
    /\ scan.in = "code"
    /\ LET string == LengthOf(Config.strings, StringMatch)
           multi == LengthOf(Config.multi, MultilineMatch)
           choice == Choice(LengthOf(Config.line, LineMatch), multi, string)
       IN  scan' = IF EOF \in {LineMatch, MultilineMatch, StringMatch} THEN Stopped
                   ELSE CASE choice = "code" -> NextRune(scan)
                          [] choice = "multi" -> Enter("multi", MultilineMatch, multi)
                          [] choice = "line" -> Enter("line", LineMatch, 0)
                          [] choice \in {"lineOrString", "string"} ->
                                Enter(choice, StringMatch, string)
    /\ UNCHANGED <<lang, file, runes, found>>

(* The escaped end of a string that is next, if any.                       *)
EscapedEnd(m) ==
    LET text == CASE m.escape = "char" -> <<"bs">> \o m.end
                  [] m.escape = "double" -> m.end \o m.end
    IN  IF PeekEqual(text) THEN text ELSE <<>>

(* Mutant of StringStep: an escaped end ends the string.                   *)
StringStepUnescaped(m) ==
    IF AtEnd(m.end) THEN Stopped
    ELSE IF PeekEqual(m.end) THEN [DiscardRunes(Len(m.end)) EXCEPT !.in = "code"]
    ELSE NextRune(scan)

StringStep(m) ==
    IF EscapedEnd(m) # <<>> THEN DiscardRunes(Len(EscapedEnd(m)))
    ELSE IF AtEnd(m.end) THEN Stopped
    ELSE IF PeekEqual(m.end) THEN [DiscardRunes(Len(m.end)) EXCEPT !.in = "code"]
    ELSE NextRune(scan)

(* processString.                                                          *)
InString ==
    /\ scan.in = "string"
    /\ scan' = StringStep(Config.strings[scan.index])
    /\ UNCHANGED <<lang, file, runes, found>>

Report(s, line) == found' = Append(found, [start |-> scan.start, end |-> s.bytes, line |-> line])

LineCommentEnds ==
    /\ IsLineEnd
    /\ Report(scan, scan.line)
    /\ scan' = [scan EXCEPT !.in = "code"]

(* processLineComment.                                                     *)
InLineComment ==
    /\ scan.in = "line"
    /\ \/ LineCommentEnds
       \/ ~IsLineEnd /\ scan' = NextRune(scan) /\ UNCHANGED found
    /\ UNCHANGED <<lang, file, runes>>

(* processLineCommentOrString: it is a string if it ends on its line.      *)
InLineCommentOrString ==
    /\ scan.in = "lineOrString"
    /\ \/ LineCommentEnds
       \/ ~IsLineEnd /\ scan' = StringStep(Config.strings[scan.index]) /\ UNCHANGED found
    /\ UNCHANGED <<lang, file, runes>>

(* Mutant of StartLine: a comment is on the line it ends on.               *)
EndLine == scan.line

StartLine == scan.startLine

(* processMultilineComment; behind the end of a nested comment one more    *)
(* rune is read without a look at it.                                      *)
InMultilineComment ==
    /\ scan.in = "multi"
    /\ LET m == Config.multi[scan.index]
           mayStand == m.atFirstColumn => scan.atFirstColumn
           nests == m.nested /\ PeekEqual(m.start) /\ mayStand
           short == AtEnd(m.end) \/ (m.nested /\ AtEnd(m.start))
           ends == PeekEqual(m.end) /\ mayStand
           after == DiscardRunes(Len(m.end))
       IN  \/ /\ nests
              /\ scan' = [DiscardRunes(Len(m.start)) EXCEPT !.depth = @ + 1]
              /\ UNCHANGED found
           \/ /\ ~nests /\ short
              /\ scan' = Stopped
              /\ UNCHANGED found
           \/ /\ ~nests /\ ~short /\ ends /\ scan.depth = 0
              /\ Report(after, StartLine)
              /\ scan' = [after EXCEPT !.in = "code"]
           \/ /\ ~nests /\ ~short /\ ends /\ scan.depth > 0
              /\ scan' = NextRune([after EXCEPT !.depth = @ - 1])
              /\ UNCHANGED found
           \/ /\ ~nests /\ ~short /\ ~ends
              /\ scan' = NextRune(scan)
              /\ UNCHANGED found
    /\ UNCHANGED <<lang, file, runes>>

-----------------------------------------------------------------------------
(* Files.                                                                  *)

ScannerInit ==
    /\ lang \in DOMAIN Pieces
    /\ file = <<>>
    /\ runes = <<>>
    /\ found = <<>>
    /\ scan = [in |-> "typing", at |-> 0, bytes |-> 0, line |-> 1, atFirstColumn |-> TRUE,
               atLineStart |-> TRUE, index |-> 0, depth |-> 0, start |-> 0, startLine |-> 0]

EndsLine(text) == Reads(text, 0, <<"nl">>) \/ Reads(text, 0, <<"cr", "nl">>)

(* Only blanks are between the start of the line and the n-th rune.        *)
Indented(n) ==
    \E i \in {0} \cup {k \in 1 .. n : runes[k] = "nl"} : \A j \in i + 1 .. n : runes[j] \in Blanks

(* A piece where it can stand: a line comment ends with its line, a first- *)
(* column comment starts one.                                              *)
TypePiece(piece) ==
    /\ scan.in = "typing"
    /\ Len(file) < MaxPieces
    /\ file # <<>> /\ Last(file).piece.kind = "line" => EndsLine(piece.text)
    /\ piece.kind = "line" /\ (\E m \in ToSet(Config.line) : m.atLineStart) => Indented(Len(runes))
    /\ piece.kind = "column" /\ runes # <<>> => Last(runes) = "nl"
    /\ file' = Append(file, [piece |-> piece, at |-> Len(runes)])
    /\ runes' = runes \o piece.text
    /\ UNCHANGED <<lang, scan, found>>

ScannerNext ==
    \/ \E piece \in Pieces[lang] : TypePiece(piece)
    \/ Begin
    \/ InCode
    \/ InString
    \/ InLineComment
    \/ InLineCommentOrString
    \/ InMultilineComment

ScannerSpec == ScannerInit /\ [][ScannerNext]_scanVars

-----------------------------------------------------------------------------
(* Properties.                                                             *)

(* What a language's compiler makes of a piece, c being what LanguagesConfig *)
(* says of the language.  Whatever follows the text, there is no such marker *)
(* behind its first i runes.                                                 *)
Differs(text, i, marker) == \E k \in DOMAIN marker : i + k <= Len(text) /\ text[i + k] # marker[k]

NoLine(c, text, i) ==
    \A m \in ToSet(c.line) :
        Differs(text, i, m.start) \/ (m.atLineStart /\ i > 0 /\ text[i] \notin Blanks \cup {"nl"})

NoMulti(c, text, i) ==
    \A m \in ToSet(c.multi) :
        Differs(text, i, m.start) \/ (m.atFirstColumn /\ i > 0 /\ text[i] # "nl")

NoString(c, text, i) == \A m \in ToSet(c.strings) : Differs(text, i, m.start)

(* The quotes q between i and j are escaped, the one at j is not; no       *)
(* backslash is.                                                           *)
CharEscapes(q, text, i, j) ==
    \A n \in i .. j : /\ text[n] = q => (n = j <=> text[n - 1] # "bs")
                      /\ ~(text[n - 1] = "bs" /\ text[n] = "bs")

DoubleEscapes(q, text, i, j) ==
    \E pairs \in SUBSET (i .. j - 1) :
        /\ {n \in i .. j - 1 : text[n] = q} = pairs \cup {n + 1 : n \in pairs}
        /\ \A n \in pairs : n + 1 \notin pairs

(* What is behind i up to j is a string; one that may also be a line       *)
(* comment ends on its line.                                               *)
IsString(c, m, text, i, j) ==
    /\ i + 2 <= j
    /\ Reads(text, i, m.start) /\ Reads(text, j - 1, m.end)
    /\ CASE m.escape = "char" -> CharEscapes(m.end[1], text, i + 2, j)
         [] m.escape = "double" -> DoubleEscapes(m.end[1], text, i + 2, j)
    /\ NoMulti(c, text, i)
    /\ NoLine(c, text, i) \/ \A n \in i + 1 .. j : text[n] # "nl"

(* From i on the text is strings and runes that begin nothing.             *)
CodeFrom(c, text, i) ==
    \E cuts \in SUBSET (i .. Len(text)) :
        /\ {i, Len(text)} \subseteq cuts
        /\ \A a \in cuts \ {Len(text)} :
              \/ a + 1 \in cuts /\ NoLine(c, text, a) /\ NoMulti(c, text, a) /\ NoString(c, text, a)
              \/ \E b \in cuts, m \in ToSet(c.strings) : IsString(c, m, text, a, b)

IsLine(c, text) ==
    /\ \E m \in ToSet(c.line) : Reads(text, 0, m.start)
    /\ NoMulti(c, text, 0)
    /\ \A m \in ToSet(c.strings) :
          Differs(text, 0, m.start) \/ \A n \in 2 .. Len(text) : text[n] # m.end[1]
    /\ \A n \in DOMAIN text : text[n] # "nl"
    /\ Last(text) # "cr"

(* Where the marker is read; how deep the text nests there.                *)
Places(text, marker, atFirstColumn, from, to) ==
    {n \in from .. to : Reads(text, n, marker) /\ (atFirstColumn => text[n] = "nl")}

CountBelow(places, n) == Cardinality({i \in places : i < n})

(* Comments in it start and end before it does; an end is not followed by  *)
(* the next start or end at once, of which the scanner skips a rune.       *)
IsMulti(c, text, kind) ==
    \E m \in ToSet(c.multi) :
        LET from == Len(m.start)
            to == Len(text) - Len(m.end)
            starts == IF m.nested THEN Places(text, m.start, m.atFirstColumn, from, to) ELSE {}
            ends == Places(text, m.end, m.atFirstColumn, from, to)
        IN  /\ Reads(text, 0, m.start) /\ (m.atFirstColumn => kind = "column")
            /\ to \in ends /\ CountBelow(starts, to) = CountBelow(ends, to)
            /\ \A n \in starts : n + 1 \notin ends
            /\ \A n \in ends \ {to} : /\ CountBelow(starts, n) > CountBelow(ends, n)
                                     /\ n + Len(m.end) \notin starts \cup ends

IsLegible(c, piece) ==
    \/ piece.kind = "code" /\ CodeFrom(c, piece.text, 0)
    \/ piece.kind = "line" /\ IsLine(c, piece.text)
    \/ piece.kind \in {"multi", "column"} /\ IsMulti(c, piece.text, piece.kind)

Legible == [l \in DOMAIN Pieces |-> {piece \in Pieces[l] : IsLegible(LanguagesConfig[l], piece)}]

(* The comments of the file; one whose marker stands nearer to the end of  *)
(* the file than the language's longest marker is long is not looked for   *)
(* (Peek, scanner.go:652).                                                 *)
Longest ==
    Max({Len(m.start) : m \in ToSet(Config.line) \cup ToSet(Config.multi) \cup ToSet(Config.strings)})

CommentOf(t) ==
    [start |-> BytesIn(0, t.at), end |-> BytesIn(0, t.at + Len(t.piece.text)),
     line |-> 1 + NewlinesIn(0, t.at)]

Expected == {CommentOf(t) : t \in {t \in ToSet(file) :
                                t.piece.kind # "code" /\ t.at + Longest <= Len(runes)}}

(* The scanner finds the comments of a file of legible pieces, all of them *)
(* and nothing else, each with its bytes and its line: "comment inside     *)
(* string is ignored" (scanner_test.go:64).                                *)
ScanExact ==
    scan.in = "end" /\ (\A i \in DOMAIN file : file[i].piece \in Legible[lang])
        => ToSet(found) = Expected

(* Whatever the file is, comments are reported in order, none in another,  *)
(* on a line that has a newline less before it: what DeleteComments and    *)
(* the line numbers of blocks.go rely on.                                  *)
ScanOrdered ==
    \A k \in DOMAIN found :
        /\ found[k].start < found[k].end
        /\ k > 1 => found[k - 1].end <= found[k].start
        /\ \E n \in 0 .. Len(runes) :
                found[k].start = BytesIn(0, n) /\ found[k].line = 1 + NewlinesIn(0, n)
=============================================================================
