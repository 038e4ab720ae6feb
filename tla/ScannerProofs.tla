---------------------------- MODULE ScannerProofs ----------------------------
(***************************************************************************)
(* The comment scanner on files of any length: what it reports is in order *)
(* and, where each piece is what its language makes of it, exactly what is *)
(* there.                                                                  *)
(***************************************************************************)
EXTENDS CommentScanner, FiniteSetTheorems, TLAPS

LEMMA MaxOf ==
  ASSUME NEW S \in SUBSET Int, IsFiniteSet(S), S # {}
  PROVE  Max(S) \in S /\ \A x \in S : x <= Max(S)
<1> DEFINE Above(x) == {y \in S : y > x}
           Aboves == {Above(x) : x \in S}
<1>1. Aboves \subseteq SUBSET S /\ Aboves # {}
  OBVIOUS
<1>2. IsWellFoundedOn(StrictSubsetOrdering(S), SUBSET S)
  BY FS_StrictSubsetOrderingWellFounded, FS_FiniteSubsetsOfFinite
<1>3. PICK A \in Aboves : \A B \in Aboves : <<B, A>> \notin StrictSubsetOrdering(S)
  <2> HIDE DEF Aboves
  <2> QED BY <1>1, <1>2, WFMin
<1>4. PICK x \in S : A = Above(x)
  OBVIOUS
<1>5. \A y \in S : y <= x
  <2> SUFFICES ASSUME NEW y \in S, y > x PROVE FALSE
    OBVIOUS
  <2>1. Above(y) \subseteq Above(x) /\ y \in Above(x) /\ y \notin Above(y)
    <3>1. x \in Int /\ y \in Int /\ \A z \in S : z \in Int
      OBVIOUS
    <3>2. ASSUME NEW z \in S, z > y PROVE z > x
      <4>1. z \in Int
        BY <3>1
      <4> QED BY <3>1, <3>2, <4>1
    <3>3. ~(y > y)
      BY <3>1
    <3> QED BY <3>2, <3>3
  <2>2. <<Above(y), A>> \in StrictSubsetOrdering(S)
    BY <1>4, <2>1 DEF StrictSubsetOrdering
  <2> QED BY <1>3, <2>2
<1> QED BY <1>5 DEF Max

LEMMA MinOf ==
  ASSUME NEW S \in SUBSET Int, IsFiniteSet(S), S # {}
  PROVE  Min(S) \in S /\ \A x \in S : Min(S) <= x
<1> DEFINE Below(x) == {y \in S : y < x}
           Belows == {Below(x) : x \in S}
<1>1. Belows \subseteq SUBSET S /\ Belows # {}
  OBVIOUS
<1>2. IsWellFoundedOn(StrictSubsetOrdering(S), SUBSET S)
  BY FS_StrictSubsetOrderingWellFounded, FS_FiniteSubsetsOfFinite
<1>3. PICK A \in Belows : \A B \in Belows : <<B, A>> \notin StrictSubsetOrdering(S)
  <2> HIDE DEF Belows
  <2> QED BY <1>1, <1>2, WFMin
<1>4. PICK x \in S : A = Below(x)
  OBVIOUS
<1>5. \A y \in S : x <= y
  <2> SUFFICES ASSUME NEW y \in S, y < x PROVE FALSE
    OBVIOUS
  <2>1. Below(y) \subseteq Below(x) /\ y \in Below(x) /\ y \notin Below(y)
    <3>1. x \in Int /\ y \in Int /\ \A z \in S : z \in Int
      OBVIOUS
    <3>2. ASSUME NEW z \in S, z < y PROVE z < x
      <4>1. z \in Int
        BY <3>1
      <4> QED BY <3>1, <3>2, <4>1
    <3>3. ~(y < y)
      BY <3>1
    <3> QED BY <3>2, <3>3
  <2>2. <<Below(y), A>> \in StrictSubsetOrdering(S)
    BY <1>4, <2>1 DEF StrictSubsetOrdering
  <2> QED BY <1>3, <2>2
<1> QED BY <1>5 DEF Min

-----------------------------------------------------------------------------
(* Bytes and newlines add up, and there are more bytes further on. *)
LEMMA PlacesAddUp ==
  ASSUME NEW a \in Nat, NEW b \in Nat, NEW c \in Nat, a <= b, b <= c
  PROVE  /\ BytesIn(a, b) \in Nat /\ NewlinesIn(a, b) \in Nat
         /\ BytesIn(a, c) = BytesIn(a, b) + BytesIn(b, c)
         /\ NewlinesIn(a, c) = NewlinesIn(a, b) + NewlinesIn(b, c)
         /\ a < b => BytesIn(a, b) > 0
         /\ (\A i \in a + 1 .. b : runes[i] # "nl") => NewlinesIn(a, b) = 0
         /\ BytesIn(a, a) = 0
<1> DEFINE In(rune, i, j) == {k \in i + 1 .. j : runes[k] = rune}
<1>1. ASSUME NEW i \in Nat, NEW j \in Nat, NEW rune
      PROVE  IsFiniteSet(In(rune, i, j)) /\ Cardinality(In(rune, i, j)) \in Nat
  <2>1. IsFiniteSet(i + 1 .. j)
    BY FS_Interval
  <2>2. IsFiniteSet(In(rune, i, j))
    BY <2>1, FS_Subset
  <2> QED BY <2>2, FS_CardinalityType
<1>2. ASSUME NEW rune
      PROVE  Cardinality(In(rune, a, c)) = Cardinality(In(rune, a, b)) + Cardinality(In(rune, b, c))
  <2> DEFINE S == In(rune, a, b)
             T == In(rune, b, c)
  <2>1. In(rune, a, c) = S \cup T /\ S \cap T = {}
    OBVIOUS
  <2>2. IsFiniteSet(S) /\ IsFiniteSet(T) /\ Cardinality(S) \in Nat /\ Cardinality(T) \in Nat
    BY <1>1
  <2> HIDE DEF S, T
  <2>3. Cardinality(S \cup T) = Cardinality(S) + Cardinality(T) - Cardinality(S \cap T)
    BY <2>2, FS_Union
  <2>4. Cardinality(S \cap T) = 0
    BY <2>1, FS_EmptySet
  <2>5. Cardinality(S \cup T) = Cardinality(S) + Cardinality(T)
    BY <2>2, <2>3, <2>4
  <2> QED BY <2>1, <2>5 DEF S, T
<1>3. /\ \A i, j : BytesIn(i, j) = (j - i) + Cardinality(In("wide", i, j))
      /\ \A i, j : NewlinesIn(i, j) = Cardinality(In("nl", i, j))
  BY DEF BytesIn, NewlinesIn
<1>4. (\A i \in a + 1 .. b : runes[i] # "nl") => NewlinesIn(a, b) = 0
  <2> SUFFICES ASSUME \A i \in a + 1 .. b : runes[i] # "nl" PROVE NewlinesIn(a, b) = 0
    OBVIOUS
  <2>1. In("nl", a, b) = {}
    OBVIOUS
  <2> QED BY <1>3, <2>1, FS_EmptySet
<1>5. BytesIn(a, a) = 0
  <2>1. In("wide", a, a) = {}
    OBVIOUS
  <2>2. Cardinality(In("wide", a, a)) = 0
    BY <2>1, FS_EmptySet
  <2> QED BY <1>3, <2>2
<1> DEFINE wide(i, j) == Cardinality(In("wide", i, j))
           lines(i, j) == Cardinality(In("nl", i, j))
<1> HIDE DEF In
<1>6. /\ wide(a, b) \in Nat /\ wide(b, c) \in Nat /\ wide(a, c) = wide(a, b) + wide(b, c)
      /\ lines(a, b) \in Nat /\ lines(b, c) \in Nat /\ lines(a, c) = lines(a, b) + lines(b, c)
  BY <1>1, <1>2
<1>7. /\ BytesIn(a, b) = (b - a) + wide(a, b) /\ BytesIn(b, c) = (c - b) + wide(b, c)
      /\ BytesIn(a, c) = (c - a) + wide(a, c)
      /\ NewlinesIn(a, b) = lines(a, b) /\ NewlinesIn(b, c) = lines(b, c)
      /\ NewlinesIn(a, c) = lines(a, c)
  BY <1>3
<1> HIDE DEF wide, lines
<1>8. /\ BytesIn(a, b) \in Nat /\ NewlinesIn(a, b) \in Nat
      /\ BytesIn(a, c) = BytesIn(a, b) + BytesIn(b, c)
      /\ NewlinesIn(a, c) = NewlinesIn(a, b) + NewlinesIn(b, c)
      /\ a < b => BytesIn(a, b) > 0
  BY <1>6, <1>7
<1> QED BY <1>4, <1>5, <1>8

LEMMA CountsGrow ==
  ASSUME NEW b \in Nat, NEW c \in Nat, b <= c
  PROVE  /\ BytesIn(0, b) \in Nat /\ BytesIn(0, c) \in Nat
         /\ NewlinesIn(0, b) \in Nat /\ NewlinesIn(0, c) \in Nat
         /\ BytesIn(0, c) = BytesIn(0, b) + BytesIn(b, c)
         /\ NewlinesIn(0, c) = NewlinesIn(0, b) + NewlinesIn(b, c)
         /\ BytesIn(0, b) <= BytesIn(0, c)
         /\ b < c => BytesIn(0, b) < BytesIn(0, c)
         /\ (\A i \in b + 1 .. c : runes[i] # "nl") => NewlinesIn(0, c) = NewlinesIn(0, b)
<1> DEFINE a == 0
<1>1. a \in Nat /\ a <= b /\ a <= c /\ b <= c /\ c <= c
  OBVIOUS
<1> HIDE DEF a
<1>2. /\ BytesIn(a, b) \in Nat /\ NewlinesIn(a, b) \in Nat
      /\ BytesIn(a, c) = BytesIn(a, b) + BytesIn(b, c)
      /\ NewlinesIn(a, c) = NewlinesIn(a, b) + NewlinesIn(b, c)
  BY <1>1, PlacesAddUp
<1>3. /\ BytesIn(b, c) \in Nat /\ NewlinesIn(b, c) \in Nat
      /\ b < c => BytesIn(b, c) > 0
      /\ (\A i \in b + 1 .. c : runes[i] # "nl") => NewlinesIn(b, c) = 0
  BY <1>1, PlacesAddUp
<1>4. BytesIn(a, c) \in Nat /\ NewlinesIn(a, c) \in Nat
  BY <1>2, <1>3
<1>5. BytesIn(a, b) <= BytesIn(a, c) /\ (b < c => BytesIn(a, b) < BytesIn(a, c))
  BY <1>2, <1>3
<1>6. (\A i \in b + 1 .. c : runes[i] # "nl") => NewlinesIn(a, c) = NewlinesIn(a, b)
  BY <1>2, <1>3
<1> QED BY <1>2, <1>4, <1>5, <1>6 DEF a

(* What the proof needs of a language: its markers are not empty, line     *)
(* comments and strings do not begin with a line end, and no end of a      *)
(* string has a newline in it.                                             *)
Marker(m) == Len(m) \in Nat \ {0} /\ DOMAIN m = 1 .. Len(m)

OneLine(m) == Marker(m) /\ \A i \in DOMAIN m : m[i] \notin {"nl", "cr"}

GoodConfig(config) ==
    /\ \A markers \in {config.line, config.multi, config.strings} :
            DOMAIN markers \subseteq 1 .. 2
    /\ \A i \in DOMAIN config.line : OneLine(config.line[i].start)
    /\ \A i \in DOMAIN config.multi : Marker(config.multi[i].start) /\ Marker(config.multi[i].end)
    /\ \A i \in DOMAIN config.strings :
            /\ OneLine(config.strings[i].start) /\ OneLine(config.strings[i].end)
            /\ config.strings[i].escape \in {"char", "double"}
            /\ OneLine(<<"bs">> \o config.strings[i].end)
            /\ OneLine(config.strings[i].end \o config.strings[i].end)

LEMMA GoodStrings ==
  ASSUME NEW quote \in {"dq", "sq"}, NEW escape \in {"char", "double"}
  PROVE  LET s == String(quote, escape)
         IN  /\ OneLine(s.start) /\ OneLine(s.end) /\ s.escape \in {"char", "double"}
             /\ OneLine(<<"bs">> \o s.end) /\ OneLine(s.end \o s.end)
<1> DEFINE s == String(quote, escape)
<1>1. s.start = <<quote>> /\ s.end = <<quote>> /\ s.escape = escape
  BY DEF String
<1>2. quote \notin {"nl", "cr"} /\ "bs" \notin {"nl", "cr"}
  OBVIOUS
<1>3. OneLine(<<quote>>)
  BY <1>2 DEF OneLine, Marker
<1>5. ASSUME NEW x, x \notin {"nl", "cr"}, NEW y, y \notin {"nl", "cr"}
      PROVE  OneLine(<<x>> \o <<y>>)
  <2> DEFINE S == {x, y}
             t == <<x>>
             u == <<y>>
  <2>1. /\ t \in Seq(S) /\ Len(t) = 1 /\ t[1] = x
        /\ u \in Seq(S) /\ Len(u) = 1 /\ u[1] = y
    OBVIOUS
  <2> HIDE DEF t, u, S
  <2> DEFINE both == t \o u
  <2>0. t \in Seq(S) /\ u \in Seq(S)
    BY <2>1
  <2>2. both \in Seq(S) /\ Len(both) = Len(t) + Len(u)
    BY <2>0
  <2> HIDE DEF both
  <2>3. /\ Len(both) = 2 /\ DOMAIN both = 1 .. 2
        /\ \A i \in DOMAIN both : both[i] \in S
    BY <2>1, <2>2
  <2>4. OneLine(both)
    BY <1>5, <2>3 DEF OneLine, Marker, S
  <2> QED BY <2>4 DEF both, t, u
<1> HIDE DEF s
<1>6. OneLine(<<"bs">> \o <<quote>>) /\ OneLine(<<quote>> \o <<quote>>)
  BY <1>2, <1>5
<1>7. OneLine(s.start) /\ OneLine(s.end) /\ s.escape \in {"char", "double"}
      /\ OneLine(<<"bs">> \o s.end) /\ OneLine(s.end \o s.end)
  BY Zenon, <1>1, <1>3, <1>6
<1> QED BY <1>7 DEF s

LEMMA ConfigIs ==
  ASSUME NEW l \in DOMAIN LanguagesConfig
  PROVE  GoodConfig(LanguagesConfig[l])
<1> DEFINE c == LanguagesConfig[l]
<1>1. l \in {"Rust", "SQL", "OCaml", "Perl", "Python", "VimScript", "IgnoreList"}
  BY DEF LanguagesConfig
<1>2. \A quote \in {"dq", "sq"}, escape \in {"char", "double"} :
        LET s == String(quote, escape)
        IN  /\ OneLine(s.start) /\ OneLine(s.end) /\ s.escape \in {"char", "double"}
            /\ OneLine(<<"bs">> \o s.end) /\ OneLine(s.end \o s.end)
  BY GoodStrings
<1> DEFINE GoodString(s) ==
             /\ OneLine(s.start) /\ OneLine(s.end) /\ s.escape \in {"char", "double"}
             /\ OneLine(<<"bs">> \o s.end) /\ OneLine(s.end \o s.end)
           GoodMulti(m) == Marker(m.start) /\ Marker(m.end)
<1>3. GoodString(String("dq", "char")) /\ GoodString(String("sq", "char"))
      /\ GoodString(String("dq", "double")) /\ GoodString(String("sq", "double"))
  BY <1>2
<1> HIDE DEF GoodString
<1>4. /\ DOMAIN CStrings \subseteq 1 .. 2 /\ \A i \in DOMAIN CStrings : GoodString(CStrings[i])
      /\ DOMAIN DoubledStrings \subseteq 1 .. 2
      /\ \A i \in DOMAIN DoubledStrings : GoodString(DoubledStrings[i])
  BY <1>3 DEF CStrings, DoubledStrings
<1>5. ASSUME NEW x, NEW at PROVE LineComment(x, at).start = x
  BY DEF LineComment
<1>6. ASSUME NEW x, NEW y PROVE Multiline(x, y).start = x /\ Multiline(x, y).end = y
  BY DEF Multiline
<1>7. /\ OneLine(<<"/", "/">>) /\ OneLine(<<"-", "-">>) /\ OneLine(<<"#">>) /\ OneLine(<<"dq">>)
  BY DEF OneLine, Marker
<1>8. /\ Marker(<<"/", "*">>) /\ Marker(<<"*", "/">>) /\ Marker(<<"(", "*">>) /\ Marker(<<"*", ")">>)
      /\ Marker(<<"=">>) /\ Marker(<<"=", "c", "u", "t">>) /\ Marker(<<"dq", "dq", "dq">>)
  BY DEF Marker
<1> HIDE DEF c
<1>9. ASSUME NEW m, NEW P
      PROVE  /\ DOMAIN <<m>> \subseteq 1 .. 2 /\ \A i \in DOMAIN <<m>> : <<m>>[i] = m
             /\ DOMAIN <<>> \subseteq 1 .. 2 /\ \A i \in DOMAIN <<>> : P
  OBVIOUS
<1>10. /\ DOMAIN CBlockComments \subseteq 1 .. 2
       /\ \A i \in DOMAIN CBlockComments : GoodMulti(CBlockComments[i])
  BY <1>6, <1>8, <1>9 DEF CBlockComments
<1> DEFINE GoodLines(s) == DOMAIN s \subseteq 1 .. 2 /\ \A i \in DOMAIN s : OneLine(s[i].start)
           GoodMultis(s) == DOMAIN s \subseteq 1 .. 2 /\ \A i \in DOMAIN s : GoodMulti(s[i])
           AllGood(s) == DOMAIN s \subseteq 1 .. 2 /\ \A i \in DOMAIN s : GoodString(s[i])
<1>11. GoodLines(<<>>) /\ GoodMultis(<<>>) /\ AllGood(<<>>)
  OBVIOUS
<1>12. ASSUME NEW x, OneLine(x), NEW at PROVE GoodLines(<<LineComment(x, at)>>)
  BY <1>5, <1>9, <1>12
<1>13. ASSUME NEW m, GoodMulti(m) PROVE GoodMultis(<<m>>)
  BY <1>9, <1>13
<1>14. AllGood(CStrings) /\ AllGood(DoubledStrings) /\ AllGood(<<String("dq", "char")>>)
       /\ GoodMultis(CBlockComments)
  BY <1>3, <1>4, <1>9, <1>10
<1> SUFFICES GoodLines(c.line) /\ GoodMultis(c.multi) /\ AllGood(c.strings)
  BY DEF c, GoodConfig, GoodString
<1> HIDE DEF GoodLines, GoodMultis, AllGood, GoodMulti
<1>15. CASE l = "Rust"
  <2>1. /\ c.line = <<LineComment(<<"/", "/">>, FALSE)>> /\ c.multi = CBlockComments
        /\ c.strings = <<String("dq", "char")>>
    BY <1>15 DEF c, LanguagesConfig
  <2> QED BY <1>7, <1>12, <1>14, <2>1
<1>16. CASE l = "SQL"
  <2>1. /\ c.line = <<LineComment(<<"-", "-">>, FALSE)>> /\ c.multi = CBlockComments
        /\ c.strings = DoubledStrings
    BY <1>16 DEF c, LanguagesConfig
  <2> QED BY <1>7, <1>12, <1>14, <2>1
<1>17. CASE l = "OCaml"
  <2> DEFINE m == [Multiline(<<"(", "*">>, <<"*", ")">>) EXCEPT !.nested = TRUE]
  <2>1. c.line = <<>> /\ c.multi = <<m>> /\ c.strings = CStrings
    BY <1>17 DEF c, LanguagesConfig
  <2>2. m.start = <<"(", "*">> /\ m.end = <<"*", ")">>
    BY DEF Multiline
  <2> HIDE DEF m
  <2>3. GoodMulti(m)
    BY <1>8, <2>2 DEF GoodMulti
  <2> QED BY <1>11, <1>13, <1>14, <2>1, <2>3
<1>18. CASE l = "Perl"
  <2> DEFINE m == [Multiline(<<"=">>, <<"=", "c", "u", "t">>) EXCEPT !.atFirstColumn = TRUE]
  <2>1. c.line = <<LineComment(<<"#">>, FALSE)>> /\ c.multi = <<m>> /\ c.strings = CStrings
    BY <1>18 DEF c, LanguagesConfig
  <2>2. m.start = <<"=">> /\ m.end = <<"=", "c", "u", "t">>
    BY DEF Multiline
  <2> HIDE DEF m
  <2>3. GoodMulti(m)
    BY <1>8, <2>2 DEF GoodMulti
  <2> QED BY <1>7, <1>12, <1>13, <1>14, <2>1, <2>3
<1>19. CASE l = "Python"
  <2> DEFINE m == Multiline(<<"dq", "dq", "dq">>, <<"dq", "dq", "dq">>)
  <2>1. c.line = <<LineComment(<<"#">>, FALSE)>> /\ c.multi = <<m>> /\ c.strings = CStrings
    BY <1>19 DEF c, LanguagesConfig
  <2>2. m.start = <<"dq", "dq", "dq">> /\ m.end = <<"dq", "dq", "dq">>
    BY <1>6
  <2> HIDE DEF m
  <2>3. GoodMulti(m)
    BY <1>8, <2>2 DEF GoodMulti
  <2> QED BY <1>7, <1>12, <1>13, <1>14, <2>1, <2>3
<1>20. CASE l = "VimScript"
  <2>1. c.line = <<LineComment(<<"dq">>, FALSE)>> /\ c.multi = <<>> /\ c.strings = CStrings
    BY <1>20 DEF c, LanguagesConfig
  <2> QED BY <1>7, <1>11, <1>12, <1>14, <2>1
<1>21. CASE l = "IgnoreList"
  <2>1. c.line = <<LineComment(<<"#">>, TRUE)>> /\ c.multi = <<>> /\ c.strings = <<>>
    BY <1>21 DEF c, LanguagesConfig
  <2> QED BY <1>7, <1>11, <1>12, <2>1
<1> QED BY <1>1, <1>15, <1>16, <1>17, <1>18, <1>19, <1>20, <1>21

-----------------------------------------------------------------------------
Modes == {"typing", "code", "string", "line", "lineOrString", "multi", "end"}

Fields == {"in", "at", "bytes", "line", "atFirstColumn", "atLineStart", "index", "depth",
           "start", "startLine"}

(* The scanner counts the bytes and the newlines that it has read. *)
OnPlace(s) ==
    /\ DOMAIN s = Fields
    /\ s.at \in 0 .. Len(runes)
    /\ s.bytes = BytesIn(0, s.at)
    /\ s.line = 1 + NewlinesIn(0, s.at)

(* Where the comment began that the scanner is in: on its line, unless it  *)
(* is of several lines, and behind the comments that were found.           *)
Started(s, n) ==
    /\ n \in 0 .. s.at
    /\ s.start = BytesIn(0, n) /\ s.startLine = 1 + NewlinesIn(0, n)
    /\ s.in # "multi" => \A i \in n + 1 .. s.at : runes[i] # "nl"
    /\ s.in = "lineOrString" => n < s.at
    /\ s.in = "line" /\ n = s.at => n < Len(runes) /\ runes[n + 1] \notin {"nl", "cr"}
    /\ \A k \in DOMAIN found : found[k].end <= s.start

InComment(s) == s.in \in {"line", "lineOrString", "multi"}

StartInv(s) ==
    /\ InComment(s) => \E n \in 0 .. Len(runes) : Started(s, n)
    /\ s.in \in {"string", "lineOrString"} => s.index \in DOMAIN Config.strings
    /\ s.in = "multi" => s.index \in DOMAIN Config.multi

FoundInv ==
    /\ found \in Seq([start : Nat, end : Nat, line : Nat])
    /\ \A k \in DOMAIN found : found[k].end <= scan.bytes
    /\ \A j, k \in DOMAIN found : j < k => found[j].end <= found[k].start
    /\ \A k \in DOMAIN found :
            /\ found[k].start < found[k].end
            /\ \E n \in 0 .. Len(runes) :
                    found[k].start = BytesIn(0, n) /\ found[k].line = 1 + NewlinesIn(0, n)

ScanInv ==
    /\ lang \in DOMAIN Pieces
    /\ runes \in Seq(STRING)
    /\ scan.in \in Modes
    /\ OnPlace(scan)
    /\ scan.in = "typing" => scan.at = 0 /\ found = <<>>
    /\ StartInv(scan)
    /\ FoundInv

LEMMA CountsAre ==
  ASSUME runes \in Seq(STRING), NEW s, OnPlace(s)
  PROVE  /\ s.at \in Nat /\ s.bytes \in Nat /\ s.line \in Nat /\ Len(runes) \in Nat
         /\ s.at <= Len(runes)
<1>1. Len(runes) \in Nat
  OBVIOUS
<1>2. s.at \in Nat /\ s.at <= Len(runes)
  BY <1>1 DEF OnPlace
<1>3. BytesIn(0, s.at) \in Nat /\ NewlinesIn(0, s.at) \in Nat
  <2>1. s.at <= s.at
    BY <1>2
  <2> QED BY <1>2, <2>1, CountsGrow
<1> QED BY <1>1, <1>2, <1>3 DEF OnPlace

LEMMA AdvanceIs ==
  ASSUME runes \in Seq(STRING), NEW s, OnPlace(s), NEW n \in Nat, s.at + n <= Len(runes)
  PROVE  LET t == Advance(s, n)
         IN  /\ OnPlace(t) /\ t.at = s.at + n /\ t.in = s.in /\ t.index = s.index
             /\ t.start = s.start /\ t.startLine = s.startLine
<1> DEFINE t == Advance(s, n)
           to == s.at + n
<1>1. s.at \in Nat /\ to \in Nat /\ to <= Len(runes) /\ s.at <= to /\ Len(runes) \in Nat
  BY CountsAre
<1>2. DOMAIN s = Fields
  BY DEF OnPlace
<1>3. /\ DOMAIN t = Fields /\ t.at = to
      /\ t.bytes = s.bytes + BytesIn(s.at, to) /\ t.line = s.line + NewlinesIn(s.at, to)
      /\ t.in = s.in /\ t.index = s.index /\ t.start = s.start /\ t.startLine = s.startLine
  BY <1>2 DEF Advance, Fields
<1>4. /\ BytesIn(0, to) = BytesIn(0, s.at) + BytesIn(s.at, to)
      /\ NewlinesIn(0, to) = NewlinesIn(0, s.at) + NewlinesIn(s.at, to)
      /\ NewlinesIn(0, s.at) \in Nat /\ NewlinesIn(s.at, to) \in Nat
  <2> DEFINE at == s.at
  <2>1. at \in Nat /\ to \in Nat /\ at <= to
    BY <1>1
  <2> HIDE DEF t, to, at
  <2>2. /\ BytesIn(0, to) = BytesIn(0, at) + BytesIn(at, to)
        /\ NewlinesIn(0, to) = NewlinesIn(0, at) + NewlinesIn(at, to)
        /\ NewlinesIn(0, at) \in Nat
    BY <2>1, CountsGrow
  <2>3. NewlinesIn(at, to) \in Nat
    <3>1. to <= to
      BY <2>1
    <3> QED BY <2>1, <3>1, PlacesAddUp
  <2> QED BY <2>2, <2>3 DEF at
<1> HIDE DEF t, to
<1>5. t.bytes = BytesIn(0, to) /\ t.line = 1 + NewlinesIn(0, to)
  BY <1>3, <1>4 DEF OnPlace
<1>6. OnPlace(t)
  BY <1>1, <1>3, <1>5 DEF OnPlace
<1> QED BY <1>3, <1>6 DEF t, to

(* A rune further on, or the end. *)
LEMMA NextRuneIs ==
  ASSUME ScanInv, NEW s, OnPlace(s)
  PROVE  LET t == NextRune(s)
         IN  \/ t.in = "end" /\ OnPlace(t) /\ t.at = scan.at
             \/ /\ s.at < Len(runes)
                /\ OnPlace(t) /\ t.at = s.at + 1 /\ t.in = s.in /\ t.index = s.index
                /\ t.start = s.start /\ t.startLine = s.startLine
<1>1. runes \in Seq(STRING) /\ OnPlace(scan)
  BY DEF ScanInv
<1>2. CASE s.at < Len(runes)
  <2>1. s.at \in Nat /\ Len(runes) \in Nat /\ s.at + 1 <= Len(runes)
    BY <1>1, <1>2, CountsAre
  <2>2. NextRune(s) = Advance(s, 1)
    BY <1>2 DEF NextRune
  <2> QED BY <1>1, <1>2, <2>1, <2>2, AdvanceIs
<1>3. CASE ~(s.at < Len(runes))
  <2>1. NextRune(s) = Stopped
    BY <1>3 DEF NextRune
  <2>2. DOMAIN scan = Fields
    BY <1>1 DEF OnPlace
  <2>3. Stopped.in = "end" /\ DOMAIN Stopped = Fields /\ Stopped.at = scan.at
        /\ Stopped.bytes = scan.bytes /\ Stopped.line = scan.line
    BY <2>2 DEF Stopped, Fields
  <2> QED BY <1>1, <2>1, <2>3 DEF OnPlace
<1> QED BY <1>2, <1>3

LEMMA StoppedIs ==
  ASSUME ScanInv
  PROVE  Stopped.in = "end" /\ OnPlace(Stopped) /\ Stopped.at = scan.at
<1>1. OnPlace(scan) /\ DOMAIN scan = Fields
  BY DEF ScanInv, OnPlace
<1>2. Stopped.in = "end" /\ DOMAIN Stopped = Fields /\ Stopped.at = scan.at
      /\ Stopped.bytes = scan.bytes /\ Stopped.line = scan.line
  BY <1>1 DEF Stopped, Fields
<1> QED BY <1>1, <1>2 DEF OnPlace

(* A marker that was seen ahead can be read. *)
LEMMA MarkerRead ==
  ASSUME ScanInv, NEW m, Marker(m), PeekEqual(m)
  PROVE  /\ scan.at + Len(m) <= Len(runes)
         /\ \A i \in scan.at + 1 .. scan.at + Len(m) : runes[i] = m[i - scan.at]
         /\ OneLine(m) => \A i \in scan.at + 1 .. scan.at + Len(m) : runes[i] # "nl"
<1>1. scan.at \in Nat /\ Len(runes) \in Nat /\ Len(m) \in Nat /\ DOMAIN m = 1 .. Len(m)
  BY CountsAre DEF ScanInv, Marker
<1>2. scan.at + Len(m) <= Len(runes)
  BY <1>1 DEF PeekEqual, AtEnd, Reads
<1>3. ASSUME NEW i \in scan.at + 1 .. scan.at + Len(m)
      PROVE  i - scan.at \in DOMAIN m /\ runes[i] = m[i - scan.at]
  <2>1. i - scan.at \in DOMAIN m /\ scan.at + (i - scan.at) = i
    BY <1>1
  <2> QED BY <2>1 DEF PeekEqual, Reads
<1>4. OneLine(m) => \A i \in scan.at + 1 .. scan.at + Len(m) : runes[i] # "nl"
  BY <1>3 DEF OneLine
<1> QED BY <1>2, <1>3, <1>4

(* What FirstMatch finds is ahead. *)
LEMMA FirstMatchIs ==
  ASSUME NEW markers, DOMAIN markers \subseteq 1 .. 2, NEW allowed \in SUBSET DOMAIN markers,
         FirstMatch(markers, allowed) \notin {0, EOF}
  PROVE  LET i == FirstMatch(markers, allowed)
         IN  i \in DOMAIN markers /\ PeekEqual(markers[i].start)
<1> DEFINE hits == {i \in allowed : PeekEqual(markers[i].start)}
           short == {i \in DOMAIN markers : AtEnd(markers[i].start)}
           S == hits \cup short
<1>1. S \subseteq 1 .. 2 /\ S \in SUBSET Int
  OBVIOUS
<1>2. IsFiniteSet(S)
  <2>1. 1 \in Int /\ 2 \in Int
    OBVIOUS
  <2>2. IsFiniteSet(1 .. 2)
    BY <2>1, FS_Interval
  <2> HIDE DEF S
  <2> QED BY <1>1, <2>2, FS_Subset
<1>3. FirstMatch(markers, allowed) = IF S = {} THEN 0 ELSE IF Min(S) \in short THEN EOF ELSE Min(S)
  BY DEF FirstMatch
<1>4. S # {} => Min(S) \in S
  <2> HIDE DEF S
  <2> QED BY <1>1, <1>2, MinOf
<1>5. FirstMatch(markers, allowed) = Min(S) /\ Min(S) \in hits
  <2> HIDE DEF short, hits
  <2> QED BY <1>3, <1>4
<1> QED BY <1>5

(* A language has good markers. *)
LEMMA ConfigGood ==
  ASSUME ScanInv
  PROVE  GoodConfig(Config)
BY ConfigIs, PiecesAssumption DEF ScanInv, Config

(* A step that finds nothing. *)
LEMMA QuietStep ==
  ASSUME ScanInv, UNCHANGED <<lang, runes, found>>,
         NEW t, scan' = t, OnPlace(t), t.at >= scan.at, t.in \in Modes \ {"typing"}, StartInv(t)
  PROVE  ScanInv'
<1>1. OnPlace(scan)' /\ StartInv(scan)' /\ (scan.in \in Modes /\ scan.in # "typing")'
  BY DEF OnPlace, BytesIn, NewlinesIn, StartInv, Started, InComment, Config
<1>2. scan.bytes <= t.bytes /\ scan.bytes \in Nat /\ t.bytes \in Nat
  <2>1. runes \in Seq(STRING) /\ OnPlace(scan)
    BY DEF ScanInv
  <2>2. /\ scan.at \in Nat /\ t.at \in Nat /\ scan.bytes \in Nat /\ t.bytes \in Nat
        /\ scan.bytes = BytesIn(0, scan.at) /\ t.bytes = BytesIn(0, t.at)
    BY <2>1, CountsAre DEF OnPlace
  <2> DEFINE from == scan.at
             to == t.at
  <2>3. from \in Nat /\ to \in Nat /\ from <= to
    BY <2>2
  <2> HIDE DEF from, to
  <2>4. BytesIn(0, from) <= BytesIn(0, to)
    BY <2>3, CountsGrow
  <2> QED BY <2>2, <2>4 DEF from, to
<1>3. FoundInv'
  <2>1. \A k \in DOMAIN found : found[k].end \in Nat
    <3> DEFINE Records == [start : Nat, end : Nat, line : Nat]
    <3>1. \A r \in Records : r.end \in Nat
      OBVIOUS
    <3>2. found \in Seq(Records)
      BY DEF ScanInv, FoundInv
    <3> HIDE DEF Records
    <3>3. \A k \in DOMAIN found : found[k] \in Records
      BY <3>2
    <3> QED BY <3>1, <3>3
  <2>2. \A k \in DOMAIN found : found[k].end <= t.bytes
    BY SMTT(30), <1>2, <2>1 DEF ScanInv, FoundInv
  <2>3. /\ found \in Seq([start : Nat, end : Nat, line : Nat])
        /\ \A j, k \in DOMAIN found : j < k => found[j].end <= found[k].start
        /\ \A k \in DOMAIN found :
            /\ found[k].start < found[k].end
            /\ \E n \in 0 .. Len(runes) :
                    found[k].start = BytesIn(0, n) /\ found[k].line = 1 + NewlinesIn(0, n)
    BY DEF ScanInv, FoundInv
  <2>4. \A n : BytesIn(0, n)' = BytesIn(0, n) /\ NewlinesIn(0, n)' = NewlinesIn(0, n)
    BY DEF BytesIn, NewlinesIn
  <2> QED BY <2>2, <2>3, <2>4 DEF FoundInv
<1> QED BY <1>1, <1>3 DEF ScanInv

(* A step that finds the comment that it is in. *)
LEMMA FoundStep ==
  ASSUME ScanInv, UNCHANGED <<lang, runes>>, InComment(scan),
         NEW t, OnPlace(t), t.at >= scan.at, scan' = [t EXCEPT !.in = "code"],
         NEW line, found' = Append(found, [start |-> scan.start, end |-> t.bytes, line |-> line]),
         NEW n \in 0 .. Len(runes), Started(scan, n), n < t.at, line = scan.startLine
  PROVE  ScanInv'
<1> DEFINE new == [start |-> scan.start, end |-> t.bytes, line |-> line]
           Records == [start : Nat, end : Nat, line : Nat]
<1>1. runes \in Seq(STRING) /\ OnPlace(scan)
  BY DEF ScanInv
<1>2. /\ t.at \in Nat /\ t.bytes \in Nat /\ n \in Nat /\ Len(runes) \in Nat
      /\ t.bytes = BytesIn(0, t.at) /\ scan.start = BytesIn(0, n) /\ line = 1 + NewlinesIn(0, n)
  BY SMTT(30), <1>1, CountsAre DEF OnPlace, Started
<1>3. scan.start \in Nat /\ line \in Nat /\ scan.start < t.bytes
  <2> DEFINE to == t.at
  <2>1. n \in Nat /\ to \in Nat /\ n <= to /\ n < to
    BY <1>2
  <2> HIDE DEF to
  <2>2. /\ BytesIn(0, n) \in Nat /\ NewlinesIn(0, n) \in Nat
        /\ BytesIn(0, n) < BytesIn(0, to)
    BY <2>1, CountsGrow
  <2> QED BY <1>2, <2>2 DEF to
<1>4. new \in Records /\ new.start = scan.start /\ new.end = t.bytes /\ new.line = line
  BY <1>2, <1>3
<1>5. scan'.in = "code" /\ DOMAIN scan' = Fields /\ scan'.at = t.at /\ scan'.bytes = t.bytes
      /\ scan'.line = t.line
  <2>1. DOMAIN t = Fields
    BY DEF OnPlace
  <2> QED BY <2>1 DEF Fields
<1>6. \A i : BytesIn(0, i)' = BytesIn(0, i) /\ NewlinesIn(0, i)' = NewlinesIn(0, i)
  BY DEF BytesIn, NewlinesIn
<1>7. OnPlace(scan)' /\ StartInv(scan)' /\ (scan.in \in Modes /\ scan.in # "typing")'
  BY <1>5, <1>6 DEF OnPlace, StartInv, InComment, Modes
<1>8. /\ found \in Seq(Records) /\ DOMAIN found = 1 .. Len(found) /\ Len(found) \in Nat
      /\ \A k \in DOMAIN found : found[k].end <= scan.start
      /\ \A j, k \in DOMAIN found : j < k => found[j].end <= found[k].start
  BY DEF ScanInv, FoundInv, Started
<1> HIDE DEF new
<1>9. /\ found' \in Seq(Records) /\ DOMAIN found' = 1 .. Len(found) + 1
      /\ found'[Len(found) + 1] = new
      /\ \A k \in DOMAIN found : found'[k] = found[k]
  <2>1. found' = Append(found, new)
    BY DEF new
  <2> HIDE DEF Records
  <2> QED BY <1>4, <1>8, <2>1
<1>10. \A k \in DOMAIN found : found[k].end \in Nat
  <2>1. \A r \in Records : r.end \in Nat
    OBVIOUS
  <2> HIDE DEF Records
  <2>3. \A k \in DOMAIN found : found[k] \in Records
    BY <1>8
  <2> QED BY <2>1, <2>3
<1>11. \A k \in DOMAIN found' : k \in DOMAIN found \/ k = Len(found) + 1
  <2> DEFINE size == Len(found)
             old == DOMAIN found
             all == DOMAIN found'
  <2>1. old = 1 .. size /\ all = 1 .. size + 1 /\ size \in Nat
    BY <1>8, <1>9
  <2> HIDE DEF size, old, all
  <2>2. \A k \in all : k \in old \/ k = size + 1
    BY <2>1
  <2> QED BY <2>2 DEF size, old, all
<1>12. ASSUME NEW k \in DOMAIN found'
       PROVE  /\ found'[k].end <= t.bytes /\ found'[k].start < found'[k].end
              /\ \E i \in 0 .. Len(runes) :
                    found'[k].start = BytesIn(0, i) /\ found'[k].line = 1 + NewlinesIn(0, i)
  <2>1. CASE k \in DOMAIN found
    <3>1. found'[k] = found[k] /\ found[k].end <= scan.start /\ found[k].end \in Nat
      BY <1>8, <1>9, <1>10, <2>1
    <3>2. found[k].end <= t.bytes
      BY <1>2, <1>3, <3>1
    <3>3. /\ found[k].start < found[k].end
          /\ \E i \in 0 .. Len(runes) :
                found[k].start = BytesIn(0, i) /\ found[k].line = 1 + NewlinesIn(0, i)
      BY <2>1 DEF ScanInv, FoundInv
    <3> QED BY <3>1, <3>2, <3>3
  <2>2. CASE k = Len(found) + 1
    <3>1. found'[k].start = scan.start /\ found'[k].end = t.bytes /\ found'[k].line = line
      BY <1>4, <1>9, <2>2
    <3> QED BY <1>2, <1>3, <3>1
  <2> QED BY <1>11, <2>1, <2>2
<1>13. ASSUME NEW j \in DOMAIN found', NEW k \in DOMAIN found', j < k
       PROVE  found'[j].end <= found'[k].start
  <2>1. j \in DOMAIN found
    BY <1>8, <1>9, <1>11, <1>13
  <2>2. CASE k \in DOMAIN found
    BY <1>8, <1>9, <1>13, <2>1, <2>2
  <2>3. CASE k = Len(found) + 1
    BY <1>4, <1>8, <1>9, <2>1, <2>3
  <2> QED BY <1>11, <2>2, <2>3
<1>14. FoundInv'
  <2>1. scan'.bytes = t.bytes /\ Len(runes)' = Len(runes)
    BY <1>5
  <2>2. found' \in Seq([start : Nat, end : Nat, line : Nat])
    BY <1>9
  <2>3. \A k \in DOMAIN found' :
            /\ found'[k].start < found'[k].end
            /\ \E i \in 0 .. Len(runes) :
                    found'[k].start = BytesIn(0, i)' /\ found'[k].line = 1 + NewlinesIn(0, i)'
    BY <1>6, <1>12
  <2>4. \A k \in DOMAIN found' : found'[k].end <= scan'.bytes
    BY <1>12, <2>1
  <2> HIDE DEF Records
  <2> QED BY <1>13, <2>1, <2>2, <2>3, <2>4 DEF FoundInv
<1> QED BY <1>5, <1>7, <1>14 DEF ScanInv

-----------------------------------------------------------------------------
(* The scanner's steps.                                                    *)

LEMMA ScannerInitInv == ScannerInit => ScanInv
<1> SUFFICES ASSUME ScannerInit PROVE ScanInv
  OBVIOUS
<1>1. /\ scan.in = "typing" /\ scan.at = 0 /\ scan.bytes = 0 /\ scan.line = 1
      /\ DOMAIN scan = Fields
  BY DEF ScannerInit, Fields
<1>2. runes = <<>> /\ found = <<>> /\ lang \in DOMAIN Pieces
  BY DEF ScannerInit
<1>3. Len(runes) = 0 /\ runes \in Seq(STRING)
  BY <1>2
<1>4. BytesIn(0, 0) = 0 /\ NewlinesIn(0, 0) = 0
  <2>1. 0 \in Nat /\ 0 <= 0 /\ \A i \in 0 + 1 .. 0 : runes[i] # "nl"
    OBVIOUS
  <2> QED BY <2>1, PlacesAddUp
<1>5. OnPlace(scan)
  BY <1>1, <1>3, <1>4 DEF OnPlace
<1>6. StartInv(scan)
  BY <1>1 DEF StartInv, InComment
<1>7. FoundInv
  BY <1>2 DEF FoundInv
<1> QED BY <1>1, <1>2, <1>3, <1>5, <1>6, <1>7 DEF ScanInv, Modes

(* What is typed is behind where the scanner is. *)
LEMMA TypePieceInv ==
  ASSUME ScanInv, NEW piece \in Pieces[lang], TypePiece(piece)
  PROVE  ScanInv'
<1>1. /\ scan.in = "typing" /\ UNCHANGED <<lang, scan, found>> /\ runes' = runes \o piece.text
  BY DEF TypePiece
<1>2. scan.at = 0 /\ found = <<>> /\ runes \in Seq(STRING) /\ lang \in DOMAIN Pieces
  BY <1>1 DEF ScanInv
<1>3. piece.text \in Seq(STRING)
  BY <1>2, PiecesAssumption
<1>4. runes' \in Seq(STRING)
  BY <1>1, <1>2, <1>3
<1>5. /\ DOMAIN scan = Fields /\ scan.bytes = BytesIn(0, 0) /\ scan.line = 1 + NewlinesIn(0, 0)
  BY <1>2 DEF ScanInv, OnPlace
<1>6. BytesIn(0, 0)' = BytesIn(0, 0) /\ NewlinesIn(0, 0)' = NewlinesIn(0, 0)
  <2>1. \A rune : {i \in 0 + 1 .. 0 : runes[i] = rune} = {} /\ {i \in 0 + 1 .. 0 : runes'[i] = rune} = {}
    OBVIOUS
  <2> QED BY <2>1 DEF BytesIn, NewlinesIn
<1>7. OnPlace(scan)'
  <2>1. 0 \in 0 .. Len(runes')
    BY <1>4
  <2> QED BY <1>1, <1>2, <1>5, <1>6, <2>1 DEF OnPlace
<1>8. StartInv(scan)'
  BY <1>1 DEF StartInv, InComment
<1>9. FoundInv'
  BY <1>1, <1>2 DEF FoundInv
<1> QED BY <1>1, <1>2, <1>4, <1>7, <1>8, <1>9 DEF ScanInv

LEMMA BeginInv ==
  ASSUME ScanInv, Begin
  PROVE  ScanInv'
<1> DEFINE t == [scan EXCEPT !.in = "code"]
<1>1. scan' = t /\ UNCHANGED <<lang, runes, found>>
  BY DEF Begin
<1>2. OnPlace(scan) /\ DOMAIN scan = Fields
  BY DEF ScanInv, OnPlace
<1>3. /\ t.in = "code" /\ DOMAIN t = Fields /\ t.at = scan.at /\ t.bytes = scan.bytes
      /\ t.line = scan.line
  BY <1>2 DEF Fields
<1>4. scan.at \in Nat
  BY <1>2, CountsAre DEF ScanInv
<1> HIDE DEF t
<1>5. OnPlace(t) /\ t.at >= scan.at /\ t.in \in Modes \ {"typing"} /\ StartInv(t)
  BY <1>2, <1>3, <1>4 DEF OnPlace, Modes, StartInv, InComment
<1> QED BY <1>1, <1>5, QuietStep

(* The scanner stops, or reads on in code or a string that is no comment. *)
LEMMA PlainStep ==
  ASSUME ScanInv, UNCHANGED <<lang, runes, found>>,
         NEW t, scan' = t, OnPlace(t), t.at >= scan.at, t.in \in {"code", "end"}
  PROVE  ScanInv'
<1>1. t.in \in Modes \ {"typing"} /\ StartInv(t)
  BY DEF Modes, StartInv, InComment
<1> QED BY <1>1, QuietStep

LEMMA ScanPlace ==
  ASSUME ScanInv
  PROVE  /\ runes \in Seq(STRING) /\ OnPlace(scan) /\ DOMAIN scan = Fields
         /\ scan.at \in Nat /\ Len(runes) \in Nat /\ scan.at <= Len(runes)
BY CountsAre DEF ScanInv, OnPlace

(* The mode after a rune of code is read. *)
LEMMA ReadOn ==
  ASSUME ScanInv, NEW t, t = NextRune(scan)
  PROVE  /\ OnPlace(t) /\ t.at >= scan.at
         /\ \/ t.in = "end"
            \/ /\ t.in = scan.in /\ t.index = scan.index /\ t.start = scan.start
               /\ t.startLine = scan.startLine /\ t.at = scan.at + 1 /\ scan.at < Len(runes)
<1>1. scan.at \in Nat /\ OnPlace(scan)
  BY ScanPlace
<1>2. \/ t.in = "end" /\ OnPlace(t) /\ t.at = scan.at
      \/ /\ scan.at < Len(runes)
         /\ OnPlace(t) /\ t.at = scan.at + 1 /\ t.in = scan.in /\ t.index = scan.index
         /\ t.start = scan.start /\ t.startLine = scan.startLine
  BY <1>1, NextRuneIs
<1> QED BY <1>1, <1>2

(* A string or a comment starts here. *)
LEMMA EnterIs ==
  ASSUME ScanInv, NEW in, NEW index, NEW n \in Nat, scan.at + n <= Len(runes)
  PROVE  LET t == Enter(in, index, n)
         IN  /\ OnPlace(t) /\ t.at = scan.at + n /\ t.in = in /\ t.index = index
             /\ t.start = scan.bytes /\ t.startLine = scan.line
<1> DEFINE d == DiscardRunes(n)
           t == Enter(in, index, n)
<1>1. OnPlace(d) /\ d.at = scan.at + n
  <2>1. OnPlace(scan) /\ runes \in Seq(STRING)
    BY ScanPlace
  <2>2. d = Advance(scan, n)
    BY DEF DiscardRunes
  <2> HIDE DEF d
  <2> QED BY <2>1, <2>2, AdvanceIs
<1>2. t = [d EXCEPT !.in = in, !.index = index, !.depth = 0,
                    !.start = scan.bytes, !.startLine = scan.line]
  BY DEF Enter
<1>3. DOMAIN d = Fields
  BY <1>1 DEF OnPlace
<1> HIDE DEF d, t
<1>4. /\ DOMAIN t = Fields /\ t.at = d.at /\ t.bytes = d.bytes /\ t.line = d.line
      /\ t.in = in /\ t.index = index /\ t.start = scan.bytes /\ t.startLine = scan.line
  BY <1>2, <1>3 DEF Fields
<1>5. OnPlace(t)
  BY <1>1, <1>4 DEF OnPlace
<1> QED BY <1>1, <1>4, <1>5 DEF t

LEMMA ChoiceIs ==
  ASSUME NEW line \in Nat, NEW multi \in Nat, NEW string \in Nat
  PROVE  Choice(line, multi, string) =
            IF line = 0 /\ multi = 0 /\ string = 0 THEN "code"
            ELSE IF line <= multi /\ string <= multi THEN "multi"
            ELSE IF line = string THEN "lineOrString"
            ELSE IF string < line THEN "line" ELSE "string"
<1>1. ASSUME NEW a \in Nat, NEW b \in Nat
      PROVE  Max({a, b}) = IF a <= b THEN b ELSE a
  BY DEF Max
<1>2. Max({line, multi, string}) = IF line <= multi /\ string <= multi THEN multi
                                   ELSE IF line <= string THEN string ELSE line
  <2> DEFINE m == IF line <= multi /\ string <= multi THEN multi
                  ELSE IF line <= string THEN string ELSE line
  <2>1. m \in {line, multi, string} /\ \A x \in {line, multi, string} : x <= m /\ x \in Nat
    OBVIOUS
  <2>2. \A y \in {line, multi, string} : (\A x \in {line, multi, string} : x <= y) => y = m
    BY <2>1
  <2> HIDE DEF m
  <2>3. Max({line, multi, string}) = m
    BY <2>1, <2>2 DEF Max
  <2> QED BY <2>3 DEF m
<1>3. Max({multi, string}) = IF multi <= string THEN string ELSE multi
  BY <1>1
<1>4. Max({multi, line}) = IF multi <= line THEN line ELSE multi
  BY <1>1
<1> QED BY <1>2, <1>3, <1>4 DEF Choice

LEMMA MatchIs ==
  ASSUME NEW markers, DOMAIN markers \subseteq 1 .. 2, NEW allowed \in SUBSET DOMAIN markers,
         \A i \in DOMAIN markers : Marker(markers[i].start)
  PROVE  LET i == FirstMatch(markers, allowed)
             n == LengthOf(markers, i)
         IN  /\ n \in Nat
             /\ n > 0 => i \in DOMAIN markers /\ PeekEqual(markers[i].start) /\ n = Len(markers[i].start)
<1> DEFINE i == FirstMatch(markers, allowed)
           n == LengthOf(markers, i)
<1>1. CASE i \in {0, EOF}
  <2>1. n = 0
    BY <1>1 DEF LengthOf
  <2> QED BY <2>1
<1>2. CASE i \notin {0, EOF}
  <2>1. i \in DOMAIN markers /\ PeekEqual(markers[i].start)
    BY <1>2, FirstMatchIs
  <2>2. n = Len(markers[i].start)
    BY <1>2 DEF LengthOf
  <2> HIDE DEF i
  <2>3. n \in Nat
    BY <2>1, <2>2 DEF Marker
  <2> QED BY <2>1, <2>2, <2>3 DEF i
<1> QED BY <1>1, <1>2

(* A comment that starts where the scanner is. *)
LEMMA StartsHere ==
  ASSUME ScanInv, NEW t, OnPlace(t), t.at >= scan.at,
         t.start = scan.bytes, t.startLine = scan.line,
         \/ t.in = "multi"
         \/ /\ t.in = "line" /\ t.at = scan.at
            /\ scan.at < Len(runes) /\ runes[scan.at + 1] \notin {"nl", "cr"}
         \/ /\ t.in = "lineOrString" /\ t.at > scan.at
            /\ \A i \in scan.at + 1 .. t.at : runes[i] # "nl"
  PROVE  \E n \in 0 .. Len(runes) : Started(t, n)
<1>1. /\ runes \in Seq(STRING) /\ scan.at \in Nat /\ Len(runes) \in Nat /\ scan.at <= Len(runes)
      /\ scan.bytes = BytesIn(0, scan.at) /\ scan.line = 1 + NewlinesIn(0, scan.at)
  BY ScanPlace DEF OnPlace
<1>2. t.at \in Nat /\ scan.at \in 0 .. t.at /\ scan.at \in 0 .. Len(runes)
  BY <1>1, CountsAre
<1>3. \A k \in DOMAIN found : found[k].end <= t.start
  BY DEF ScanInv, FoundInv
<1>4. t.in # "multi" => \A i \in scan.at + 1 .. t.at : runes[i] # "nl"
  BY <1>1, <1>2
<1>5. t.in = "lineOrString" => scan.at < t.at
  BY <1>1, <1>2
<1>6. t.in = "line" => scan.at < Len(runes) /\ runes[scan.at + 1] \notin {"nl", "cr"}
  OBVIOUS
<1>7. Started(t, scan.at)
  BY <1>1, <1>2, <1>3, <1>4, <1>5, <1>6 DEF Started
<1> QED BY <1>2, <1>7

LEMMA InCodeInv ==
  ASSUME ScanInv, InCode
  PROVE  ScanInv'
<1> DEFINE string == LengthOf(Config.strings, StringMatch)
           multi == LengthOf(Config.multi, MultilineMatch)
           line == LengthOf(Config.line, LineMatch)
           choice == Choice(line, multi, string)
<1>1. /\ scan.in = "code" /\ UNCHANGED <<lang, runes, found>>
      /\ scan' = IF EOF \in {LineMatch, MultilineMatch, StringMatch} THEN Stopped
                 ELSE CASE choice = "code" -> NextRune(scan)
                        [] choice = "multi" -> Enter("multi", MultilineMatch, multi)
                        [] choice = "line" -> Enter("line", LineMatch, 0)
                        [] choice \in {"lineOrString", "string"} ->
                              Enter(choice, StringMatch, string)
  BY DEF InCode
<1>2. scan.at \in Nat /\ Len(runes) \in Nat /\ scan.at <= Len(runes) /\ OnPlace(scan)
  BY ScanPlace
<1>3. /\ DOMAIN Config.line \subseteq 1 .. 2 /\ DOMAIN Config.multi \subseteq 1 .. 2
      /\ DOMAIN Config.strings \subseteq 1 .. 2
      /\ \A i \in DOMAIN Config.line : OneLine(Config.line[i].start) /\ Marker(Config.line[i].start)
      /\ \A i \in DOMAIN Config.multi : Marker(Config.multi[i].start)
      /\ \A i \in DOMAIN Config.strings :
            OneLine(Config.strings[i].start) /\ Marker(Config.strings[i].start)
  BY ConfigGood DEF GoodConfig, OneLine
<1>4. /\ line \in Nat
      /\ line > 0 => LineMatch \in DOMAIN Config.line /\ PeekEqual(Config.line[LineMatch].start)
                        /\ line = Len(Config.line[LineMatch].start)
  BY <1>3, MatchIs DEF LineMatch
<1>5. /\ multi \in Nat
      /\ multi > 0 => MultilineMatch \in DOMAIN Config.multi
                        /\ PeekEqual(Config.multi[MultilineMatch].start)
                        /\ multi = Len(Config.multi[MultilineMatch].start)
  BY <1>3, MatchIs DEF MultilineMatch
<1>6. /\ string \in Nat
      /\ string > 0 => StringMatch \in DOMAIN Config.strings
                        /\ PeekEqual(Config.strings[StringMatch].start)
                        /\ string = Len(Config.strings[StringMatch].start)
  BY <1>3, MatchIs DEF StringMatch
<1> HIDE DEF line, multi, string
<1>7. choice = IF line = 0 /\ multi = 0 /\ string = 0 THEN "code"
               ELSE IF line <= multi /\ string <= multi THEN "multi"
               ELSE IF line = string THEN "lineOrString"
               ELSE IF string < line THEN "line" ELSE "string"
  BY <1>4, <1>5, <1>6, ChoiceIs
<1> HIDE DEF choice
<1>8. CASE EOF \in {LineMatch, MultilineMatch, StringMatch}
  <2>1. scan' = Stopped
    BY <1>1, <1>8
  <2>2. OnPlace(Stopped) /\ Stopped.at >= scan.at /\ Stopped.in = "end"
    BY <1>2, StoppedIs
  <2> QED BY <1>1, <2>1, <2>2, PlainStep
<1>9. CASE EOF \notin {LineMatch, MultilineMatch, StringMatch} /\ choice = "code"
  <2>1. scan' = NextRune(scan)
    BY <1>1, <1>9
  <2> DEFINE t == NextRune(scan)
  <2>2. OnPlace(t) /\ t.at >= scan.at /\ t.in \in {"code", "end"}
    BY <1>1, ReadOn
  <2> HIDE DEF t
  <2> QED BY <1>1, <2>1, <2>2, PlainStep DEF t
<1>10. CASE EOF \notin {LineMatch, MultilineMatch, StringMatch} /\ choice = "multi"
  <2> DEFINE t == Enter("multi", MultilineMatch, multi)
  <2>1. scan' = t
    BY <1>1, <1>10
  <2>2. multi > 0 /\ MultilineMatch \in DOMAIN Config.multi
        /\ PeekEqual(Config.multi[MultilineMatch].start)
        /\ multi = Len(Config.multi[MultilineMatch].start)
    BY <1>4, <1>5, <1>6, <1>7, <1>10
  <2>3. scan.at + multi <= Len(runes)
    BY <1>3, <2>2, MarkerRead
  <2>4. /\ OnPlace(t) /\ t.at = scan.at + multi /\ t.in = "multi" /\ t.index = MultilineMatch
        /\ t.start = scan.bytes /\ t.startLine = scan.line
    BY <1>5, <2>3, EnterIs
  <2> HIDE DEF t
  <2>5. t.at >= scan.at
    BY <1>2, <1>5, <2>4
  <2>6. \E n \in 0 .. Len(runes) : Started(t, n)
    BY <2>4, <2>5, StartsHere
  <2>7. StartInv(t) /\ t.in \in Modes \ {"typing"}
    BY <2>2, <2>4, <2>6 DEF StartInv, Modes
  <2> QED BY <1>1, <2>1, <2>4, <2>5, <2>7, QuietStep
<1>11. CASE EOF \notin {LineMatch, MultilineMatch, StringMatch} /\ choice = "line"
  <2> DEFINE t == Enter("line", LineMatch, 0)
  <2>1. scan' = t
    BY <1>1, <1>11
  <2> DEFINE m == Config.line[LineMatch].start
  <2>2. PeekEqual(m) /\ OneLine(m) /\ Marker(m)
    BY <1>3, <1>4, <1>5, <1>6, <1>7, <1>11
  <2> HIDE DEF m
  <2>3. scan.at < Len(runes) /\ runes[scan.at + 1] \notin {"nl", "cr"}
    <3>1. 1 \in DOMAIN m /\ Len(m) \in Nat \ {0}
      BY <2>2 DEF Marker
    <3>2. runes[scan.at + 1] = m[1]
      BY <2>2, <3>1 DEF PeekEqual, Reads
    <3>3. scan.at + Len(m) <= Len(runes)
      BY <2>2, MarkerRead
    <3> QED BY <1>2, <2>2, <3>1, <3>2, <3>3 DEF OneLine
  <2>4. /\ OnPlace(t) /\ t.at = scan.at /\ t.in = "line"
        /\ t.start = scan.bytes /\ t.startLine = scan.line
    <3>1. 0 \in Nat /\ scan.at + 0 <= Len(runes) /\ scan.at + 0 = scan.at
      BY <1>2
    <3> QED BY <3>1, EnterIs
  <2> HIDE DEF t
  <2>5. t.at >= scan.at
    BY <1>2, <2>4
  <2>6. \E n \in 0 .. Len(runes) : Started(t, n)
    BY <2>3, <2>4, <2>5, StartsHere
  <2>7. StartInv(t) /\ t.in \in Modes \ {"typing"}
    BY <2>4, <2>6 DEF StartInv, Modes
  <2> QED BY <1>1, <2>1, <2>4, <2>5, <2>7, QuietStep
<1>12. CASE EOF \notin {LineMatch, MultilineMatch, StringMatch} /\ choice \in {"lineOrString", "string"}
  <2> DEFINE t == Enter(choice, StringMatch, string)
             m == Config.strings[StringMatch].start
  <2>1. scan' = t
    BY <1>1, <1>12
  <2>2. string > 0
    BY <1>4, <1>5, <1>6, <1>7, <1>12
  <2>3. StringMatch \in DOMAIN Config.strings /\ PeekEqual(m) /\ string = Len(m)
        /\ OneLine(m) /\ Marker(m)
    BY <1>3, <1>6, <2>2
  <2> HIDE DEF m
  <2>4. scan.at + string <= Len(runes) /\ \A i \in scan.at + 1 .. scan.at + string : runes[i] # "nl"
    BY <2>3, MarkerRead
  <2>5. /\ OnPlace(t) /\ t.at = scan.at + string /\ t.in = choice /\ t.index = StringMatch
        /\ t.start = scan.bytes /\ t.startLine = scan.line
    BY <1>6, <2>4, EnterIs
  <2> HIDE DEF t
  <2>6. t.at > scan.at /\ t.at >= scan.at
    BY <1>2, <1>6, <2>2, <2>5
  <2>7. choice = "lineOrString" => \E n \in 0 .. Len(runes) : Started(t, n)
    BY <2>4, <2>5, <2>6, StartsHere
  <2>8. StartInv(t) /\ t.in \in Modes \ {"typing"}
    BY <1>12, <2>3, <2>5, <2>7 DEF StartInv, Modes, InComment
  <2> QED BY <1>1, <2>1, <2>5, <2>6, <2>8, QuietStep
<1> QED BY <1>7, <1>8, <1>9, <1>10, <1>11, <1>12

(* A marker that was seen ahead is discarded. *)
LEMMA DiscardIs ==
  ASSUME ScanInv, NEW m, Marker(m), PeekEqual(m)
  PROVE  LET t == DiscardRunes(Len(m))
         IN  /\ OnPlace(t) /\ t.at = scan.at + Len(m) /\ t.at > scan.at /\ t.at >= scan.at
             /\ t.in = scan.in /\ t.index = scan.index /\ t.start = scan.start
             /\ t.startLine = scan.startLine
<1> DEFINE n == Len(m)
           t == Advance(scan, n)
<1>1. n \in Nat /\ n > 0 /\ scan.at + n <= Len(runes)
  BY MarkerRead DEF Marker
<1>2. runes \in Seq(STRING) /\ OnPlace(scan) /\ scan.at \in Nat
  BY ScanPlace
<1> HIDE DEF n
<1>3. /\ OnPlace(t) /\ t.at = scan.at + n /\ t.in = scan.in /\ t.index = scan.index
      /\ t.start = scan.start /\ t.startLine = scan.startLine
  BY <1>1, <1>2, AdvanceIs
<1> HIDE DEF t
<1>4. t.at > scan.at /\ t.at >= scan.at
  BY <1>1, <1>2, <1>3
<1> QED BY <1>3, <1>4 DEF t, n, DiscardRunes

(* A rune that is not at a line end is no newline. *)
LEMMA NoLineEnd ==
  ASSUME ScanInv, ~IsLineEnd
  PROVE  scan.at < Len(runes) /\ runes[scan.at + 1] # "nl"
<1> DEFINE m == <<"nl">>
<1>1. ~AtEnd(m) /\ ~PeekEqual(m)
  BY DEF IsLineEnd
<1>2. Len(m) = 1 /\ DOMAIN m = {1} /\ m[1] = "nl"
  OBVIOUS
<1> HIDE DEF m
<1>3. scan.at \in Nat /\ Len(runes) \in Nat
  BY ScanPlace
<1>4. scan.at < Len(runes)
  BY <1>1, <1>2, <1>3 DEF AtEnd
<1>5. runes[scan.at + 1] # "nl"
  BY <1>1, <1>2, <1>3, <1>4 DEF PeekEqual, Reads
<1> QED BY <1>4, <1>5

(* At a line end there is nothing left, or the next rune ends a line. *)
LEMMA AtLineEnd ==
  ASSUME ScanInv, IsLineEnd
  PROVE  scan.at < Len(runes) => runes[scan.at + 1] \in {"nl", "cr"}
<1> DEFINE m == <<"nl">>
           c == <<"cr", "nl">>
<1>1. AtEnd(m) \/ PeekEqual(m) \/ PeekEqual(c)
  BY DEF IsLineEnd
<1>2. /\ Len(m) = 1 /\ 1 \in DOMAIN m /\ m[1] = "nl"
      /\ 1 \in DOMAIN c /\ c[1] = "cr"
  OBVIOUS
<1> HIDE DEF m, c
<1>3. scan.at \in Nat /\ Len(runes) \in Nat
  BY ScanPlace
<1>4. CASE AtEnd(m)
  BY <1>2, <1>3, <1>4 DEF AtEnd
<1>5. CASE PeekEqual(m)
  BY <1>2, <1>5 DEF PeekEqual, Reads
<1>6. CASE PeekEqual(c)
  BY <1>2, <1>6 DEF PeekEqual, Reads
<1> QED BY <1>1, <1>4, <1>5, <1>6

(* A turn in a string stays in it, or ends it; it reads no newline unless  *)
(* it was at a line end.                                                   *)
LEMMA StringStepIs ==
  ASSUME ScanInv, NEW k \in DOMAIN Config.strings, NEW t, t = StringStep(Config.strings[k])
  PROVE  /\ OnPlace(t) /\ t.at >= scan.at
         /\ \/ t.in \in {"code", "end"}
            \/ /\ t.in = scan.in /\ t.index = scan.index /\ t.start = scan.start
               /\ t.startLine = scan.startLine
               /\ ~IsLineEnd => \A i \in scan.at + 1 .. t.at : runes[i] # "nl"
<1> DEFINE m == Config.strings[k]
           text == EscapedEnd(m)
<1>1. /\ OneLine(m.end) /\ m.escape \in {"char", "double"}
      /\ OneLine(<<"bs">> \o m.end) /\ OneLine(m.end \o m.end)
  BY ConfigGood DEF GoodConfig
<1> HIDE DEF m
<1>2. scan.at \in Nat /\ OnPlace(scan)
  BY ScanPlace
<1>3. text # <<>> => PeekEqual(text) /\ OneLine(text)
  <2> DEFINE e == CASE m.escape = "char" -> <<"bs">> \o m.end
                    [] m.escape = "double" -> m.end \o m.end
  <2>1. text = IF PeekEqual(e) THEN e ELSE <<>>
    BY DEF EscapedEnd
  <2>2. OneLine(e)
    <3>1. CASE m.escape = "char"
      <4>1. e = <<"bs">> \o m.end
        BY <3>1
      <4> QED BY <1>1, <4>1
    <3>2. CASE m.escape = "double"
      <4>1. e = m.end \o m.end
        BY <3>2
      <4> QED BY <1>1, <4>1
    <3> QED BY <1>1, <3>1, <3>2
  <2> HIDE DEF e, text
  <2> QED BY <2>1, <2>2
<1>4. t = IF text # <<>> THEN DiscardRunes(Len(text))
          ELSE IF AtEnd(m.end) THEN Stopped
          ELSE IF PeekEqual(m.end) THEN [DiscardRunes(Len(m.end)) EXCEPT !.in = "code"]
          ELSE NextRune(scan)
  BY DEF StringStep, m
<1> HIDE DEF text
<1>5. CASE text # <<>>
  <2>1. t = DiscardRunes(Len(text)) /\ Marker(text) /\ PeekEqual(text) /\ OneLine(text)
    BY <1>3, <1>4, <1>5 DEF OneLine
  <2>2. /\ OnPlace(t) /\ t.at = scan.at + Len(text) /\ t.at >= scan.at
        /\ t.in = scan.in /\ t.index = scan.index /\ t.start = scan.start
        /\ t.startLine = scan.startLine
    BY <2>1, DiscardIs
  <2>3. \A i \in scan.at + 1 .. scan.at + Len(text) : runes[i] # "nl"
    BY <2>1, MarkerRead
  <2> QED BY <2>2, <2>3
<1>6. CASE text = <<>> /\ AtEnd(m.end)
  <2>1. t = Stopped
    BY <1>4, <1>6
  <2> QED BY <1>2, <2>1, StoppedIs
<1>7. CASE text = <<>> /\ ~AtEnd(m.end) /\ PeekEqual(m.end)
  <2> DEFINE d == DiscardRunes(Len(m.end))
  <2>1. t = [d EXCEPT !.in = "code"] /\ Marker(m.end)
    BY <1>1, <1>4, <1>7 DEF OneLine
  <2>2. OnPlace(d) /\ d.at >= scan.at
    BY <1>7, <2>1, DiscardIs
  <2> HIDE DEF d
  <2>3. DOMAIN d = Fields
    BY <2>2 DEF OnPlace
  <2>4. t.in = "code" /\ DOMAIN t = Fields /\ t.at = d.at /\ t.bytes = d.bytes /\ t.line = d.line
    BY <2>1, <2>3 DEF Fields
  <2> QED BY <2>2, <2>4 DEF OnPlace
<1>8. CASE text = <<>> /\ ~AtEnd(m.end) /\ ~PeekEqual(m.end)
  <2>1. t = NextRune(scan)
    BY <1>4, <1>8
  <2>2. /\ OnPlace(t) /\ t.at >= scan.at
        /\ \/ t.in = "end"
           \/ /\ t.in = scan.in /\ t.index = scan.index /\ t.start = scan.start
              /\ t.startLine = scan.startLine /\ t.at = scan.at + 1
    BY <2>1, ReadOn
  <2>3. t.at = scan.at + 1 /\ ~IsLineEnd => \A i \in scan.at + 1 .. t.at : runes[i] # "nl"
    BY <1>2, NoLineEnd
  <2> QED BY <2>2, <2>3
<1> QED BY <1>5, <1>6, <1>7, <1>8

LEMMA InStringInv ==
  ASSUME ScanInv, InString
  PROVE  ScanInv'
<1> DEFINE t == StringStep(Config.strings[scan.index])
<1>1. scan.in = "string" /\ scan' = t /\ UNCHANGED <<lang, runes, found>>
  BY DEF InString
<1>2. scan.index \in DOMAIN Config.strings
  BY <1>1 DEF ScanInv, StartInv
<1>3. /\ OnPlace(t) /\ t.at >= scan.at
      /\ t.in \in {"code", "end"} \/ (t.in = scan.in /\ t.index = scan.index)
  BY <1>2, StringStepIs
<1> HIDE DEF t
<1>4. StartInv(t) /\ t.in \in Modes \ {"typing"}
  BY <1>1, <1>2, <1>3 DEF StartInv, Modes, InComment
<1> QED BY <1>1, <1>3, <1>4, QuietStep

(* A comment on one line goes on. *)
LEMMA GoesOn ==
  ASSUME ScanInv, scan.in \in {"line", "lineOrString"}, NEW t, OnPlace(t), t.at >= scan.at,
         t.in = scan.in, t.start = scan.start, t.startLine = scan.startLine,
         \A i \in scan.at + 1 .. t.at : runes[i] # "nl"
  PROVE  \E n \in 0 .. Len(runes) : Started(t, n)
<1>1. PICK n \in 0 .. Len(runes) : Started(scan, n)
  BY DEF ScanInv, StartInv, InComment
<1>2. scan.at \in Nat /\ t.at \in Nat /\ Len(runes) \in Nat /\ runes \in Seq(STRING)
  BY ScanPlace, CountsAre
<1>3. n \in Nat /\ n <= scan.at /\ n \in 0 .. t.at
  BY <1>1, <1>2 DEF Started
<1>4. \A i \in n + 1 .. t.at : runes[i] # "nl"
  <2>1. \A i \in n + 1 .. scan.at : runes[i] # "nl"
    BY <1>1 DEF Started
  <2>2. \A i \in n + 1 .. t.at : i \in n + 1 .. scan.at \/ i \in scan.at + 1 .. t.at
    BY <1>2, <1>3
  <2> QED BY <2>1, <2>2
<1>5. t.in = "lineOrString" => n < t.at
  BY <1>1, <1>2, <1>3 DEF Started
<1>6. t.in = "line" /\ n = t.at => n < Len(runes) /\ runes[n + 1] \notin {"nl", "cr"}
  <2>1. n = t.at => n = scan.at
    BY <1>2, <1>3
  <2> QED BY <1>1, <2>1 DEF Started
<1>7. /\ t.start = BytesIn(0, n) /\ t.startLine = 1 + NewlinesIn(0, n)
      /\ \A k \in DOMAIN found : found[k].end <= t.start
  BY <1>1 DEF Started
<1>8. Started(t, n)
  BY <1>3, <1>4, <1>5, <1>6, <1>7 DEF Started
<1> QED BY <1>8

LEMMA LineCommentEndsInv ==
  ASSUME ScanInv, scan.in \in {"line", "lineOrString"}, LineCommentEnds, UNCHANGED <<lang, runes>>
  PROVE  ScanInv'
<1>1. PICK n \in 0 .. Len(runes) : Started(scan, n)
  BY DEF ScanInv, StartInv, InComment
<1>2. /\ runes \in Seq(STRING) /\ OnPlace(scan) /\ scan.at \in Nat /\ Len(runes) \in Nat
      /\ scan.at >= scan.at
  BY ScanPlace
<1>3. n \in Nat /\ n <= scan.at
  BY <1>1, <1>2 DEF Started
<1>4. n < scan.at
  <2>1. CASE scan.in = "lineOrString"
    BY <1>1, <2>1 DEF Started
  <2>2. CASE scan.in = "line"
    <3>1. n = scan.at => scan.at < Len(runes) /\ runes[scan.at + 1] \notin {"nl", "cr"}
      BY <1>1, <2>2 DEF Started
    <3>2. scan.at < Len(runes) => runes[scan.at + 1] \in {"nl", "cr"}
      BY AtLineEnd DEF LineCommentEnds
    <3> QED BY <1>2, <1>3, <3>1, <3>2
  <2> QED BY <2>1, <2>2
<1>5. scan.line = scan.startLine
  <2> DEFINE at == scan.at
  <2>1. at \in Nat /\ n <= at /\ \A i \in n + 1 .. at : runes[i] # "nl"
    BY <1>1, <1>2, <1>3 DEF Started
  <2> HIDE DEF at
  <2>2. NewlinesIn(0, at) = NewlinesIn(0, n)
    BY <1>3, <2>1, CountsGrow
  <2>3. scan.line = 1 + NewlinesIn(0, at) /\ scan.startLine = 1 + NewlinesIn(0, n)
    BY <1>1, <1>2 DEF OnPlace, Started, at
  <2> QED BY <2>2, <2>3
<1>6. /\ scan' = [scan EXCEPT !.in = "code"] /\ InComment(scan)
      /\ found' = Append(found, [start |-> scan.start, end |-> scan.bytes, line |-> scan.line])
  BY DEF LineCommentEnds, Report, InComment
<1> QED BY <1>1, <1>2, <1>4, <1>5, <1>6, FoundStep

LEMMA InLineCommentInv ==
  ASSUME ScanInv, InLineComment
  PROVE  ScanInv'
<1>1. scan.in = "line" /\ UNCHANGED <<lang, runes>>
  BY DEF InLineComment
<1>2. CASE LineCommentEnds
  BY <1>1, <1>2, LineCommentEndsInv
<1>3. CASE ~IsLineEnd /\ scan' = NextRune(scan) /\ UNCHANGED found
  <2> DEFINE t == NextRune(scan)
  <2>1. /\ OnPlace(t) /\ t.at >= scan.at
        /\ \/ t.in = "end"
           \/ /\ t.in = scan.in /\ t.start = scan.start
              /\ t.startLine = scan.startLine /\ t.at = scan.at + 1
    BY ReadOn
  <2>2. scan.at \in Nat /\ runes[scan.at + 1] # "nl"
    BY <1>3, ScanPlace, NoLineEnd
  <2> HIDE DEF t
  <2>3. t.in = "line" => \E n \in 0 .. Len(runes) : Started(t, n)
    <3>1. CASE t.in = "line"
      <4>1. \A i \in scan.at + 1 .. t.at : runes[i] # "nl"
        BY <2>1, <2>2, <3>1
      <4> QED BY <1>1, <2>1, <3>1, <4>1, GoesOn
    <3> QED BY <3>1
  <2>4. StartInv(t) /\ t.in \in Modes \ {"typing"}
    BY <1>1, <2>1, <2>3 DEF StartInv, Modes, InComment
  <2> QED BY <1>1, <1>3, <2>1, <2>4, QuietStep DEF t
<1> QED BY <1>2, <1>3 DEF InLineComment

LEMMA InLineCommentOrStringInv ==
  ASSUME ScanInv, InLineCommentOrString
  PROVE  ScanInv'
<1>1. scan.in = "lineOrString" /\ UNCHANGED <<lang, runes>>
  BY DEF InLineCommentOrString
<1>2. CASE LineCommentEnds
  BY <1>1, <1>2, LineCommentEndsInv
<1>3. CASE ~IsLineEnd /\ scan' = StringStep(Config.strings[scan.index]) /\ UNCHANGED found
  <2> DEFINE t == StringStep(Config.strings[scan.index])
  <2>1. scan.index \in DOMAIN Config.strings
    BY <1>1 DEF ScanInv, StartInv
  <2>2. /\ OnPlace(t) /\ t.at >= scan.at
        /\ \/ t.in \in {"code", "end"}
           \/ /\ t.in = scan.in /\ t.index = scan.index /\ t.start = scan.start
              /\ t.startLine = scan.startLine
              /\ \A i \in scan.at + 1 .. t.at : runes[i] # "nl"
    BY <1>3, <2>1, StringStepIs
  <2> HIDE DEF t
  <2>3. t.in = "lineOrString" => \E n \in 0 .. Len(runes) : Started(t, n)
    BY <1>1, <2>2, GoesOn
  <2>4. StartInv(t) /\ t.in \in Modes \ {"typing"}
    BY <1>1, <2>1, <2>2, <2>3 DEF StartInv, Modes, InComment
  <2> QED BY <1>1, <1>3, <2>2, <2>4, QuietStep DEF t
<1> QED BY <1>2, <1>3 DEF InLineCommentOrString

(* A comment of several lines goes on. *)
LEMMA MultiGoesOn ==
  ASSUME ScanInv, scan.in = "multi", NEW t, OnPlace(t), t.at >= scan.at, t.in = "multi",
         t.index = scan.index, t.start = scan.start, t.startLine = scan.startLine
  PROVE  StartInv(t)
<1>1. PICK n \in 0 .. Len(runes) : Started(scan, n)
  BY DEF ScanInv, StartInv, InComment
<1>2. scan.at \in Nat /\ t.at \in Nat /\ Len(runes) \in Nat /\ runes \in Seq(STRING)
  BY ScanPlace, CountsAre
<1>3. n \in Nat /\ n <= scan.at /\ n \in 0 .. t.at
  BY <1>1, <1>2 DEF Started
<1>4. Started(t, n)
  BY <1>1, <1>3 DEF Started
<1>5. t.index \in DOMAIN Config.multi
  BY DEF ScanInv, StartInv
<1> QED BY <1>4, <1>5 DEF StartInv

LEMMA InMultilineCommentInv ==
  ASSUME ScanInv, InMultilineComment
  PROVE  ScanInv'
<1> DEFINE m == Config.multi[scan.index]
           mayStand == m.atFirstColumn => scan.atFirstColumn
           nests == m.nested /\ PeekEqual(m.start) /\ mayStand
           short == AtEnd(m.end) \/ (m.nested /\ AtEnd(m.start))
           ends == PeekEqual(m.end) /\ mayStand
           after == DiscardRunes(Len(m.end))
<1>1. scan.in = "multi" /\ UNCHANGED <<lang, runes>>
  BY DEF InMultilineComment
<1>2. \/ nests /\ scan' = [DiscardRunes(Len(m.start)) EXCEPT !.depth = @ + 1] /\ UNCHANGED found
      \/ scan' = Stopped /\ UNCHANGED found
      \/ ends /\ Report(after, StartLine) /\ scan' = [after EXCEPT !.in = "code"]
      \/ ends /\ scan' = NextRune([after EXCEPT !.depth = @ - 1]) /\ UNCHANGED found
      \/ scan' = NextRune(scan) /\ UNCHANGED found
  BY DEF InMultilineComment
<1>3. Marker(m.start) /\ Marker(m.end)
  BY <1>1, ConfigGood DEF GoodConfig, ScanInv, StartInv
<1> HIDE DEF m
<1>4. scan.at \in Nat /\ OnPlace(scan)
  BY ScanPlace
<1>5. CASE nests /\ scan' = [DiscardRunes(Len(m.start)) EXCEPT !.depth = @ + 1] /\ UNCHANGED found
  <2> DEFINE d == DiscardRunes(Len(m.start))
             t == [d EXCEPT !.depth = @ + 1]
  <2>1. /\ OnPlace(d) /\ d.at >= scan.at /\ d.in = scan.in /\ d.index = scan.index
        /\ d.start = scan.start /\ d.startLine = scan.startLine
    BY <1>3, <1>5, DiscardIs
  <2> HIDE DEF d
  <2>2. DOMAIN d = Fields
    BY <2>1 DEF OnPlace
  <2>3. /\ DOMAIN t = Fields /\ t.at = d.at /\ t.bytes = d.bytes /\ t.line = d.line
        /\ t.in = d.in /\ t.index = d.index /\ t.start = d.start /\ t.startLine = d.startLine
    BY <2>2 DEF Fields
  <2> HIDE DEF t
  <2>4. OnPlace(t) /\ t.at >= scan.at /\ t.in \in Modes \ {"typing"}
    BY <1>1, <2>1, <2>3 DEF OnPlace, Modes
  <2>5. StartInv(t)
    BY <1>1, <2>1, <2>3, <2>4, MultiGoesOn
  <2> QED BY <1>1, <1>5, <2>4, <2>5, QuietStep DEF t, d
<1>6. CASE scan' = Stopped /\ UNCHANGED found
  <2>1. OnPlace(Stopped) /\ Stopped.at >= scan.at /\ Stopped.in = "end"
    BY <1>4, StoppedIs
  <2> QED BY <1>1, <1>6, <2>1, PlainStep
<1>7. CASE ends /\ Report(after, StartLine) /\ scan' = [after EXCEPT !.in = "code"]
  <2>1. PICK n \in 0 .. Len(runes) : Started(scan, n)
    BY <1>1 DEF ScanInv, StartInv, InComment
  <2>2. OnPlace(after) /\ after.at > scan.at /\ after.at >= scan.at
    BY <1>3, <1>7, DiscardIs
  <2> HIDE DEF after
  <2>3. n < after.at
    <3>1. after.at \in Nat
      BY <2>2, ScanPlace, CountsAre
    <3> QED BY <1>4, <2>1, <2>2, <3>1 DEF Started
  <2>4. found' = Append(found, [start |-> scan.start, end |-> after.bytes, line |-> scan.startLine])
    BY <1>7 DEF Report, StartLine
  <2>5. scan' = [after EXCEPT !.in = "code"] /\ InComment(scan)
    BY <1>1, <1>7 DEF InComment
  <2> QED BY <1>1, <2>1, <2>2, <2>3, <2>4, <2>5, FoundStep
<1>8. CASE ends /\ scan' = NextRune([after EXCEPT !.depth = @ - 1]) /\ UNCHANGED found
  <2> DEFINE d == [after EXCEPT !.depth = @ - 1]
             t == NextRune(d)
  <2>1. /\ OnPlace(after) /\ after.at >= scan.at /\ after.in = scan.in
        /\ after.index = scan.index /\ after.start = scan.start
        /\ after.startLine = scan.startLine
    BY <1>3, <1>8, DiscardIs
  <2> HIDE DEF after
  <2>2. DOMAIN after = Fields
    BY <2>1 DEF OnPlace
  <2>3. /\ DOMAIN d = Fields /\ d.at = after.at /\ d.bytes = after.bytes /\ d.line = after.line
        /\ d.in = after.in /\ d.index = after.index /\ d.start = after.start
        /\ d.startLine = after.startLine
    BY <2>2 DEF Fields
  <2> HIDE DEF d
  <2>4. OnPlace(d) /\ d.at >= scan.at
    BY <2>1, <2>3 DEF OnPlace
  <2>5. \/ t.in = "end" /\ OnPlace(t) /\ t.at = scan.at
        \/ /\ OnPlace(t) /\ t.at = d.at + 1 /\ t.in = d.in /\ t.index = d.index
           /\ t.start = d.start /\ t.startLine = d.startLine
    BY <2>4, NextRuneIs
  <2> HIDE DEF t
  <2>6. d.at \in Nat
    BY <2>4, ScanPlace, CountsAre
  <2>7. OnPlace(t) /\ t.at >= scan.at
    BY <1>4, <2>4, <2>5, <2>6
  <2>8. CASE t.in = "end"
    BY <1>1, <1>8, <2>7, <2>8, PlainStep DEF t, d
  <2>9. CASE t.in # "end"
    <3>1. StartInv(t) /\ t.in = "multi"
      BY <1>1, <2>1, <2>3, <2>5, <2>7, <2>9, MultiGoesOn
    <3> QED BY <1>1, <1>8, <2>7, <3>1, QuietStep DEF t, d, Modes
  <2> QED BY <2>8, <2>9
<1>9. CASE scan' = NextRune(scan) /\ UNCHANGED found
  <2> DEFINE t == NextRune(scan)
  <2>1. /\ OnPlace(t) /\ t.at >= scan.at
        /\ \/ t.in = "end"
           \/ /\ t.in = scan.in /\ t.index = scan.index /\ t.start = scan.start
              /\ t.startLine = scan.startLine
    BY ReadOn
  <2> HIDE DEF t
  <2>2. CASE t.in = "end"
    BY <1>1, <1>9, <2>1, <2>2, PlainStep DEF t
  <2>3. CASE t.in # "end"
    <3>1. StartInv(t) /\ t.in = "multi"
      BY <1>1, <2>1, <2>3, MultiGoesOn
    <3> QED BY <1>1, <1>9, <2>1, <3>1, QuietStep DEF t, Modes
  <2> QED BY <2>2, <2>3
<1> QED BY <1>2, <1>5, <1>6, <1>7, <1>8, <1>9

LEMMA ScannerNextInv == ScanInv /\ [ScannerNext]_scanVars => ScanInv'
<1> SUFFICES ASSUME ScanInv, [ScannerNext]_scanVars PROVE ScanInv'
  OBVIOUS
<1>1. ASSUME NEW piece \in Pieces[lang], TypePiece(piece) PROVE ScanInv'
  BY <1>1, TypePieceInv
<1>2. CASE UNCHANGED scanVars
  <2>1. UNCHANGED <<lang, runes, scan, found>>
    BY <1>2 DEF scanVars
  <2>2. OnPlace(scan)'
    BY <2>1 DEF ScanInv, OnPlace, BytesIn, NewlinesIn
  <2>3. StartInv(scan)'
    BY <2>1 DEF ScanInv, StartInv, Started, InComment, BytesIn, NewlinesIn, Config
  <2>4. FoundInv'
    <3>1. \A n : BytesIn(0, n)' = BytesIn(0, n) /\ NewlinesIn(0, n)' = NewlinesIn(0, n)
      BY <2>1 DEF BytesIn, NewlinesIn
    <3> QED BY <2>1, <3>1 DEF ScanInv, FoundInv
  <2> QED BY <2>1, <2>2, <2>3, <2>4 DEF ScanInv
<1> QED BY <1>1, <1>2, BeginInv, InCodeInv, InStringInv, InLineCommentInv,
           InLineCommentOrStringInv, InMultilineCommentInv DEF ScannerNext

(* Comments are found in the order of the file, none in another, each on   *)
(* the line that it starts on: Scan of scanner.go for the languages of     *)
(* LanguagesConfig, whatever the file is.                                  *)
THEOREM CommentsInOrder == ScannerSpec => []ScanOrdered
<1>1. ScanInv => ScanOrdered
  <2> SUFFICES ASSUME ScanInv, NEW k \in DOMAIN found
               PROVE  /\ found[k].start < found[k].end
                      /\ k > 1 => found[k - 1].end <= found[k].start
                      /\ \E n \in 0 .. Len(runes) :
                            found[k].start = BytesIn(0, n) /\ found[k].line = 1 + NewlinesIn(0, n)
    BY DEF ScanOrdered
  <2>1. DOMAIN found = 1 .. Len(found) /\ Len(found) \in Nat
    BY DEF ScanInv, FoundInv
  <2>2. k > 1 => k - 1 \in DOMAIN found /\ k - 1 < k
    BY <2>1
  <2> QED BY <2>2 DEF ScanInv, FoundInv
<1> QED BY <1>1, ScannerInitInv, ScannerNextInv, PTL DEF ScannerSpec

-----------------------------------------------------------------------------
(* The languages.                                                          *)

Quotes == {"dq", "sq"}

(* What the languages have in common: one kind of line comment and of      *)
(* multi-line comment at most, and strings in quotes of one rune.          *)
LineShape(m) ==
    /\ m.start[1] \notin {"sq", "nl", "cr"} /\ (m.start[1] = "dq" => Len(m.start) = 1)
    /\ Len(m.start) <= 2 /\ m.atLineStart \in BOOLEAN

MultiShape(m) ==
    /\ m.start[1] # "sq" /\ Len(m.start) \in 1 .. 3 /\ Len(m.end) \in Nat \ {0}
    /\ m.nested \in BOOLEAN /\ m.atFirstColumn \in BOOLEAN
    /\ m.nested => m.start = <<"(", "*">> /\ m.end = <<"*", ")">>

StringShape(m) ==
    /\ m.escape \in {"char", "double"}
    /\ \E q \in Quotes : m.start = <<q>> /\ m.end = <<q>>

Shape(c) ==
    /\ DOMAIN c.line \subseteq {1} /\ \A i \in DOMAIN c.line : LineShape(c.line[i])
    /\ DOMAIN c.multi \subseteq {1} /\ \A i \in DOMAIN c.multi : MultiShape(c.multi[i])
    /\ DOMAIN c.strings \subseteq 1 .. 2 /\ \A i \in DOMAIN c.strings : StringShape(c.strings[i])
    /\ \A i, j \in DOMAIN c.strings : c.strings[i].end = c.strings[j].end => i = j
    /\ \A i \in DOMAIN c.line, j \in DOMAIN c.multi : Len(c.line[i].start) <= Len(c.multi[j].start)
    /\ \A k \in DOMAIN c.strings : c.strings[k].escape = "double" =>
          /\ \A i \in DOMAIN c.line : c.line[i].start[1] # "dq"
          /\ \A i \in DOMAIN c.multi : c.multi[i].start[1] # "dq"
    /\ DOMAIN c.line \cup DOMAIN c.multi \cup DOMAIN c.strings # {}

LEMMA ShapeOfMarkers ==
  /\ \A at \in BOOLEAN : LineShape(LineComment(<<"/", "/">>, at))
  /\ \A at \in BOOLEAN : LineShape(LineComment(<<"-", "-">>, at))
  /\ \A at \in BOOLEAN : LineShape(LineComment(<<"#">>, at))
  /\ \A at \in BOOLEAN : LineShape(LineComment(<<"dq">>, at))
  /\ MultiShape(Multiline(<<"/", "*">>, <<"*", "/">>))
  /\ MultiShape([Multiline(<<"(", "*">>, <<"*", ")">>) EXCEPT !.nested = TRUE])
  /\ MultiShape([Multiline(<<"=">>, <<"=", "c", "u", "t">>) EXCEPT !.atFirstColumn = TRUE])
  /\ MultiShape(Multiline(<<"dq", "dq", "dq">>, <<"dq", "dq", "dq">>))
  /\ \A q \in Quotes, e \in {"char", "double"} : StringShape(String(q, e))
<1>1. \A at \in BOOLEAN : /\ LineShape(LineComment(<<"/", "/">>, at))
                          /\ LineShape(LineComment(<<"-", "-">>, at))
                          /\ LineShape(LineComment(<<"#">>, at))
                          /\ LineShape(LineComment(<<"dq">>, at))
  BY DEF LineShape, LineComment
<1>2. MultiShape(Multiline(<<"/", "*">>, <<"*", "/">>))
  BY DEF MultiShape, Multiline
<1>3. MultiShape([Multiline(<<"(", "*">>, <<"*", ")">>) EXCEPT !.nested = TRUE])
  BY DEF MultiShape, Multiline
<1>4. MultiShape([Multiline(<<"=">>, <<"=", "c", "u", "t">>) EXCEPT !.atFirstColumn = TRUE])
  BY DEF MultiShape, Multiline
<1>5. MultiShape(Multiline(<<"dq", "dq", "dq">>, <<"dq", "dq", "dq">>))
  BY DEF MultiShape, Multiline
<1>6. \A q \in Quotes, e \in {"char", "double"} : StringShape(String(q, e))
  BY DEF StringShape, String, Quotes
<1> QED BY <1>1, <1>2, <1>3, <1>4, <1>5, <1>6

LEMMA ShapeIs ==
  ASSUME NEW l \in DOMAIN LanguagesConfig
  PROVE  Shape(LanguagesConfig[l])
<1> DEFINE c == LanguagesConfig[l]
           Lines(s) == DOMAIN s \subseteq {1} /\ \A i \in DOMAIN s : LineShape(s[i])
           Multis(s) == DOMAIN s \subseteq {1} /\ \A i \in DOMAIN s : MultiShape(s[i])
           Strings(s) == /\ DOMAIN s \subseteq 1 .. 2 /\ \A i \in DOMAIN s : StringShape(s[i])
                         /\ \A i, j \in DOMAIN s : s[i].end = s[j].end => i = j
           Lengths(s, t) == \A i \in DOMAIN s, j \in DOMAIN t : Len(s[i].start) <= Len(t[j].start)
           Doubles(s, t, u) ==
             \A k \in DOMAIN u : u[k].escape = "double" =>
               /\ \A i \in DOMAIN s : s[i].start[1] # "dq"
               /\ \A i \in DOMAIN t : t[i].start[1] # "dq"
           Some(s, t, u) == DOMAIN s \cup DOMAIN t \cup DOMAIN u # {}
           All(s, t, u) == Lines(s) /\ Multis(t) /\ Strings(u) /\ Lengths(s, t) /\ Doubles(s, t, u)
                             /\ Some(s, t, u)
<1>1. l \in {"Rust", "SQL", "OCaml", "Perl", "Python", "VimScript", "IgnoreList"}
  BY DEF LanguagesConfig
<1> SUFFICES All(c.line, c.multi, c.strings)
  BY DEF Shape
<1>2. ASSUME NEW m, LineShape(m) PROVE Lines(<<m>>)
  BY <1>2
<1>3. ASSUME NEW m, MultiShape(m) PROVE Multis(<<m>>)
  BY <1>3
<1>4. Lines(<<>>) /\ Multis(<<>>) /\ Strings(<<>>)
  OBVIOUS
<1>5. Strings(CStrings) /\ Strings(DoubledStrings) /\ Strings(<<String("dq", "char")>>)
  <2>1. ASSUME NEW e \in {"char", "double"}
        PROVE  Strings(<<String("dq", e), String("sq", e)>>) /\ Strings(<<String("dq", e)>>)
    <3> DEFINE s == <<String("dq", e), String("sq", e)>>
    <3>1. StringShape(String("dq", e)) /\ StringShape(String("sq", e))
      BY ShapeOfMarkers DEF Quotes
    <3>2. String("dq", e).end = <<"dq">> /\ String("sq", e).end = <<"sq">>
      BY DEF String
    <3>3. <<"dq">> # <<"sq">>
      OBVIOUS
    <3>4. DOMAIN s = {1, 2} /\ s[1] = String("dq", e) /\ s[2] = String("sq", e)
      OBVIOUS
    <3> HIDE DEF s
    <3>5. Strings(s)
      BY <3>1, <3>2, <3>3, <3>4
    <3>6. Strings(<<String("dq", e)>>)
      BY <3>1
    <3> QED BY <3>5, <3>6 DEF s
  <2> HIDE DEF Strings
  <2> QED BY <2>1 DEF CStrings, DoubledStrings
<1>6. \A i \in DOMAIN CStrings : CStrings[i].escape = "char"
  BY DEF CStrings, String
<1>7. ASSUME NEW k, Len(k.start) <= 2, k.start[1] # "dq"
      PROVE  /\ \A i \in DOMAIN <<k>> : <<k>>[i].start[1] # "dq" /\ Len(<<k>>[i].start) = Len(k.start)
             /\ DOMAIN <<k>> = {1}
  BY <1>7
<1>8. /\ DOMAIN CBlockComments = {1} /\ MultiShape(CBlockComments[1])
      /\ CBlockComments[1].start[1] # "dq" /\ Len(CBlockComments[1].start) = 2
  BY ShapeOfMarkers DEF CBlockComments, Multiline
<1>9. Multis(CBlockComments)
  BY <1>8
<1> HIDE DEF c, Lines, Multis, Strings
<1>10. CASE l = "Rust"
  <2> DEFINE k == LineComment(<<"/", "/">>, FALSE)
             s == <<k>>
             t == CBlockComments
             u == <<String("dq", "char")>>
  <2>1. c.line = s /\ c.multi = t /\ c.strings = u
    BY <1>10 DEF c, LanguagesConfig
  <2>2. Lines(s) /\ Multis(t) /\ Strings(u)
    BY <1>2, <1>5, <1>9, ShapeOfMarkers
  <2>3. Lengths(s, t) /\ Doubles(s, t, u) /\ Some(s, t, u)
    <3>0. Len(k.start) = 2 /\ k.start[1] # "dq"
      BY DEF LineComment
    <3> HIDE DEF k
    <3>1. /\ \A i \in DOMAIN s : s[i].start[1] # "dq" /\ Len(s[i].start) = 2
          /\ DOMAIN s = {1}
      BY <1>7, <3>0
    <3> HIDE DEF s
    <3> QED BY <1>8, <3>1
  <2> QED BY <2>1, <2>2, <2>3
<1>11. CASE l = "SQL"
  <2> DEFINE k == LineComment(<<"-", "-">>, FALSE)
             s == <<k>>
             t == CBlockComments
             u == DoubledStrings
  <2>1. c.line = s /\ c.multi = t /\ c.strings = u
    BY <1>11 DEF c, LanguagesConfig
  <2>2. Lines(s) /\ Multis(t) /\ Strings(u)
    BY <1>2, <1>5, <1>9, ShapeOfMarkers
  <2>3. Lengths(s, t) /\ Doubles(s, t, u) /\ Some(s, t, u)
    <3>0. Len(k.start) = 2 /\ k.start[1] # "dq"
      BY DEF LineComment
    <3> HIDE DEF k
    <3>1. /\ \A i \in DOMAIN s : s[i].start[1] # "dq" /\ Len(s[i].start) = 2
          /\ DOMAIN s = {1}
      BY <1>7, <3>0
    <3> HIDE DEF s
    <3> QED BY <1>8, <3>1
  <2> QED BY <2>1, <2>2, <2>3
<1>12. CASE l = "OCaml"
  <2> DEFINE m == [Multiline(<<"(", "*">>, <<"*", ")">>) EXCEPT !.nested = TRUE]
             u == CStrings
  <2>1. c.line = <<>> /\ c.multi = <<m>> /\ c.strings = u
    BY <1>12 DEF c, LanguagesConfig
  <2>2. MultiShape(m)
    BY ShapeOfMarkers
  <2> HIDE DEF m
  <2>3. Lines(<<>>) /\ Multis(<<m>>) /\ Strings(u)
    BY <1>3, <1>4, <1>5, <2>2
  <2>4. Lengths(<<>>, <<m>>) /\ Doubles(<<>>, <<m>>, u) /\ Some(<<>>, <<m>>, u)
    BY <1>6
  <2> QED BY <2>1, <2>3, <2>4
<1>13. CASE l = "Perl"
  <2> DEFINE m == [Multiline(<<"=">>, <<"=", "c", "u", "t">>) EXCEPT !.atFirstColumn = TRUE]
             k == LineComment(<<"#">>, FALSE)
             s == <<k>>
             u == CStrings
  <2>1. c.line = s /\ c.multi = <<m>> /\ c.strings = u
    BY <1>13 DEF c, LanguagesConfig
  <2>2. MultiShape(m) /\ Len(m.start) = 1
    <3>1. m.start = <<"=">>
      BY DEF Multiline
    <3> QED BY <3>1, ShapeOfMarkers
  <2> HIDE DEF m
  <2>3. Lines(s) /\ Multis(<<m>>) /\ Strings(u)
    BY <1>2, <1>3, <1>5, <2>2, ShapeOfMarkers
  <2>4. Lengths(s, <<m>>) /\ Doubles(s, <<m>>, u) /\ Some(s, <<m>>, u)
    <3>0. Len(k.start) = 1 /\ k.start[1] # "dq"
      BY DEF LineComment
    <3> HIDE DEF k
    <3>1. /\ \A i \in DOMAIN s : s[i].start[1] # "dq" /\ Len(s[i].start) = 1
          /\ DOMAIN s = {1}
      BY <1>7, <3>0
    <3> HIDE DEF s
    <3> QED BY <1>6, <2>2, <3>1
  <2> QED BY <2>1, <2>3, <2>4
<1>14. CASE l = "Python"
  <2> DEFINE m == Multiline(<<"dq", "dq", "dq">>, <<"dq", "dq", "dq">>)
             k == LineComment(<<"#">>, FALSE)
             s == <<k>>
             u == CStrings
  <2>1. c.line = s /\ c.multi = <<m>> /\ c.strings = u
    BY <1>14 DEF c, LanguagesConfig
  <2>2. MultiShape(m) /\ Len(m.start) = 3
    <3>1. m.start = <<"dq", "dq", "dq">>
      BY DEF Multiline
    <3> QED BY <3>1, ShapeOfMarkers
  <2> HIDE DEF m
  <2>3. Lines(s) /\ Multis(<<m>>) /\ Strings(u)
    BY <1>2, <1>3, <1>5, <2>2, ShapeOfMarkers
  <2>4. Lengths(s, <<m>>) /\ Doubles(s, <<m>>, u) /\ Some(s, <<m>>, u)
    <3>0. Len(k.start) = 1 /\ k.start[1] # "dq"
      BY DEF LineComment
    <3> HIDE DEF k
    <3>1. /\ \A i \in DOMAIN s : s[i].start[1] # "dq" /\ Len(s[i].start) = 1
          /\ DOMAIN s = {1}
      BY <1>7, <3>0
    <3> HIDE DEF s
    <3>2. Lengths(s, <<m>>)
      BY <2>2, <3>1
    <3>3. Doubles(s, <<m>>, u)
      BY <1>6, <3>1
    <3> QED BY <3>1, <3>2, <3>3
  <2> QED BY <2>1, <2>3, <2>4
<1>15. CASE l = "VimScript"
  <2> DEFINE s == <<LineComment(<<"dq">>, FALSE)>>
             u == CStrings
  <2>1. c.line = s /\ c.multi = <<>> /\ c.strings = u
    BY <1>15 DEF c, LanguagesConfig
  <2>2. Lines(s) /\ Multis(<<>>) /\ Strings(u)
    BY <1>2, <1>4, <1>5, ShapeOfMarkers
  <2>3. Lengths(s, <<>>) /\ Doubles(s, <<>>, u) /\ Some(s, <<>>, u)
    BY <1>6
  <2> QED BY <2>1, <2>2, <2>3
<1>16. CASE l = "IgnoreList"
  <2> DEFINE s == <<LineComment(<<"#">>, TRUE)>>
  <2>1. c.line = s /\ c.multi = <<>> /\ c.strings = <<>>
    BY <1>16 DEF c, LanguagesConfig
  <2>2. Lines(s) /\ Multis(<<>>) /\ Strings(<<>>)
    BY <1>2, <1>4, ShapeOfMarkers
  <2>3. Lengths(s, <<>>) /\ Doubles(s, <<>>, <<>>) /\ Some(s, <<>>, <<>>)
    OBVIOUS
  <2> QED BY <2>1, <2>2, <2>3
<1> QED BY <1>1, <1>10, <1>11, <1>12, <1>13, <1>14, <1>15, <1>16

-----------------------------------------------------------------------------
(* Where the scanner is in a file of legible pieces.                       *)

Text(k) == file[k].piece.text

Kind(k) == file[k].piece.kind

(* Where the k-th piece ends.                                              *)
EndOf(k) == IF k = 0 THEN 0 ELSE file[k].at + Len(Text(k))

(* The pieces follow each other in the text, each where it may stand.      *)
Stands(k) ==
    /\ Kind(k) = "column" => file[k].at = 0 \/ runes[file[k].at] = "nl"
    /\ Kind(k) = "line" /\ (\E m \in ToSet(Config.line) : m.atLineStart) => Indented(file[k].at)
    /\ k > 1 /\ Kind(k - 1) = "line" => EndsLine(Text(k))

FileInv ==
    /\ file \in Seq([piece : Pieces[lang], at : Nat])
    /\ Len(runes) = EndOf(Len(file))
    /\ \A j, k \in DOMAIN file : j < k => EndOf(j) <= file[k].at
    /\ \A k \in DOMAIN file :
          /\ file[k].at = EndOf(k - 1) /\ EndOf(k) <= Len(runes)
          /\ \A n \in 1 .. Len(Text(k)) : runes[file[k].at + n] = Text(k)[n]
          /\ Stands(k)

AllLegible == \A k \in DOMAIN file : file[k].piece \in Legible[lang]

(* What the scanner knows of its line.                                     *)
Columns(s) ==
    /\ s.atFirstColumn = (s.at = 0 \/ runes[s.at] = "nl")
    /\ s.atLineStart = Indented(s.at)

(* The comments before the i-th piece, none of them too near to the end,   *)
(* are those that were found.                                              *)
Upto(f, i) ==
    /\ ToSet(f) = {CommentOf(file[k]) : k \in {k \in DOMAIN file : k < i /\ Kind(k) # "code"}}
    /\ \A k \in DOMAIN file : k < i /\ Kind(k) # "code" => file[k].at + Longest <= Len(runes)

CodeAt(s, i) ==
    \/ i = Len(file) + 1 /\ s.at = Len(runes)
    \/ i \in DOMAIN file /\ s.at = file[i].at
    \/ /\ i \in DOMAIN file /\ Kind(i) = "code"
       /\ \E p \in Nat : /\ 0 < p /\ p < Len(Text(i)) /\ s.at = file[i].at + p
                         /\ CodeFrom(Config, Text(i), p)

(* Of the escapes between a and b none has the p-th rune for its first.    *)
Apart(m, text, a, b, p) ==
    IF m.escape = "char" THEN ~(text[p] = "bs" /\ text[p + 1] = m.end[1])
    ELSE \E pairs \in SUBSET (a + 2 .. b - 1) :
            /\ {n \in a + 2 .. b - 1 : text[n] = m.end[1]} = pairs \cup {n + 1 : n \in pairs}
            /\ \A n \in pairs : n + 1 \notin pairs
            /\ p \notin pairs

(* p runes of the i-th piece are read: where the scanner may be in it.     *)
InStringAt(s, i, p) ==
    LET m == Config.strings[s.index]
    IN  /\ Kind(i) = "code" /\ s.index \in DOMAIN Config.strings
        /\ s.in = "lineOrString" => m.escape = "char"
        /\ \E a, b \in Nat :
              /\ a < p /\ p < b /\ b <= Len(Text(i))
              /\ IsString(Config, m, Text(i), a, b) /\ Apart(m, Text(i), a, b, p)
              /\ CodeFrom(Config, Text(i), b)
              /\ s.in = "lineOrString" => \A n \in a + 1 .. b : Text(i)[n] # "nl"

(* The comment is the i-th piece.                                          *)
Begun(s, i) ==
    /\ file[i].at + Longest <= Len(runes)
    /\ s.start = BytesIn(0, file[i].at) /\ s.startLine = 1 + NewlinesIn(0, file[i].at)

InLineAt(s, i, p) ==
    /\ Kind(i) = "line" /\ p <= Len(Text(i)) /\ Begun(s, i)
    /\ s.in = "lineOrString" =>
          /\ p > 0 /\ s.index \in DOMAIN Config.strings
          /\ \A n \in 2 .. Len(Text(i)) : Text(i)[n] # Config.strings[s.index].end[1]

InMultiAt(s, i, p) ==
    LET m == Config.multi[s.index]
        from == Len(m.start)
        to == Len(Text(i)) - Len(m.end)
        starts == IF m.nested THEN Places(Text(i), m.start, m.atFirstColumn, from, to) ELSE {}
        ends == Places(Text(i), m.end, m.atFirstColumn, from, to)
    IN  /\ Kind(i) \in {"multi", "column"} /\ s.index \in DOMAIN Config.multi
        /\ from <= p /\ p <= to /\ Begun(s, i)
        /\ s.depth = CountBelow(starts, p) - CountBelow(ends, p)

InPiece(s, i, p) ==
    /\ s.at = file[i].at + p
    /\ \/ s.in \in {"string", "lineOrString"} /\ InStringAt(s, i, p)
       \/ s.in \in {"line", "lineOrString"} /\ InLineAt(s, i, p)
       \/ s.in = "multi" /\ InMultiAt(s, i, p)

(* The scanner has read all before the i-th piece, and may be in it.       *)
Progress(s, f) ==
    \E i \in 1 .. Len(file) + 1 :
        /\ Upto(f, i)
        /\ \/ s.in = "code" /\ CodeAt(s, i)
           \/ i \in DOMAIN file /\ \E p \in Nat : InPiece(s, i, p)

Right(s, f) ==
    CASE s.in = "typing" -> TRUE
      [] s.in = "end" -> ToSet(f) = Expected
      [] OTHER -> Progress(s, f)

ExactInv ==
    /\ FileInv
    /\ Columns(scan)
    /\ AllLegible => Right(scan, found)

-----------------------------------------------------------------------------
LEMMA FileIs ==
  ASSUME FileInv, lang \in DOMAIN Pieces
  PROVE  /\ Len(file) \in Nat /\ DOMAIN file = 1 .. Len(file)
         /\ \A k \in DOMAIN file :
              /\ file[k].piece \in Pieces[lang] /\ file[k].at \in Nat
              /\ Text(k) \in Seq(STRING) /\ Len(Text(k)) \in Nat \ {0}
              /\ DOMAIN Text(k) = 1 .. Len(Text(k))
              /\ EndOf(k) = file[k].at + Len(Text(k)) /\ EndOf(k) \in Nat
<1> DEFINE Placed == [piece : Pieces[lang], at : Nat]
<1>1. file \in Seq(Placed)
  BY DEF FileInv
<1>2. \A t \in Placed : t.piece \in Pieces[lang] /\ t.at \in Nat
  OBVIOUS
<1> HIDE DEF Placed
<1>3. Len(file) \in Nat /\ DOMAIN file = 1 .. Len(file) /\ \A k \in DOMAIN file : file[k] \in Placed
  BY <1>1
<1>4. ASSUME NEW k \in DOMAIN file
      PROVE  /\ file[k].piece \in Pieces[lang] /\ file[k].at \in Nat
             /\ Text(k) \in Seq(STRING) /\ Len(Text(k)) \in Nat \ {0}
             /\ DOMAIN Text(k) = 1 .. Len(Text(k))
             /\ EndOf(k) = file[k].at + Len(Text(k)) /\ EndOf(k) \in Nat
  <2>1. file[k].piece \in Pieces[lang] /\ file[k].at \in Nat
    BY <1>2, <1>3
  <2>2. Text(k) \in Seq(STRING) \ {<<>>}
    BY <2>1, PiecesAssumption DEF Text
  <2> DEFINE text == Text(k)
  <2>3. text \in Seq(STRING) /\ text # <<>>
    BY <2>2
  <2> HIDE DEF text
  <2>4. Len(text) \in Nat \ {0} /\ DOMAIN text = 1 .. Len(text)
    BY <2>3
  <2>5. k # 0
    BY <1>3
  <2> QED BY <2>1, <2>2, <2>4, <2>5 DEF text, EndOf
<1> QED BY <1>3, <1>4

(* What the scanner knows of its line, n runes further on.                 *)
LEMMA AdvanceColumns ==
  ASSUME runes \in Seq(STRING), NEW s, OnPlace(s), Columns(s), NEW n \in Nat, s.at + n <= Len(runes)
  PROVE  Columns(Advance(s, n)) /\ Advance(s, n).depth = s.depth
<1> DEFINE t == Advance(s, n)
           x == s.at
           y == x + n
           BlankFrom(h) == \A j \in h + 1 .. y : runes[j] \in Blanks
<1>1. x \in Nat /\ y \in Nat /\ x <= y /\ Len(runes) \in Nat
  BY CountsAre
<1>2. DOMAIN s = Fields
  BY DEF OnPlace
<1>3. /\ t.at = y /\ t.depth = s.depth
      /\ n = 0 => t.atFirstColumn = s.atFirstColumn
      /\ n # 0 => t.atFirstColumn = (runes[y] = "nl")
      /\ t.atLineStart = (\/ s.atLineStart /\ BlankFrom(x)
                          \/ \E i \in x + 1 .. y : runes[i] = "nl" /\ BlankFrom(i))
  BY <1>2 DEF Advance, Fields
<1>0. \A n1 : Indented(n1) = (\E k \in {0} \cup {j \in 1 .. n1 : runes[j] = "nl"} :
                                \A j \in k + 1 .. n1 : runes[j] \in Blanks)
  BY DEF Indented
<1> HIDE DEF t
<1>4. t.atFirstColumn = (t.at = 0 \/ runes[t.at] = "nl")
  <2>1. CASE n = 0
    <3>1. t.at = s.at /\ t.atFirstColumn = s.atFirstColumn
      BY <1>1, <1>3, <2>1
    <3> QED BY <3>1 DEF Columns
  <2>2. CASE n # 0
    <3>1. y # 0 /\ t.at = y /\ t.atFirstColumn = (runes[y] = "nl")
      BY <1>1, <1>3, <2>2
    <3> HIDE DEF y
    <3>2. (y = 0 \/ runes[y] = "nl") = (runes[y] = "nl")
      BY <3>1
    <3> QED BY <3>1, <3>2
  <2> QED BY <2>1, <2>2
<1>5. (\/ s.atLineStart /\ BlankFrom(x)
       \/ \E i \in x + 1 .. y : runes[i] = "nl" /\ BlankFrom(i)) <=> Indented(y)
  <2>1. s.atLineStart = Indented(x)
    BY DEF Columns
  <2> HIDE DEF x, y
  <2>2. ASSUME Indented(x), BlankFrom(x) PROVE Indented(y)
    <3>1. PICK i \in {0} \cup {k \in 1 .. x : runes[k] = "nl"} :
                 \A j \in i + 1 .. x : runes[j] \in Blanks
      BY <1>0, <2>2
    <3>2. i \in {0} \cup {k \in 1 .. y : runes[k] = "nl"} /\ i \in Nat /\ i <= x
      <4>1. i = 0 \/ (i \in 1 .. x /\ runes[i] = "nl")
        OBVIOUS
      <4> QED BY <1>1, <4>1
    <3>3. \A j \in i + 1 .. y : runes[j] \in Blanks
      <4>1. \A j \in i + 1 .. y : j \in i + 1 .. x \/ j \in x + 1 .. y
        BY <1>1, <3>2
      <4> QED BY <2>2, <3>1, <4>1
    <3> QED BY <1>0, <3>2, <3>3
  <2>3. ASSUME NEW i \in x + 1 .. y, runes[i] = "nl", BlankFrom(i) PROVE Indented(y)
    <3>1. i \in {k \in 1 .. y : runes[k] = "nl"}
      BY <1>1, <2>3
    <3> QED BY <1>0, <2>3, <3>1
  <2>4. ASSUME Indented(y)
        PROVE  \/ Indented(x) /\ BlankFrom(x)
               \/ \E i \in x + 1 .. y : runes[i] = "nl" /\ BlankFrom(i)
    <3>1. PICK i \in {0} \cup {k \in 1 .. y : runes[k] = "nl"} : BlankFrom(i)
      BY <1>0, <2>4
    <3>0. i \in Nat /\ i <= y /\ (i = 0 \/ (i \in 1 .. y /\ runes[i] = "nl"))
      <4>1. i = 0 \/ (i \in 1 .. y /\ runes[i] = "nl")
        OBVIOUS
      <4> QED BY <1>1, <4>1
    <3>2. CASE i <= x
      <4>1. i \in {0} \cup {k \in 1 .. x : runes[k] = "nl"}
        <5>1. i = 0 \/ (i \in 1 .. x /\ runes[i] = "nl")
          BY <1>1, <3>0, <3>2
        <5> QED BY <5>1
      <4>2. \A j \in i + 1 .. x : runes[j] \in Blanks
        <5>1. \A j \in i + 1 .. x : j \in i + 1 .. y
          BY <1>1, <3>0
        <5> QED BY <3>1, <5>1
      <4>3. BlankFrom(x)
        <5>1. \A j \in x + 1 .. y : j \in i + 1 .. y
          BY <1>1, <3>0, <3>2
        <5> QED BY <3>1, <5>1
      <4> QED BY <1>0, <4>1, <4>2, <4>3
    <3>3. CASE ~(i <= x)
      <4>1. i \in x + 1 .. y /\ runes[i] = "nl"
        BY <1>1, <3>0, <3>3
      <4> QED BY <3>1, <4>1
    <3> QED BY <3>2, <3>3
  <2> QED BY <2>1, <2>2, <2>3, <2>4
<1>6. t.atLineStart = Indented(t.at)
  <2>1. t.atLineStart \in BOOLEAN /\ Indented(y) \in BOOLEAN
    BY <1>0, <1>3
  <2> QED BY <1>3, <1>5, <2>1
<1> QED BY <1>3, <1>4, <1>6 DEF Columns, t

-----------------------------------------------------------------------------
(* The language's markers and the text.                                    *)

LEMMA ConfigShape ==
  ASSUME ScanInv
  PROVE  Shape(Config) /\ GoodConfig(Config)
BY ShapeIs, ConfigGood, PiecesAssumption DEF ScanInv, Config

LEMMA StringShapeIs ==
  ASSUME NEW m, StringShape(m)
  PROVE  /\ Len(m.start) = 1 /\ Len(m.end) = 1 /\ DOMAIN m.start = {1} /\ DOMAIN m.end = {1}
         /\ m.start = m.end /\ m.start[1] = m.end[1] /\ m.end[1] \in Quotes
         /\ m.end = <<m.end[1]>>
<1>1. PICK q \in Quotes : m.start = <<q>> /\ m.end = <<q>>
  BY DEF StringShape
<1> QED BY <1>1

(* What FirstMatch says of markers that all end in the file or none.       *)
LEMMA FirstMatchSays ==
  ASSUME NEW markers, DOMAIN markers \subseteq 1 .. 2, NEW allowed \in SUBSET DOMAIN markers,
         \A i, j \in DOMAIN markers : AtEnd(markers[i].start) => AtEnd(markers[j].start)
  PROVE  LET n == FirstMatch(markers, allowed)
         IN  /\ n = EOF <=> \E i \in DOMAIN markers : AtEnd(markers[i].start)
             /\ n # EOF => \/ n = 0 /\ \A i \in allowed : ~PeekEqual(markers[i].start)
                           \/ n \in allowed /\ PeekEqual(markers[n].start)
<1> DEFINE hits == {i \in allowed : PeekEqual(markers[i].start)}
           short == {i \in DOMAIN markers : AtEnd(markers[i].start)}
           S == hits \cup short
           n == FirstMatch(markers, allowed)
<1>1. S \subseteq 1 .. 2 /\ S \in SUBSET Int
  OBVIOUS
<1>2. IsFiniteSet(S)
  <2>1. 1 \in Int /\ 2 \in Int
    OBVIOUS
  <2>2. IsFiniteSet(1 .. 2)
    BY <2>1, FS_Interval
  <2> HIDE DEF S
  <2> QED BY <1>1, <2>2, FS_Subset
<1>3. n = IF S = {} THEN 0 ELSE IF Min(S) \in short THEN EOF ELSE Min(S)
  BY DEF FirstMatch
<1>4. S # {} => Min(S) \in S
  <2> HIDE DEF S
  <2> QED BY <1>1, <1>2, MinOf
<1>5. short = {} \/ short = DOMAIN markers
  OBVIOUS
<1>6. Min(S) \in S => Min(S) \in 1 .. 2 /\ Min(S) # EOF /\ Min(S) # 0
  BY <1>1 DEF EOF
<1>7. EOF # 0
  BY DEF EOF
<1> HIDE DEF n
<1>8. CASE short = {}
  <2>1. n # EOF
    BY <1>3, <1>4, <1>6, <1>7, <1>8
  <2>2. CASE S = {}
    BY <1>3, <1>8, <2>1, <2>2 DEF n
  <2>3. CASE S # {}
    <3>1. Min(S) \in hits /\ n = Min(S)
      BY <1>3, <1>4, <1>8, <2>3
    <3> QED BY <1>8, <2>1, <3>1 DEF n
  <2> QED BY <2>2, <2>3
<1>9. CASE short = DOMAIN markers /\ short # {}
  <2>1. S # {} /\ S \subseteq short
    BY <1>9
  <2>2. n = EOF
    BY <1>3, <1>4, <2>1
  <2> QED BY <1>9, <2>2 DEF n
<1> QED BY <1>5, <1>8, <1>9

LEMMA LongestIs ==
  ASSUME ScanInv
  PROVE  /\ Longest \in Nat \ {0}
         /\ \A i \in DOMAIN Config.line : Len(Config.line[i].start) <= Longest
         /\ \A i \in DOMAIN Config.multi : Len(Config.multi[i].start) <= Longest
         /\ \A i \in DOMAIN Config.strings : Len(Config.strings[i].start) <= Longest
         /\ \/ \E i \in DOMAIN Config.line : Len(Config.line[i].start) = Longest
            \/ \E i \in DOMAIN Config.multi : Len(Config.multi[i].start) = Longest
            \/ \E i \in DOMAIN Config.strings : Len(Config.strings[i].start) = Longest
<1> DEFINE S == {Len(m.start) : m \in ToSet(Config.line) \cup ToSet(Config.multi)
                                        \cup ToSet(Config.strings)}
<1>1. /\ \A i \in DOMAIN Config.line : Len(Config.line[i].start) \in 1 .. 3
      /\ \A i \in DOMAIN Config.multi : Len(Config.multi[i].start) \in 1 .. 3
      /\ \A i \in DOMAIN Config.strings : Len(Config.strings[i].start) \in 1 .. 3
  <2>1. \A i \in DOMAIN Config.line : Len(Config.line[i].start) \in 1 .. 3
    <3> SUFFICES ASSUME NEW i \in DOMAIN Config.line PROVE Len(Config.line[i].start) \in 1 .. 3
      OBVIOUS
    <3>1. LineShape(Config.line[i]) /\ OneLine(Config.line[i].start)
      BY ConfigShape DEF Shape, GoodConfig
    <3> DEFINE n == Len(Config.line[i].start)
    <3>2. n <= 2 /\ n \in Nat \ {0}
      BY <3>1 DEF LineShape, OneLine, Marker
    <3> HIDE DEF n, S
    <3>3. n \in 1 .. 3
      BY <3>2
    <3> QED BY <3>3 DEF n
  <2>2. \A i \in DOMAIN Config.multi : Len(Config.multi[i].start) \in 1 .. 3
    BY ConfigShape DEF Shape, MultiShape
  <2>3. \A i \in DOMAIN Config.strings : Len(Config.strings[i].start) \in 1 .. 3
    <3> SUFFICES ASSUME NEW i \in DOMAIN Config.strings PROVE Len(Config.strings[i].start) \in 1 .. 3
      OBVIOUS
    <3>1. StringShape(Config.strings[i])
      BY ConfigShape DEF Shape
    <3>2. Len(Config.strings[i].start) = 1
      BY <3>1, StringShapeIs
    <3> QED BY <3>2
  <2> QED BY <2>1, <2>2, <2>3
<1>2. /\ \A i \in DOMAIN Config.line : Len(Config.line[i].start) \in S
      /\ \A i \in DOMAIN Config.multi : Len(Config.multi[i].start) \in S
      /\ \A i \in DOMAIN Config.strings : Len(Config.strings[i].start) \in S
  BY DEF ToSet
<1>3. \A n \in S : \/ \E i \in DOMAIN Config.line : Len(Config.line[i].start) = n
                   \/ \E i \in DOMAIN Config.multi : Len(Config.multi[i].start) = n
                   \/ \E i \in DOMAIN Config.strings : Len(Config.strings[i].start) = n
  BY DEF ToSet
<1>4. S # {}
  BY <1>2, ConfigShape DEF Shape
<1> HIDE DEF S
<1>5. S \subseteq 1 .. 3 /\ S \in SUBSET Int
  <2>1. \A n \in S : n \in 1 .. 3
    BY <1>1, <1>3
  <2>2. \A n \in S : n \in Int
    BY <2>1
  <2> QED BY <2>1, <2>2
<1>6. IsFiniteSet(S)
  <2>1. 1 \in Int /\ 3 \in Int
    OBVIOUS
  <2>2. IsFiniteSet(1 .. 3)
    BY <2>1, FS_Interval
  <2> QED BY <1>5, <2>2, FS_Subset
<1>7. Max(S) \in S /\ \A n \in S : n <= Max(S)
  BY <1>4, <1>5, <1>6, MaxOf
<1>8. Longest = Max(S)
  BY DEF Longest, S
<1>9. Longest \in S /\ \A n \in S : n <= Longest
  BY <1>7, <1>8
<1>10. Longest \in 1 .. 3
  BY <1>5, <1>9
<1>11. Longest \in Nat \ {0}
  BY <1>10
<1>12. /\ \A i \in DOMAIN Config.line : Len(Config.line[i].start) <= Longest
       /\ \A i \in DOMAIN Config.multi : Len(Config.multi[i].start) <= Longest
       /\ \A i \in DOMAIN Config.strings : Len(Config.strings[i].start) <= Longest
  BY <1>2, <1>9
<1>13. \/ \E i \in DOMAIN Config.line : Len(Config.line[i].start) = Longest
       \/ \E i \in DOMAIN Config.multi : Len(Config.multi[i].start) = Longest
       \/ \E i \in DOMAIN Config.strings : Len(Config.strings[i].start) = Longest
  BY <1>3, <1>9
<1> QED BY <1>11, <1>12, <1>13

(* The markers that are looked for. *)
LEMMA MatchesAre ==
  ASSUME ScanInv
  PROVE  /\ EOF \in {LineMatch, MultilineMatch, StringMatch} <=> scan.at + Longest > Len(runes)
         /\ scan.at + Longest <= Len(runes) =>
            /\ \/ LineMatch = 0 /\ \A i \in DOMAIN Config.line :
                    (Config.line[i].atLineStart => scan.atLineStart) => ~PeekEqual(Config.line[i].start)
               \/ /\ LineMatch \in DOMAIN Config.line /\ PeekEqual(Config.line[LineMatch].start)
                  /\ Config.line[LineMatch].atLineStart => scan.atLineStart
            /\ \/ MultilineMatch = 0 /\ \A i \in DOMAIN Config.multi :
                    (Config.multi[i].atFirstColumn => scan.atFirstColumn)
                        => ~PeekEqual(Config.multi[i].start)
               \/ /\ MultilineMatch \in DOMAIN Config.multi
                  /\ PeekEqual(Config.multi[MultilineMatch].start)
                  /\ Config.multi[MultilineMatch].atFirstColumn => scan.atFirstColumn
            /\ \/ StringMatch = 0 /\ \A i \in DOMAIN Config.strings : ~PeekEqual(Config.strings[i].start)
               \/ StringMatch \in DOMAIN Config.strings /\ PeekEqual(Config.strings[StringMatch].start)
<1>1. scan.at \in Nat /\ Len(runes) \in Nat
  BY ScanPlace
<1>2. Shape(Config)
  BY ConfigShape
<1>3. \A i \in DOMAIN Config.strings : Len(Config.strings[i].start) = 1
  BY <1>2, StringShapeIs DEF Shape
<1>4. /\ DOMAIN Config.line \subseteq {1} /\ DOMAIN Config.multi \subseteq {1}
      /\ DOMAIN Config.strings \subseteq 1 .. 2
  BY <1>2 DEF Shape
<1>5. /\ \A i, j \in DOMAIN Config.line : AtEnd(Config.line[i].start) => AtEnd(Config.line[j].start)
      /\ \A i, j \in DOMAIN Config.multi : AtEnd(Config.multi[i].start) => AtEnd(Config.multi[j].start)
      /\ \A i, j \in DOMAIN Config.strings :
            AtEnd(Config.strings[i].start) => AtEnd(Config.strings[j].start)
  <2>1. \A i, j \in DOMAIN Config.line : i = j
    BY <1>4
  <2>2. \A i, j \in DOMAIN Config.multi : i = j
    BY <1>4
  <2>3. \A i, j \in DOMAIN Config.strings :
            AtEnd(Config.strings[i].start) => AtEnd(Config.strings[j].start)
    BY <1>3 DEF AtEnd
  <2> QED BY <2>1, <2>2, <2>3
<1>6. /\ DOMAIN Config.line \subseteq 1 .. 2 /\ DOMAIN Config.multi \subseteq 1 .. 2
  BY <1>4
<1> DEFINE L == {i \in DOMAIN Config.line : Config.line[i].atLineStart => scan.atLineStart}
           M == {i \in DOMAIN Config.multi : Config.multi[i].atFirstColumn => scan.atFirstColumn}
<1>7. /\ LineMatch = EOF <=> \E i \in DOMAIN Config.line : AtEnd(Config.line[i].start)
      /\ LineMatch # EOF => \/ LineMatch = 0 /\ \A i \in L : ~PeekEqual(Config.line[i].start)
                            \/ LineMatch \in L /\ PeekEqual(Config.line[LineMatch].start)
  <2>1. L \in SUBSET DOMAIN Config.line /\ LineMatch = FirstMatch(Config.line, L)
    BY DEF LineMatch
  <2> HIDE DEF L
  <2> QED BY <1>5, <1>6, <2>1, FirstMatchSays
<1>8. /\ MultilineMatch = EOF <=> \E i \in DOMAIN Config.multi : AtEnd(Config.multi[i].start)
      /\ MultilineMatch # EOF =>
            \/ MultilineMatch = 0 /\ \A i \in M : ~PeekEqual(Config.multi[i].start)
            \/ MultilineMatch \in M /\ PeekEqual(Config.multi[MultilineMatch].start)
  <2>1. M \in SUBSET DOMAIN Config.multi /\ MultilineMatch = FirstMatch(Config.multi, M)
    BY DEF MultilineMatch
  <2> HIDE DEF M
  <2> QED BY <1>5, <1>6, <2>1, FirstMatchSays
<1>9. /\ StringMatch = EOF <=> \E i \in DOMAIN Config.strings : AtEnd(Config.strings[i].start)
      /\ StringMatch # EOF =>
            \/ StringMatch = 0 /\ \A i \in DOMAIN Config.strings : ~PeekEqual(Config.strings[i].start)
            \/ StringMatch \in DOMAIN Config.strings /\ PeekEqual(Config.strings[StringMatch].start)
  BY <1>4, <1>5, FirstMatchSays DEF StringMatch
<1>10. EOF \in {LineMatch, MultilineMatch, StringMatch} <=> scan.at + Longest > Len(runes)
  <2>1. /\ \A i \in DOMAIN Config.line : Len(Config.line[i].start) \in Nat
        /\ \A i \in DOMAIN Config.multi : Len(Config.multi[i].start) \in Nat
        /\ \A i \in DOMAIN Config.strings : Len(Config.strings[i].start) \in Nat
    BY <1>3, ConfigShape DEF Shape, MultiShape, GoodConfig, OneLine, Marker
  <2>2. ASSUME scan.at + Longest > Len(runes) PROVE EOF \in {LineMatch, MultilineMatch, StringMatch}
    <3>1. \/ \E i \in DOMAIN Config.line : AtEnd(Config.line[i].start)
          \/ \E i \in DOMAIN Config.multi : AtEnd(Config.multi[i].start)
          \/ \E i \in DOMAIN Config.strings : AtEnd(Config.strings[i].start)
      BY <2>2, LongestIs DEF AtEnd
    <3> QED BY <1>7, <1>8, <1>9, <3>1
  <2>3. ASSUME scan.at + Longest <= Len(runes) PROVE EOF \notin {LineMatch, MultilineMatch, StringMatch}
    <3>1. /\ \A i \in DOMAIN Config.line : ~AtEnd(Config.line[i].start)
          /\ \A i \in DOMAIN Config.multi : ~AtEnd(Config.multi[i].start)
          /\ \A i \in DOMAIN Config.strings : ~AtEnd(Config.strings[i].start)
      BY <1>1, <2>1, <2>3, LongestIs DEF AtEnd
    <3> QED BY <1>7, <1>8, <1>9, <3>1
  <2> QED BY <1>1, <2>2, <2>3, LongestIs
<1>11. ASSUME scan.at + Longest <= Len(runes)
       PROVE  LineMatch # EOF /\ MultilineMatch # EOF /\ StringMatch # EOF
  <2>1. ~(scan.at + Longest > Len(runes))
    BY <1>1, <1>11, LongestIs
  <2> QED BY <1>10, <2>1
<1> QED BY <1>7, <1>8, <1>9, <1>10, <1>11

LEMMA ReadsOne ==
  ASSUME NEW text, Len(text) \in Nat, NEW i \in Nat, NEW x
  PROVE  Reads(text, i, <<x>>) <=> i < Len(text) /\ text[i + 1] = x
<1>1. ASSUME NEW m, m = <<x>> PROVE Len(m) = 1 /\ DOMAIN m = {1} /\ m[1] = x
  BY <1>1
<1>2. ASSUME NEW m, Len(m) = 1, DOMAIN m = {1}, m[1] = x
      PROVE  Reads(text, i, m) <=> i < Len(text) /\ text[i + 1] = x
  BY <1>2 DEF Reads
<1> QED BY <1>1, <1>2

LEMMA ReadsTwo ==
  ASSUME NEW text, Len(text) \in Nat, NEW i \in Nat, NEW x, NEW y
  PROVE  Reads(text, i, <<x, y>>) <=> i + 2 <= Len(text) /\ text[i + 1] = x /\ text[i + 2] = y
<1>1. ASSUME NEW m, m = <<x, y>> PROVE Len(m) = 2 /\ DOMAIN m = {1, 2} /\ m[1] = x /\ m[2] = y
  BY <1>1
<1>2. ASSUME NEW m, Len(m) = 2, DOMAIN m = {1, 2}, m[1] = x, m[2] = y
      PROVE  Reads(text, i, m) <=> i + 2 <= Len(text) /\ text[i + 1] = x /\ text[i + 2] = y
  <2>1. Reads(text, i, m) <=> i + 2 <= Len(text) /\ text[i + 1] = m[1] /\ text[i + 2] = m[2]
    BY <1>2 DEF Reads
  <2> QED BY <1>2, <2>1
<1> QED BY <1>1, <1>2

LEMMA PeekOne ==
  ASSUME ScanInv, NEW x
  PROVE  /\ PeekEqual(<<x>>) <=> scan.at < Len(runes) /\ runes[scan.at + 1] = x
         /\ AtEnd(<<x>>) <=> ~(scan.at < Len(runes))
<1>1. scan.at \in Nat /\ Len(runes) \in Nat
  BY ScanPlace
<1>2. Len(<<x>>) = 1
  OBVIOUS
<1>3. AtEnd(<<x>>) <=> ~(scan.at < Len(runes))
  BY <1>1, <1>2 DEF AtEnd
<1> QED BY <1>1, <1>3, ReadsOne DEF PeekEqual

LEMMA PeekTwo ==
  ASSUME ScanInv, NEW x, NEW y
  PROVE  PeekEqual(<<x, y>>) <=> /\ scan.at + 2 <= Len(runes)
                                 /\ runes[scan.at + 1] = x /\ runes[scan.at + 2] = y
<1>1. scan.at \in Nat /\ Len(runes) \in Nat
  BY ScanPlace
<1> QED BY <1>1, ReadsTwo DEF PeekEqual

(* The runes of a piece, the scanner being p runes behind its start.       *)
LEMMA PieceRunes ==
  ASSUME ScanInv, FileInv, NEW k \in DOMAIN file, NEW p \in Nat, scan.at = file[k].at + p
  PROVE  /\ Len(Text(k)) \in Nat \ {0} /\ file[k].at \in Nat
         /\ EndOf(k) = file[k].at + Len(Text(k)) /\ EndOf(k) \in Nat /\ EndOf(k) <= Len(runes)
         /\ p < Len(Text(k)) => scan.at < Len(runes) /\ runes[scan.at + 1] = Text(k)[p + 1]
         /\ p + 2 <= Len(Text(k)) => scan.at + 2 <= Len(runes) /\ runes[scan.at + 2] = Text(k)[p + 2]
         /\ 0 < p /\ p <= Len(Text(k)) => runes[scan.at] = Text(k)[p]
<1>1. Len(Text(k)) \in Nat \ {0} /\ file[k].at \in Nat /\ EndOf(k) = file[k].at + Len(Text(k))
  BY FileIs DEF ScanInv
<1>2. EndOf(k) <= Len(runes) /\ \A n \in 1 .. Len(Text(k)) : runes[file[k].at + n] = Text(k)[n]
  BY DEF FileInv
<1>3. Len(runes) \in Nat
  BY ScanPlace
<1> DEFINE t == Text(k)
           at == file[k].at
<1>4. Len(t) \in Nat \ {0} /\ at \in Nat /\ at + Len(t) <= Len(runes) /\ scan.at = at + p
  BY <1>1, <1>2
<1>5. \A n \in 1 .. Len(t) : runes[at + n] = t[n]
  BY <1>2
<1> HIDE DEF t, at
<1>6. p < Len(t) => scan.at < Len(runes) /\ runes[scan.at + 1] = t[p + 1]
  <2> SUFFICES ASSUME p < Len(t) PROVE scan.at < Len(runes) /\ runes[scan.at + 1] = t[p + 1]
    OBVIOUS
  <2>1. p + 1 \in 1 .. Len(t) /\ at + (p + 1) = scan.at + 1 /\ scan.at < Len(runes)
    BY <1>3, <1>4
  <2> QED BY <1>5, <2>1
<1>7. p + 2 <= Len(t) => scan.at + 2 <= Len(runes) /\ runes[scan.at + 2] = t[p + 2]
  <2> SUFFICES ASSUME p + 2 <= Len(t)
               PROVE  scan.at + 2 <= Len(runes) /\ runes[scan.at + 2] = t[p + 2]
    OBVIOUS
  <2>1. p + 2 \in 1 .. Len(t) /\ at + (p + 2) = scan.at + 2 /\ scan.at + 2 <= Len(runes)
    BY <1>3, <1>4
  <2> QED BY <1>5, <2>1
<1>8. 0 < p /\ p <= Len(t) => runes[scan.at] = t[p]
  <2> SUFFICES ASSUME 0 < p, p <= Len(t) PROVE runes[scan.at] = t[p]
    OBVIOUS
  <2>1. p \in 1 .. Len(t)
    BY <1>4
  <2> QED BY <1>4, <1>5, <2>1
<1>9. EndOf(k) \in Nat
  BY <1>1
<1> QED BY <1>1, <1>2, <1>6, <1>7, <1>8, <1>9 DEF t, at

(* What a marker says in the text of a piece it says in the file.          *)
LEMMA PeekIn ==
  ASSUME ScanInv, FileInv, NEW k \in DOMAIN file, NEW p \in Nat, scan.at = file[k].at + p,
         NEW m, Marker(m)
  PROVE  /\ p + Len(m) <= Len(Text(k)) =>
              ~AtEnd(m) /\ (PeekEqual(m) <=> Reads(Text(k), p, m))
         /\ Differs(Text(k), p, m) => ~PeekEqual(m)
<1> DEFINE t == Text(k)
           at == file[k].at
           w == Len(m)
<1>1. Len(t) \in Nat /\ at \in Nat /\ at + Len(t) <= Len(runes) /\ scan.at = at + p
  BY PieceRunes
<1>2. \A n \in 1 .. Len(t) : runes[at + n] = t[n]
  BY DEF FileInv
<1>3. Len(runes) \in Nat /\ w \in Nat /\ DOMAIN m = 1 .. w
  BY ScanPlace DEF Marker
<1>4. /\ AtEnd(m) <=> scan.at + w > Len(runes)
      /\ PeekEqual(m) <=> scan.at + w <= Len(runes) /\ \A j \in 1 .. w : runes[scan.at + j] = m[j]
      /\ Reads(t, p, m) <=> p + w <= Len(t) /\ \A j \in 1 .. w : t[p + j] = m[j]
      /\ Differs(t, p, m) <=> \E j \in 1 .. w : p + j <= Len(t) /\ t[p + j] # m[j]
  BY <1>3 DEF AtEnd, PeekEqual, Reads, Differs
<1> HIDE DEF t, at, w
<1>5. \A j \in 1 .. w : p + j <= Len(t) => runes[scan.at + j] = t[p + j]
  <2> SUFFICES ASSUME NEW j \in 1 .. w, p + j <= Len(t) PROVE runes[scan.at + j] = t[p + j]
    OBVIOUS
  <2>1. p + j \in 1 .. Len(t) /\ at + (p + j) = scan.at + j
    BY <1>1, <1>3
  <2> QED BY <1>2, <2>1
<1>6. ASSUME p + w <= Len(t) PROVE ~AtEnd(m) /\ (PeekEqual(m) <=> Reads(t, p, m))
  <2>1. scan.at + w <= Len(runes)
    BY <1>1, <1>3, <1>6
  <2>2. ~(scan.at + w > Len(runes))
    BY <1>1, <1>3, <2>1
  <2>3. \A j \in 1 .. w : p + j <= Len(t)
    BY <1>1, <1>3, <1>6
  <2> QED BY <1>4, <1>5, <1>6, <2>1, <2>2, <2>3
<1>7. Differs(t, p, m) => ~PeekEqual(m)
  BY <1>4, <1>5
<1> QED BY <1>6, <1>7 DEF t, w

LEMMA LegibleIs ==
  ASSUME ScanInv, FileInv, AllLegible, NEW k \in DOMAIN file
  PROVE  \/ Kind(k) = "code" /\ CodeFrom(Config, Text(k), 0)
         \/ Kind(k) = "line" /\ IsLine(Config, Text(k))
         \/ Kind(k) \in {"multi", "column"} /\ IsMulti(Config, Text(k), Kind(k))
<1>1. lang \in DOMAIN Pieces /\ file[k].piece \in Legible[lang]
  BY DEF ScanInv, AllLegible
<1>2. IsLegible(Config, file[k].piece)
  BY <1>1 DEF Legible, Config
<1> QED BY <1>2 DEF IsLegible, Kind, Text

(* A piece is followed by the next, or it is the last.                     *)
LEMMA NextPiece ==
  ASSUME ScanInv, FileInv, NEW k \in DOMAIN file
  PROVE  /\ k \in Nat /\ k + 1 \in 1 .. Len(file) + 1
         /\ k + 1 \in DOMAIN file => file[k + 1].at = EndOf(k)
         /\ k + 1 \notin DOMAIN file => k + 1 = Len(file) + 1 /\ EndOf(k) = Len(runes)
         /\ EndOf(k) < Len(runes) => k + 1 \in DOMAIN file
<1>1. Len(file) \in Nat /\ DOMAIN file = 1 .. Len(file) /\ EndOf(k) \in Nat
  BY FileIs DEF ScanInv
<1>2. k \in Nat /\ k + 1 \in 1 .. Len(file) + 1 /\ k + 1 - 1 = k
  BY <1>1
<1>3. k + 1 \in DOMAIN file => file[k + 1].at = EndOf(k)
  BY <1>2 DEF FileInv
<1>4. k + 1 \notin DOMAIN file => k + 1 = Len(file) + 1 /\ EndOf(k) = Len(runes)
  <2> SUFFICES ASSUME k + 1 \notin DOMAIN file PROVE k + 1 = Len(file) + 1 /\ EndOf(k) = Len(runes)
    OBVIOUS
  <2>1. k = Len(file)
    BY <1>1, <1>2
  <2> QED BY <2>1 DEF FileInv
<1>5. EndOf(k) < Len(runes) => k + 1 \in DOMAIN file
  BY <1>1, <1>4
<1> QED BY <1>2, <1>3, <1>4, <1>5

(* Code goes on behind a rune that begins nothing, and behind a string.    *)
LEMMA CodeSplits ==
  ASSUME NEW c, NEW text, Len(text) \in Nat, NEW p \in Nat, p < Len(text), CodeFrom(c, text, p)
  PROVE  \/ /\ NoLine(c, text, p) /\ NoMulti(c, text, p) /\ NoString(c, text, p)
            /\ CodeFrom(c, text, p + 1)
         \/ \E b \in Nat, m \in ToSet(c.strings) :
               b <= Len(text) /\ IsString(c, m, text, p, b) /\ CodeFrom(c, text, b)
<1> DEFINE w == Len(text)
           Rest(S) == \A a \in S \ {w} :
              \/ a + 1 \in S /\ NoLine(c, text, a) /\ NoMulti(c, text, a) /\ NoString(c, text, a)
              \/ \E b \in S, m \in ToSet(c.strings) : IsString(c, m, text, a, b)
<1>1. PICK cuts \in SUBSET (p .. w) : {p, w} \subseteq cuts /\ Rest(cuts)
  BY DEF CodeFrom
<1>2. \A b \in Nat : \A S \in SUBSET (b .. w) : {b, w} \subseteq S /\ Rest(S) => CodeFrom(c, text, b)
  BY DEF CodeFrom
<1>3. \A a, b, m : IsString(c, m, text, a, b) => a + 2 <= b
  BY DEF IsString
<1>0. w \in Nat /\ p < w
  OBVIOUS
<1>4. ASSUME NEW b \in cuts PROVE CodeFrom(c, text, b) /\ b \in Nat /\ b <= w
  <2> DEFINE S == cuts \cap (b .. w)
  <2>0. b \in Nat /\ p <= b /\ b <= w /\ \A a \in cuts : a \in Nat /\ a <= w
    BY <1>0, <1>1
  <2>1. S \in SUBSET (b .. w) /\ {b, w} \subseteq S
    BY <1>0, <1>1, <2>0
  <2>2. ASSUME NEW a \in S \ {w}
        PROVE  \/ a + 1 \in S /\ NoLine(c, text, a) /\ NoMulti(c, text, a) /\ NoString(c, text, a)
               \/ \E d \in S, m \in ToSet(c.strings) : IsString(c, m, text, a, d)
    <3>1. a \in cuts \ {w} /\ a \in Nat /\ b <= a /\ a < w
      BY <1>0, <2>0
    <3>2. CASE /\ a + 1 \in cuts
               /\ NoLine(c, text, a) /\ NoMulti(c, text, a) /\ NoString(c, text, a)
      <4>1. a + 1 \in b .. w
        BY <1>0, <2>0, <3>1
      <4> QED BY <3>2, <4>1
    <3>3. CASE \E d \in cuts, m \in ToSet(c.strings) : IsString(c, m, text, a, d)
      <4>1. PICK d \in cuts, m \in ToSet(c.strings) : IsString(c, m, text, a, d)
        BY <3>3
      <4>2. d \in Nat /\ d <= w /\ a + 2 <= d
        BY <1>3, <2>0, <4>1
      <4>3. d \in b .. w
        BY <1>0, <2>0, <3>1, <4>2
      <4> QED BY <4>1, <4>3
    <3> QED BY <1>1, <3>1, <3>2, <3>3
  <2> HIDE DEF S
  <2>3. Rest(S)
    BY <2>2
  <2> HIDE DEF Rest, w
  <2> QED BY <1>2, <2>0, <2>1, <2>3
<1>5. p \in cuts \ {w}
  BY <1>0, <1>1
<1>6. CASE /\ p + 1 \in cuts
           /\ NoLine(c, text, p) /\ NoMulti(c, text, p) /\ NoString(c, text, p)
  BY <1>4, <1>6
<1>7. CASE \E b \in cuts, m \in ToSet(c.strings) : IsString(c, m, text, p, b)
  BY <1>4, <1>7
<1> QED BY <1>1, <1>5, <1>6, <1>7

LEMMA UptoCode ==
  ASSUME ScanInv, FileInv, NEW i \in DOMAIN file, Kind(i) = "code", NEW f, Upto(f, i)
  PROVE  Upto(f, i + 1)
<1>1. DOMAIN file = 1 .. Len(file) /\ Len(file) \in Nat
  BY FileIs DEF ScanInv
<1>2. \A k \in DOMAIN file : Kind(k) # "code" => (k < i + 1 <=> k < i)
  BY <1>1
<1>3. {k \in DOMAIN file : k < i + 1 /\ Kind(k) # "code"} = {k \in DOMAIN file : k < i /\ Kind(k) # "code"}
  BY <1>2
<1> QED BY <1>2, <1>3 DEF Upto

(* The i-th piece was reported.                                            *)
LEMMA UptoComment ==
  ASSUME ScanInv, FileInv, NEW i \in DOMAIN file, Kind(i) # "code", Upto(found, i),
         file[i].at + Longest <= Len(runes),
         NEW f, f = Append(found, CommentOf(file[i]))
  PROVE  Upto(f, i + 1)
<1>1. DOMAIN file = 1 .. Len(file) /\ Len(file) \in Nat
  BY FileIs DEF ScanInv
<1>2. \A k \in DOMAIN file : k < i + 1 <=> k < i \/ k = i
  BY <1>1
<1>3. ToSet(f) = ToSet(found) \cup {CommentOf(file[i])}
  <2> DEFINE x == CommentOf(file[i])
  <2>1. Len(found) \in Nat /\ DOMAIN found = 1 .. Len(found)
    BY DEF ScanInv, FoundInv
  <2> DEFINE w == Len(found)
  <2>2. /\ DOMAIN f = 1 .. w + 1 /\ f[w + 1] = x
        /\ \A k \in 1 .. w : f[k] = found[k]
    <3>1. found \in Seq([start : Nat, end : Nat, line : Nat])
      BY DEF ScanInv, FoundInv
    <3> HIDE DEF x
    <3> QED BY <3>1 DEF x
  <2> HIDE DEF w, x
  <2>3. w \in Nat /\ DOMAIN found = 1 .. w
    BY <2>1 DEF w
  <2>4. \A k \in 1 .. w + 1 : k \in 1 .. w \/ k = w + 1
    BY <2>3
  <2>5. w + 1 \in 1 .. w + 1 /\ \A k \in 1 .. w : k \in 1 .. w + 1
    BY <2>3
  <2> QED BY <2>2, <2>3, <2>4, <2>5 DEF ToSet, x
<1> DEFINE Old == {k \in DOMAIN file : k < i /\ Kind(k) # "code"}
           New == {k \in DOMAIN file : k < i + 1 /\ Kind(k) # "code"}
<1>4. New = Old \cup {i}
  BY <1>2
<1>5. ToSet(found) = {CommentOf(file[k]) : k \in Old}
  BY DEF Upto
<1> HIDE DEF Old, New
<1>6. ToSet(f) = {CommentOf(file[k]) : k \in New}
  BY <1>3, <1>4, <1>5
<1>7. \A k \in DOMAIN file : k < i + 1 /\ Kind(k) # "code" => file[k].at + Longest <= Len(runes)
  BY <1>2 DEF Upto
<1> QED BY <1>6, <1>7 DEF Upto, New

(* The scanner is back in code behind the i-th piece.                      *)
LEMMA AtNext ==
  ASSUME ScanInv, FileInv, NEW i \in DOMAIN file, NEW f, Upto(f, i + 1),
         NEW s, s.at = EndOf(i), s.in = "code"
  PROVE  Progress(s, f)
<1>1. i + 1 \in 1 .. Len(file) + 1
  BY NextPiece
<1>2. CodeAt(s, i + 1)
  BY NextPiece DEF CodeAt
<1> QED BY <1>1, <1>2 DEF Progress

(* The scanner is in code behind p runes of the i-th piece.                *)
LEMMA CodeOn ==
  ASSUME ScanInv, FileInv, NEW i \in DOMAIN file, Kind(i) = "code", NEW f, Upto(f, i),
         NEW s, s.in = "code", NEW p \in Nat, 0 < p, p <= Len(Text(i)), s.at = file[i].at + p,
         CodeFrom(Config, Text(i), p)
  PROVE  Progress(s, f)
<1>1. Len(Text(i)) \in Nat /\ EndOf(i) = file[i].at + Len(Text(i)) /\ file[i].at \in Nat
  BY FileIs DEF ScanInv
<1>2. CASE p = Len(Text(i))
  BY <1>1, <1>2, UptoCode, AtNext
<1>3. CASE p < Len(Text(i))
  <2>1. CodeAt(s, i)
    BY <1>3 DEF CodeAt
  <2>2. i \in 1 .. Len(file) + 1
    <3>1. DOMAIN file = 1 .. Len(file) /\ Len(file) \in Nat
      BY FileIs DEF ScanInv
    <3> QED BY <3>1
  <2> QED BY <2>1, <2>2 DEF Progress
<1> QED BY <1>1, <1>2, <1>3

(* The scanner has read the quote of the string between a and b.           *)
LEMMA StringBegun ==
  ASSUME ScanInv, FileInv, NEW i \in DOMAIN file, Kind(i) = "code", NEW f, Upto(f, i),
         NEW j \in DOMAIN Config.strings, NEW a \in Nat, NEW b \in Nat, b <= Len(Text(i)),
         IsString(Config, Config.strings[j], Text(i), a, b), CodeFrom(Config, Text(i), b),
         NEW s, s.in \in {"string", "lineOrString"}, s.index = j, s.at = file[i].at + (a + 1),
         s.in = "lineOrString" => /\ Config.strings[j].escape = "char"
                                  /\ \A n \in a + 1 .. b : Text(i)[n] # "nl"
  PROVE  Progress(s, f)
<1> DEFINE m == Config.strings[j]
           t == Text(i)
           p == a + 1
<1>1. StringShape(m)
  BY ConfigShape DEF Shape
<1>2. m.end[1] \in Quotes /\ m.start = <<m.end[1]>>
  BY <1>1, StringShapeIs
<1>3. Len(t) \in Nat
  BY FileIs DEF ScanInv
<1>4. a + 2 <= b /\ t[a + 1] = m.end[1]
  <2>1. a + 2 <= b /\ Reads(t, a, m.start)
    BY DEF IsString
  <2>2. Reads(t, a, <<m.end[1]>>)
    BY <1>2, <2>1
  <2> HIDE DEF t, m
  <2> QED BY <1>3, <2>1, <2>2, ReadsOne
<1>5. p \in Nat /\ a < p /\ p < b
  BY <1>4
<1>6. Apart(m, t, a, b, p)
  <2>1. CASE m.escape = "char"
    <3>1. t[p] # "bs"
      BY <1>2, <1>4 DEF Quotes
    <3> QED BY <2>1, <3>1 DEF Apart
  <2>2. CASE m.escape = "double"
    <3>1. DoubleEscapes(m.end[1], t, a + 2, b)
      BY <2>2 DEF IsString
    <3>2. \A pairs \in SUBSET (a + 2 .. b - 1) : p \notin pairs
      BY <1>5
    <3>3. m.escape # "char"
      BY <2>2
    <3> QED BY <3>1, <3>2, <3>3 DEF Apart, DoubleEscapes
  <2> QED BY <1>1, <2>1, <2>2 DEF StringShape
<1>7. InStringAt(s, i, p)
  <2> HIDE DEF m, p
  <2> QED BY <1>5, <1>6 DEF InStringAt, m
<1>8. InPiece(s, i, p)
  BY <1>7 DEF InPiece
<1>9. i \in 1 .. Len(file) + 1
  <2>1. DOMAIN file = 1 .. Len(file) /\ Len(file) \in Nat
    BY FileIs DEF ScanInv
  <2> QED BY <2>1
<1> QED BY <1>5, <1>8, <1>9 DEF Progress

-----------------------------------------------------------------------------
(* Code.                                                                   *)

(* Which markers the scanner sees in code.                                 *)
LineHere(i) ==
    /\ i \in DOMAIN Config.line /\ PeekEqual(Config.line[i].start)
    /\ Config.line[i].atLineStart => scan.atLineStart

MultiHere(i) ==
    /\ i \in DOMAIN Config.multi /\ PeekEqual(Config.multi[i].start)
    /\ Config.multi[i].atFirstColumn => scan.atFirstColumn

StringHere(i) == i \in DOMAIN Config.strings /\ PeekEqual(Config.strings[i].start)

LEMMA HereOnce ==
  ASSUME ScanInv
  PROVE  /\ \A i, j : LineHere(i) /\ LineHere(j) => i = j
         /\ \A i, j : MultiHere(i) /\ MultiHere(j) => i = j
         /\ \A i, j : StringHere(i) /\ StringHere(j) => i = j
         /\ \A i : StringHere(i) => /\ Len(Config.strings[i].start) = 1 /\ scan.at + 1 <= Len(runes)
                                    /\ runes[scan.at + 1] = Config.strings[i].end[1]
<1>1. Shape(Config)
  BY ConfigShape
<1>2. \A i \in DOMAIN Config.line, j \in DOMAIN Config.line : i = j
  BY <1>1 DEF Shape
<1>3. \A i \in DOMAIN Config.multi, j \in DOMAIN Config.multi : i = j
  BY <1>1 DEF Shape
<1>4. ASSUME NEW i, StringHere(i)
      PROVE  /\ i \in DOMAIN Config.strings /\ Len(Config.strings[i].start) = 1
             /\ scan.at + 1 <= Len(runes)
             /\ Config.strings[i].end = <<Config.strings[i].end[1]>>
             /\ runes[scan.at + 1] = Config.strings[i].end[1]
  <2> DEFINE m == Config.strings[i]
  <2>1. i \in DOMAIN Config.strings /\ PeekEqual(m.start)
    BY <1>4 DEF StringHere
  <2>2. StringShape(m)
    BY <1>1, <2>1 DEF Shape
  <2> HIDE DEF m
  <2>3. Len(m.start) = 1 /\ m.end = <<m.end[1]>> /\ m.start = m.end
    BY <2>2, StringShapeIs
  <2>4. PeekEqual(<<m.end[1]>>)
    BY <2>1, <2>3
  <2>5. scan.at < Len(runes) /\ runes[scan.at + 1] = m.end[1]
    BY <2>4, PeekOne
  <2>6. scan.at + 1 <= Len(runes)
    BY <2>5, ScanPlace
  <2> QED BY <2>1, <2>3, <2>5, <2>6 DEF m
<1>5. \A i, j : StringHere(i) /\ StringHere(j) => i = j
  <2> SUFFICES ASSUME NEW i, NEW j, StringHere(i), StringHere(j) PROVE i = j
    OBVIOUS
  <2>1. Config.strings[i].end = Config.strings[j].end
    BY <1>4
  <2> QED BY <1>1, <1>4, <2>1 DEF Shape
<1>6. \A i, j : LineHere(i) /\ LineHere(j) => i = j
  BY <1>2 DEF LineHere
<1>7. \A i, j : MultiHere(i) /\ MultiHere(j) => i = j
  BY <1>3 DEF MultiHere
<1> QED BY <1>4, <1>5, <1>6, <1>7

LEMMA InCodeIs ==
  ASSUME ScanInv, InCode, scan.at + Longest <= Len(runes)
  PROVE  /\ \A i : MultiHere(i) => scan' = Enter("multi", i, Len(Config.multi[i].start))
         /\ (\A i : ~MultiHere(i)) =>
              /\ (\A i : ~LineHere(i)) /\ (\A j : ~StringHere(j)) => scan' = NextRune(scan)
              /\ \A j : (\A i : ~LineHere(i)) /\ StringHere(j) => scan' = Enter("string", j, 1)
              /\ \A i, j : LineHere(i) /\ StringHere(j) /\ Len(Config.line[i].start) = 1
                               => scan' = Enter("lineOrString", j, 1)
              /\ \A i : LineHere(i) /\ ((\A j : ~StringHere(j)) \/ Len(Config.line[i].start) # 1)
                               => scan' = Enter("line", i, 0)
<1> DEFINE line == LengthOf(Config.line, LineMatch)
           multi == LengthOf(Config.multi, MultilineMatch)
           string == LengthOf(Config.strings, StringMatch)
           choice == Choice(line, multi, string)
<1>1. Shape(Config) /\ GoodConfig(Config)
  BY ConfigShape
<1>2. scan.at \in Nat /\ Len(runes) \in Nat
  BY ScanPlace
<1>3. EOF \notin {LineMatch, MultilineMatch, StringMatch}
  <2>1. ~(scan.at + Longest > Len(runes))
    BY <1>2, LongestIs
  <2> QED BY <2>1, MatchesAre
<1>4. scan' = CASE choice = "code" -> NextRune(scan)
                [] choice = "multi" -> Enter("multi", MultilineMatch, multi)
                [] choice = "line" -> Enter("line", LineMatch, 0)
                [] choice \in {"lineOrString", "string"} -> Enter(choice, StringMatch, string)
  BY <1>3 DEF InCode
<1>5. \A n : n \in 1 .. 2 => n # 0 /\ n # EOF
  BY DEF EOF
<1>6. \/ LineMatch = 0 /\ (\A i : ~LineHere(i)) /\ line = 0
      \/ /\ LineHere(LineMatch) /\ line = Len(Config.line[LineMatch].start)
         /\ line \in Nat /\ line > 0
  <2>1. \/ LineMatch = 0 /\ \A i : ~LineHere(i)
        \/ LineHere(LineMatch)
    BY MatchesAre DEF LineHere
  <2>2. LineMatch = 0 => line = 0
    BY DEF LengthOf
  <2>3. ASSUME LineHere(LineMatch)
        PROVE  line = Len(Config.line[LineMatch].start) /\ line \in Nat /\ line > 0
    <3>1. LineMatch \in DOMAIN Config.line /\ LineMatch \in 1 .. 2
      BY <1>1, <2>3 DEF LineHere, Shape
    <3>2. line = Len(Config.line[LineMatch].start)
      BY <1>5, <3>1 DEF LengthOf
    <3>3. Marker(Config.line[LineMatch].start)
      BY <1>1, <3>1 DEF GoodConfig, OneLine
    <3> QED BY <3>2, <3>3 DEF Marker
  <2> QED BY <2>1, <2>2, <2>3
<1>7. \/ MultilineMatch = 0 /\ (\A i : ~MultiHere(i)) /\ multi = 0
      \/ /\ MultiHere(MultilineMatch) /\ multi = Len(Config.multi[MultilineMatch].start)
         /\ multi \in Nat /\ multi > 0
  <2>1. \/ MultilineMatch = 0 /\ \A i : ~MultiHere(i)
        \/ MultiHere(MultilineMatch)
    BY MatchesAre DEF MultiHere
  <2>2. MultilineMatch = 0 => multi = 0
    BY DEF LengthOf
  <2>3. ASSUME MultiHere(MultilineMatch)
        PROVE  multi = Len(Config.multi[MultilineMatch].start) /\ multi \in Nat /\ multi > 0
    <3>1. MultilineMatch \in DOMAIN Config.multi /\ MultilineMatch \in 1 .. 2
      BY <1>1, <2>3 DEF MultiHere, Shape
    <3>2. multi = Len(Config.multi[MultilineMatch].start)
      BY <1>5, <3>1 DEF LengthOf
    <3>3. Marker(Config.multi[MultilineMatch].start)
      BY <1>1, <3>1 DEF GoodConfig
    <3> QED BY <3>2, <3>3 DEF Marker
  <2> QED BY <2>1, <2>2, <2>3
<1>8. \/ StringMatch = 0 /\ (\A i : ~StringHere(i)) /\ string = 0
      \/ StringHere(StringMatch) /\ string = 1
  <2>1. \/ StringMatch = 0 /\ \A i : ~StringHere(i)
        \/ StringHere(StringMatch)
    BY MatchesAre DEF StringHere
  <2>2. StringMatch = 0 => string = 0
    BY DEF LengthOf
  <2>3. ASSUME StringHere(StringMatch) PROVE string = 1
    <3>1. StringMatch \in 1 .. 2
      BY <1>1, <2>3 DEF StringHere, Shape
    <3>2. string = Len(Config.strings[StringMatch].start)
      BY <1>5, <3>1 DEF LengthOf
    <3> QED BY <2>3, <3>2, HereOnce
  <2> QED BY <2>1, <2>2, <2>3
<1> HIDE DEF line, multi, string, choice
<1>9. choice = IF line = 0 /\ multi = 0 /\ string = 0 THEN "code"
               ELSE IF line <= multi /\ string <= multi THEN "multi"
               ELSE IF line = string THEN "lineOrString"
               ELSE IF string < line THEN "line" ELSE "string"
  BY <1>6, <1>7, <1>8, ChoiceIs DEF choice
<1>10. ASSUME NEW i, MultiHere(i)
       PROVE  scan' = Enter("multi", i, Len(Config.multi[i].start))
  <2>1. i = MultilineMatch /\ multi = Len(Config.multi[i].start) /\ multi \in Nat /\ multi > 0
    BY <1>7, <1>10, HereOnce
  <2>2. line <= multi
    <3>1. CASE line = 0
      BY <2>1, <3>1
    <3>2. CASE LineHere(LineMatch) /\ line = Len(Config.line[LineMatch].start)
      BY <1>1, <1>10, <2>1, <3>2 DEF Shape, LineHere, MultiHere
    <3> QED BY <1>6, <3>1, <3>2
  <2>3. choice = "multi"
    BY <1>8, <1>9, <2>1, <2>2
  <2> QED BY <1>4, <2>1, <2>3
<1>11. ASSUME \A i : ~MultiHere(i)
       PROVE  /\ (\A i : ~LineHere(i)) /\ (\A j : ~StringHere(j)) => scan' = NextRune(scan)
              /\ \A j : (\A i : ~LineHere(i)) /\ StringHere(j) => scan' = Enter("string", j, 1)
              /\ \A i, j : LineHere(i) /\ StringHere(j) /\ Len(Config.line[i].start) = 1
                               => scan' = Enter("lineOrString", j, 1)
              /\ \A i : LineHere(i) /\ ((\A j : ~StringHere(j)) \/ Len(Config.line[i].start) # 1)
                               => scan' = Enter("line", i, 0)
  <2>1. multi = 0
    BY <1>7, <1>11
  <2>2. ASSUME \A i : ~LineHere(i), \A j : ~StringHere(j) PROVE scan' = NextRune(scan)
    <3>1. choice = "code"
      BY <1>6, <1>8, <1>9, <2>1, <2>2
    <3> QED BY <1>4, <3>1
  <2>3. ASSUME NEW j, \A i : ~LineHere(i), StringHere(j) PROVE scan' = Enter("string", j, 1)
    <3>1. line = 0 /\ string = 1 /\ StringMatch = j
      BY <1>6, <1>8, <2>3, HereOnce
    <3>2. choice = "string"
      BY <1>9, <2>1, <3>1
    <3> QED BY <1>4, <3>1, <3>2
  <2>4. ASSUME NEW i, NEW j, LineHere(i), StringHere(j), Len(Config.line[i].start) = 1
        PROVE  scan' = Enter("lineOrString", j, 1)
    <3>1. line = 1 /\ string = 1 /\ StringMatch = j
      BY <1>6, <1>8, <2>4, HereOnce
    <3>2. choice = "lineOrString"
      BY <1>9, <2>1, <3>1
    <3> QED BY <1>4, <3>1, <3>2
  <2>5. ASSUME NEW i, LineHere(i), (\A j : ~StringHere(j)) \/ Len(Config.line[i].start) # 1
        PROVE  scan' = Enter("line", i, 0)
    <3>1. line = Len(Config.line[i].start) /\ line \in Nat /\ line > 0 /\ LineMatch = i
      BY <1>6, <2>5, HereOnce
    <3>2. string < line
      <4>1. (string = 0 /\ \A j : ~StringHere(j)) \/ (string = 1 /\ \E j : StringHere(j))
        BY <1>8
      <4>2. string = 0 \/ (string = 1 /\ line # 1)
        BY <2>5, <3>1, <4>1
      <4>3. line \in Nat /\ line > 0
        BY <3>1
      <4> QED BY <4>2, <4>3
    <3>3. choice = "line"
      BY <1>8, <1>9, <2>1, <3>1, <3>2
    <3> QED BY <1>4, <3>1, <3>3
  <2> QED BY <2>2, <2>3, <2>4, <2>5
<1> QED BY <1>10, <1>11

(* What cannot begin in a piece is not seen there.                         *)
LEMMA NoneHere ==
  ASSUME ScanInv, FileInv, Columns(scan), NEW i \in DOMAIN file, NEW p \in Nat, p <= Len(Text(i)),
         scan.at = file[i].at + p
  PROVE  /\ NoLine(Config, Text(i), p) => \A j : ~LineHere(j)
         /\ NoMulti(Config, Text(i), p) => \A j : ~MultiHere(j)
         /\ NoString(Config, Text(i), p) => \A j : ~StringHere(j)
<1> DEFINE t == Text(i)
<1>1. GoodConfig(Config)
  BY ConfigShape
<1>2. \A m : Marker(m) /\ Differs(t, p, m) => ~PeekEqual(m)
  BY PeekIn
<1>3. scan.at \in Nat /\ (p > 0 => scan.at > 0 /\ runes[scan.at] = t[p])
  <2>1. file[i].at \in Nat /\ (p > 0 => runes[scan.at] = t[p])
    BY PieceRunes
  <2> QED BY <2>1
<1> HIDE DEF t
<1>4. ASSUME NoLine(Config, t, p), NEW j, LineHere(j) PROVE FALSE
  <2> DEFINE m == Config.line[j]
  <2>1. j \in DOMAIN Config.line /\ PeekEqual(m.start) /\ (m.atLineStart => scan.atLineStart)
    BY <1>4 DEF LineHere
  <2>2. m \in ToSet(Config.line) /\ Marker(m.start)
    BY <1>1, <2>1 DEF ToSet, GoodConfig, OneLine
  <2>3. m.atLineStart /\ p > 0 /\ t[p] \notin Blanks \cup {"nl"}
    BY <1>2, <1>4, <2>1, <2>2 DEF NoLine
  <2>4. Indented(scan.at) /\ runes[scan.at] \notin Blanks /\ runes[scan.at] # "nl"
    BY <1>3, <2>1, <2>3 DEF Columns
  <2> DEFINE at == scan.at
  <2>5. at \in Nat /\ at > 0 /\ runes[at] \notin Blanks /\ runes[at] # "nl"
    BY <1>3, <2>3, <2>4
  <2>6. PICK k \in {0} \cup {n \in 1 .. at : runes[n] = "nl"} : \A n \in k + 1 .. at : runes[n] \in Blanks
    BY <2>4 DEF Indented
  <2> HIDE DEF at
  <2>7. k = 0 \/ (k \in 1 .. at /\ k # at)
    BY <2>5, <2>6
  <2>8. at \in k + 1 .. at
    BY <2>5, <2>7
  <2> QED BY <2>5, <2>6, <2>8
<1>5. ASSUME NoMulti(Config, t, p), NEW j, MultiHere(j) PROVE FALSE
  <2> DEFINE m == Config.multi[j]
  <2>1. j \in DOMAIN Config.multi /\ PeekEqual(m.start) /\ (m.atFirstColumn => scan.atFirstColumn)
    BY <1>5 DEF MultiHere
  <2>2. m \in ToSet(Config.multi) /\ Marker(m.start)
    BY <1>1, <2>1 DEF ToSet, GoodConfig
  <2>3. m.atFirstColumn /\ p > 0 /\ t[p] # "nl"
    BY <1>2, <1>5, <2>1, <2>2 DEF NoMulti
  <2>4. scan.at # 0 /\ runes[scan.at] # "nl"
    BY <1>3, <2>3
  <2>5. scan.atFirstColumn = (scan.at = 0 \/ runes[scan.at] = "nl")
    BY DEF Columns
  <2>6. ~scan.atFirstColumn
    BY <2>4, <2>5
  <2> QED BY <2>1, <2>3, <2>6
<1>6. ASSUME NoString(Config, t, p), NEW j, StringHere(j) PROVE FALSE
  <2> DEFINE m == Config.strings[j]
  <2>1. j \in DOMAIN Config.strings /\ PeekEqual(m.start)
    BY <1>6 DEF StringHere
  <2>2. m \in ToSet(Config.strings) /\ Marker(m.start)
    BY <1>1, <2>1 DEF ToSet, GoodConfig, OneLine
  <2> QED BY <1>2, <1>6, <2>1, <2>2 DEF NoString
<1> QED BY <1>4, <1>5, <1>6 DEF t

(* In a piece of code.                                                     *)
LEMMA InCodePiece ==
  ASSUME ScanInv, FileInv, Columns(scan), scan.in = "code", InCode, scan.at + Longest <= Len(runes),
         NEW i \in DOMAIN file, Kind(i) = "code", Upto(found, i),
         NEW p \in Nat, p < Len(Text(i)), scan.at = file[i].at + p, CodeFrom(Config, Text(i), p)
  PROVE  Progress(scan', found)
<1> DEFINE t == Text(i)
<1>1. Len(t) \in Nat /\ file[i].at \in Nat
  BY FileIs DEF ScanInv
<1>2. /\ scan.at \in Nat /\ Len(runes) \in Nat
      /\ scan.at < Len(runes) /\ runes[scan.at + 1] = t[p + 1]
  BY PieceRunes, ScanPlace
<1>3. CASE /\ NoLine(Config, t, p) /\ NoMulti(Config, t, p) /\ NoString(Config, t, p)
           /\ CodeFrom(Config, t, p + 1)
  <2>1. (\A j : ~LineHere(j)) /\ (\A j : ~MultiHere(j)) /\ (\A j : ~StringHere(j))
    BY <1>3, NoneHere
  <2>2. scan' = NextRune(scan)
    BY <2>1, InCodeIs
  <2>3. scan'.in = "code" /\ scan'.at = scan.at + 1
    <3>1. OnPlace(scan)
      BY ScanPlace
    <3>2. NextRune(scan) = Advance(scan, 1)
      BY <1>2 DEF NextRune
    <3>3. scan.at + 1 <= Len(runes) /\ runes \in Seq(STRING) /\ 1 \in Nat
      BY <1>2, ScanPlace
    <3> QED BY <2>2, <3>1, <3>2, <3>3, AdvanceIs
  <2>4. p + 1 \in Nat /\ 0 < p + 1 /\ p + 1 <= Len(t) /\ scan'.at = file[i].at + (p + 1)
    BY <1>1, <1>2, <2>3
  <2> QED BY <1>3, <2>3, <2>4, CodeOn
<1>4. ASSUME NEW b \in Nat, NEW m \in ToSet(Config.strings), b <= Len(t),
             IsString(Config, m, t, p, b), CodeFrom(Config, t, b)
      PROVE  Progress(scan', found)
  <2>1. PICK j \in DOMAIN Config.strings : m = Config.strings[j]
    BY <1>4 DEF ToSet
  <2>2. Shape(Config) /\ StringShape(m)
    BY <2>1, ConfigShape DEF Shape
  <2>3. m.end[1] \in Quotes /\ m.start = <<m.end[1]>>
    BY <2>2, StringShapeIs
  <2>4. p + 2 <= b /\ Reads(t, p, m.start) /\ NoMulti(Config, t, p)
           /\ (NoLine(Config, t, p) \/ \A n \in p + 1 .. b : t[n] # "nl")
    BY <1>4 DEF IsString
  <2>5. t[p + 1] = m.end[1]
    <3>1. Reads(t, p, <<m.end[1]>>)
      BY <2>3, <2>4
    <3> HIDE DEF t
    <3> QED BY <1>1, <3>1, ReadsOne
  <2>6. StringHere(j)
    <3>1. PeekEqual(<<m.end[1]>>)
      BY <1>2, <2>5, PeekOne
    <3> QED BY <2>1, <2>3, <3>1 DEF StringHere
  <2>7. \A k : ~MultiHere(k)
    BY <2>4, NoneHere
  <2>8. ASSUME NEW in \in {"string", "lineOrString"}, scan' = Enter(in, j, 1)
        PROVE  scan'.in = in /\ scan'.index = j /\ scan'.at = file[i].at + (p + 1)
    <3>1. 1 \in Nat /\ scan.at + 1 <= Len(runes)
      BY <1>2
    <3>2. scan'.at = scan.at + 1 /\ scan'.in = in /\ scan'.index = j
      BY <2>8, <3>1, EnterIs
    <3> QED BY <1>1, <3>2
  <2>9. CASE \A k : ~LineHere(k)
    <3>1. scan' = Enter("string", j, 1)
      BY <2>6, <2>7, <2>9, InCodeIs
    <3>2. scan'.in = "string" /\ scan'.index = j /\ scan'.at = file[i].at + (p + 1)
      BY <2>8, <3>1
    <3> QED BY <1>4, <2>1, <3>2, StringBegun
  <2>10. ASSUME NEW k, LineHere(k) PROVE Progress(scan', found)
    <3>1. \A n \in p + 1 .. b : t[n] # "nl"
      BY <2>4, <2>10, NoneHere
    <3>2. LineShape(Config.line[k]) /\ k \in DOMAIN Config.line
      BY <2>2, <2>10 DEF Shape, LineHere
    <3> DEFINE s == Config.line[k].start
    <3>3. Marker(s) /\ PeekEqual(s)
      BY <2>10, <3>2, ConfigShape DEF GoodConfig, OneLine, LineHere
    <3>4. runes[scan.at + 1] = s[1]
      <4> DEFINE at == scan.at
                 w == Len(s)
      <4>1. \A n \in at + 1 .. at + w : runes[n] = s[n - at]
        BY <3>3, MarkerRead
      <4>2. at \in Nat /\ w \in Nat \ {0}
        BY <1>2, <3>3 DEF Marker
      <4> HIDE DEF at, w, s
      <4>3. at + 1 \in at + 1 .. at + w
        BY <4>2
      <4>4. runes[at + 1] = s[(at + 1) - at]
        BY <4>1, <4>3
      <4>5. (at + 1) - at = 1
        BY <4>2
      <4>6. runes[at + 1] = s[1]
        BY <4>4, <4>5
      <4> QED BY <4>6 DEF at
    <3>5. s[1] = "dq"
      BY <1>2, <2>3, <2>5, <3>2, <3>4 DEF LineShape, Quotes
    <3>6. Len(s) = 1
      BY <3>2, <3>5 DEF LineShape
    <3>7. m.escape = "char"
      <4>1. Config.strings[j].escape # "double"
        BY <2>2, <3>2, <3>5 DEF Shape
      <4> QED BY <2>1, <2>2, <4>1 DEF StringShape
    <3>8. scan' = Enter("lineOrString", j, 1)
      BY <2>6, <2>7, <2>10, <3>6, InCodeIs
    <3>9. scan'.in = "lineOrString" /\ scan'.index = j /\ scan'.at = file[i].at + (p + 1)
      BY <2>8, <3>8
    <3> QED BY <1>4, <2>1, <3>1, <3>7, <3>9, StringBegun
  <2> QED BY <2>9, <2>10
<1>5. \/ /\ NoLine(Config, t, p) /\ NoMulti(Config, t, p) /\ NoString(Config, t, p)
         /\ CodeFrom(Config, t, p + 1)
      \/ \E b \in Nat, m \in ToSet(Config.strings) :
            b <= Len(t) /\ IsString(Config, m, t, p, b) /\ CodeFrom(Config, t, b)
  BY <1>1, CodeSplits
<1> QED BY <1>3, <1>4, <1>5

LEMMA EnterDepth ==
  ASSUME ScanInv, NEW in, NEW index, NEW n
  PROVE  Enter(in, index, n).depth = 0
<1>1. DOMAIN scan = Fields
  BY ScanPlace
<1> DEFINE d == DiscardRunes(n)
<1>2. DOMAIN d = Fields
  BY <1>1 DEF DiscardRunes, Advance
<1>3. Enter(in, index, n) = [d EXCEPT !.in = in, !.index = index, !.depth = 0,
                                      !.start = scan.bytes, !.startLine = scan.line]
  BY DEF Enter
<1> HIDE DEF d
<1> QED BY <1>2, <1>3 DEF Fields

(* A comment starts with the i-th piece.                                   *)
LEMMA BegunHere ==
  ASSUME ScanInv, FileInv, NEW i \in DOMAIN file, scan.at = file[i].at, scan.at + Longest <= Len(runes),
         NEW s, s.start = scan.bytes, s.startLine = scan.line
  PROVE  Begun(s, i)
BY ScanPlace DEF OnPlace, Begun

LEMMA InLinePiece ==
  ASSUME ScanInv, FileInv, Columns(scan), InCode, scan.at + Longest <= Len(runes),
         NEW i \in DOMAIN file, Kind(i) = "line", IsLine(Config, Text(i)), Upto(found, i),
         scan.at = file[i].at
  PROVE  Progress(scan', found)
<1> DEFINE t == Text(i)
<1>1. /\ Len(t) \in Nat \ {0} /\ file[i].at \in Nat /\ i \in 1 .. Len(file) + 1
  <2>1. DOMAIN file = 1 .. Len(file) /\ Len(file) \in Nat
    BY FileIs DEF ScanInv
  <2> QED BY <2>1, FileIs DEF ScanInv
<1>2. scan.at = file[i].at + 0 /\ 0 \in Nat /\ 0 <= Len(t) /\ scan.at \in Nat /\ Len(runes) \in Nat
  BY <1>1, ScanPlace
<1>3. PICK m \in ToSet(Config.line) : Reads(t, 0, m.start)
  BY DEF IsLine
<1>4. PICK k \in DOMAIN Config.line : m = Config.line[k]
  BY DEF ToSet
<1>5. Marker(m.start)
  BY <1>4, ConfigShape DEF GoodConfig, OneLine
<1>6. LineHere(k)
  <2>1. 0 + Len(m.start) <= Len(t)
    BY <1>3 DEF Reads
  <2>2. PeekEqual(m.start)
    BY <1>2, <1>3, <1>5, <2>1, PeekIn
  <2>3. m.atLineStart => scan.atLineStart
    <3>1. m.atLineStart => Indented(scan.at)
      BY DEF FileInv, Stands
    <3> QED BY <3>1 DEF Columns
  <2> QED BY <1>4, <2>2, <2>3 DEF LineHere
<1>7. \A j : ~MultiHere(j)
  BY <1>2, NoneHere DEF IsLine
<1>8. CASE \E j : StringHere(j) /\ Len(Config.line[k].start) = 1
  <2>1. PICK j : StringHere(j) /\ Len(Config.line[k].start) = 1
    BY <1>8
  <2>2. scan' = Enter("lineOrString", j, 1)
    BY <1>6, <1>7, <2>1, InCodeIs
  <2>3. 1 \in Nat /\ scan.at + 1 <= Len(runes)
    BY <2>1, HereOnce
  <2>4. /\ scan'.at = scan.at + 1 /\ scan'.in = "lineOrString" /\ scan'.index = j
        /\ scan'.start = scan.bytes /\ scan'.startLine = scan.line
    BY <2>2, <2>3, EnterIs
  <2>5. Begun(scan', i)
    BY <2>4, BegunHere
  <2>6. j \in DOMAIN Config.strings /\ \A n \in 2 .. Len(t) : t[n] # Config.strings[j].end[1]
    <3>1. j \in DOMAIN Config.strings /\ PeekEqual(Config.strings[j].start)
      BY <2>1 DEF StringHere
    <3>2. Marker(Config.strings[j].start) /\ Config.strings[j] \in ToSet(Config.strings)
      BY <3>1, ConfigShape DEF GoodConfig, OneLine, ToSet
    <3>3. ~Differs(t, 0, Config.strings[j].start)
      BY <1>2, <3>1, <3>2, PeekIn
    <3> QED BY <3>1, <3>2, <3>3 DEF IsLine
  <2>7. 1 <= Len(t) /\ 1 > 0 /\ scan'.at = file[i].at + 1
    BY <1>1, <2>4
  <2>8. InLineAt(scan', i, 1)
    BY <2>4, <2>5, <2>6, <2>7 DEF InLineAt
  <2>9. InPiece(scan', i, 1)
    BY <2>4, <2>7, <2>8 DEF InPiece
  <2> QED BY <1>1, <2>3, <2>9 DEF Progress
<1>9. CASE ~(\E j : StringHere(j) /\ Len(Config.line[k].start) = 1)
  <2>1. (\A j : ~StringHere(j)) \/ Len(Config.line[k].start) # 1
    BY <1>9
  <2>2. scan' = Enter("line", k, 0)
    BY <1>6, <1>7, <2>1, InCodeIs
  <2>3. 0 \in Nat /\ scan.at + 0 <= Len(runes)
    BY <1>2, ScanPlace
  <2>4. /\ scan'.at = scan.at + 0 /\ scan'.in = "line"
        /\ scan'.start = scan.bytes /\ scan'.startLine = scan.line
    BY <2>2, <2>3, EnterIs
  <2>5. Begun(scan', i)
    BY <2>4, BegunHere
  <2>6. scan'.in # "lineOrString"
    BY <2>4
  <2>7. scan'.at = file[i].at + 0
    BY <1>2, <2>4
  <2>8. InLineAt(scan', i, 0)
    BY <1>2, <2>5, <2>6 DEF InLineAt
  <2>9. InPiece(scan', i, 0)
    BY <2>4, <2>7, <2>8 DEF InPiece
  <2> QED BY <1>1, <2>3, <2>9 DEF Progress
<1> QED BY <1>8, <1>9

LEMMA NoneBelow ==
  ASSUME NEW from \in Int, NEW to \in Int, NEW places \in SUBSET (from .. to)
  PROVE  CountBelow(places, from) = 0
<1>1. {i \in places : i < from} = {}
  <2> SUFFICES ASSUME NEW i \in places, i < from PROVE FALSE
    OBVIOUS
  <2>1. i \in from .. to
    OBVIOUS
  <2> QED BY <2>1
<1>2. Cardinality({}) = 0
  BY FS_EmptySet
<1> QED BY <1>1, <1>2 DEF CountBelow

LEMMA InMultiPiece ==
  ASSUME ScanInv, FileInv, Columns(scan), InCode, scan.at + Longest <= Len(runes),
         NEW i \in DOMAIN file, Kind(i) \in {"multi", "column"}, IsMulti(Config, Text(i), Kind(i)),
         Upto(found, i), scan.at = file[i].at
  PROVE  Progress(scan', found)
<1> DEFINE t == Text(i)
<1>1. /\ Len(t) \in Nat \ {0} /\ file[i].at \in Nat /\ i \in 1 .. Len(file) + 1
  <2>1. DOMAIN file = 1 .. Len(file) /\ Len(file) \in Nat
    BY FileIs DEF ScanInv
  <2> QED BY <2>1, FileIs DEF ScanInv
<1>2. scan.at = file[i].at + 0 /\ 0 \in Nat /\ 0 <= Len(t) /\ scan.at \in Nat /\ Len(runes) \in Nat
  BY <1>1, ScanPlace
<1>3. PICK m \in ToSet(Config.multi) :
        /\ Reads(t, 0, m.start) /\ (m.atFirstColumn => Kind(i) = "column")
        /\ Len(t) - Len(m.end) \in
              Places(t, m.end, m.atFirstColumn, Len(m.start), Len(t) - Len(m.end))
  BY DEF IsMulti
<1>4. PICK k \in DOMAIN Config.multi : m = Config.multi[k]
  BY DEF ToSet
<1>5. Marker(m.start) /\ Marker(m.end)
  BY <1>4, ConfigShape DEF GoodConfig
<1> DEFINE from == Len(m.start)
           to == Len(t) - Len(m.end)
<1>6. from \in Nat /\ to \in Int /\ from <= to
  <2>1. from \in Nat /\ to \in Int
    BY <1>1, <1>5 DEF Marker
  <2>2. to \in from .. to
    BY <1>3 DEF Places
  <2> HIDE DEF from, to
  <2> QED BY <2>1, <2>2
<1>7. MultiHere(k)
  <2>1. 0 + from <= Len(t)
    BY <1>3 DEF Reads
  <2>2. PeekEqual(m.start)
    BY <1>2, <1>3, <1>5, <2>1, PeekIn
  <2>3. m.atFirstColumn => scan.atFirstColumn
    <3>1. m.atFirstColumn => scan.at = 0 \/ runes[scan.at] = "nl"
      BY <1>3 DEF FileInv, Stands
    <3>2. scan.atFirstColumn = (scan.at = 0 \/ runes[scan.at] = "nl")
      BY DEF Columns
    <3> QED BY <3>1, <3>2
  <2> QED BY <1>4, <2>2, <2>3 DEF MultiHere
<1>8. scan' = Enter("multi", k, from)
  BY <1>4, <1>7, InCodeIs
<1>9. scan.at + from <= Len(runes)
  BY <1>4, <1>5, <1>7, MarkerRead DEF MultiHere
<1>10. /\ scan'.at = scan.at + from /\ scan'.in = "multi" /\ scan'.index = k
       /\ scan'.start = scan.bytes /\ scan'.startLine = scan.line /\ scan'.depth = 0
  BY <1>6, <1>8, <1>9, EnterIs, EnterDepth
<1>11. Begun(scan', i)
  BY <1>10, BegunHere
<1> DEFINE starts == IF m.nested THEN Places(t, m.start, m.atFirstColumn, from, to) ELSE {}
           ends == Places(t, m.end, m.atFirstColumn, from, to)
<1>12. CountBelow(starts, from) = 0 /\ CountBelow(ends, from) = 0
  <2>1. starts \in SUBSET (from .. to) /\ ends \in SUBSET (from .. to)
    BY DEF Places
  <2> HIDE DEF starts, ends, from, to
  <2>2. from \in Int
    BY <1>6
  <2>3. CountBelow(starts, from) = 0
    BY <1>6, <2>1, <2>2, NoneBelow
  <2>4. CountBelow(ends, from) = 0
    BY <1>6, <2>1, <2>2, NoneBelow
  <2> QED BY <2>3, <2>4
<1>13. scan'.depth = CountBelow(starts, from) - CountBelow(ends, from)
  <2> HIDE DEF starts, ends, from, to
  <2> QED BY <1>10, <1>12
<1>14. InMultiAt(scan', i, from)
  <2>1. from <= from
    BY <1>6
  <2> QED BY <1>4, <1>6, <1>10, <1>11, <1>13, <2>1 DEF InMultiAt
<1>15. InPiece(scan', i, from)
  BY <1>10, <1>14 DEF InPiece
<1> QED BY <1>1, <1>6, <1>15 DEF Progress

(* The comments that are expected were found, when the scanner stops short *)
(* of the end of the file.                                                 *)
LEMMA StopsRight ==
  ASSUME ScanInv, FileInv, scan.in = "code", Progress(scan, found), scan.at + Longest > Len(runes)
  PROVE  ToSet(found) = Expected
<1>1. DOMAIN file = 1 .. Len(file) /\ Len(file) \in Nat /\ scan.at \in Nat /\ Len(runes) \in Nat
      /\ Longest \in Nat
  BY FileIs, ScanPlace, LongestIs DEF ScanInv
<1>2. PICK i \in 1 .. Len(file) + 1 : Upto(found, i) /\ CodeAt(scan, i)
  BY DEF Progress, InPiece
<1>3. \A k \in DOMAIN file : file[k].at \in Nat /\ EndOf(k) \in Nat /\ EndOf(k) = file[k].at + Len(Text(k))
                               /\ Len(Text(k)) \in Nat
  BY FileIs DEF ScanInv
<1>4. ASSUME NEW k \in DOMAIN file, Kind(k) # "code"
      PROVE  k < i <=> file[k].at + Longest <= Len(runes)
  <2>1. k < i => file[k].at + Longest <= Len(runes)
    BY <1>2, <1>4 DEF Upto
  <2>2. ASSUME ~(k < i) PROVE ~(file[k].at + Longest <= Len(runes))
    <3>1. i \in DOMAIN file /\ i <= k
      BY <1>1, <2>2
    <3>2. i < k => EndOf(i) <= file[k].at
      BY <3>1 DEF FileInv
    <3>3. i # Len(file) + 1
      BY <1>1, <3>1
    <3>4. CASE scan.at = file[i].at
      <4>1. scan.at <= file[k].at
        <5>1. CASE i = k
          BY <1>1, <3>4, <5>1
        <5>2. CASE i < k
          <6>1. EndOf(i) <= file[k].at /\ file[i].at <= EndOf(i)
            BY <1>3, <3>1, <3>2, <5>2
          <6>2. file[i].at \in Nat /\ file[k].at \in Nat /\ EndOf(i) \in Nat
            BY <1>3, <3>1
          <6>3. file[i].at <= file[k].at
            BY <6>1, <6>2
          <6> QED BY <3>4, <6>3
        <5> QED BY <1>1, <3>1, <5>1, <5>2
      <4> QED BY <1>1, <1>3, <4>1
    <3>5. CASE Kind(i) = "code" /\ \E p \in Nat : p < Len(Text(i)) /\ scan.at = file[i].at + p
      <4>1. i < k
        BY <1>1, <1>4, <3>1, <3>5
      <4>2. scan.at <= EndOf(i)
        BY <1>1, <1>3, <3>1, <3>5
      <4>3. scan.at <= file[k].at
        BY <1>1, <1>3, <3>1, <3>2, <4>1, <4>2
      <4> QED BY <1>1, <1>3, <4>3
    <3> QED BY <1>2, <3>1, <3>3, <3>4, <3>5 DEF CodeAt
  <2> QED BY <2>1, <2>2
<1> DEFINE Old == {k \in DOMAIN file : k < i /\ Kind(k) # "code"}
<1>5. Old = {k \in DOMAIN file : Kind(k) # "code" /\ file[k].at + Longest <= Len(runes)}
  BY <1>4
<1>6. ToSet(found) = {CommentOf(file[k]) : k \in Old}
  BY <1>2 DEF Upto
<1> DEFINE Due == {t \in ToSet(file) : t.piece.kind # "code" /\ t.at + Longest <= Len(runes)}
<1>7. \A k \in Old : file[k] \in Due
  BY <1>5 DEF ToSet, Kind
<1>8. \A t \in Due : \E k \in Old : t = file[k]
  BY <1>5 DEF ToSet, Kind
<1>9. Expected = {CommentOf(t) : t \in Due}
  BY DEF Expected
<1> HIDE DEF Old, Due
<1> QED BY <1>6, <1>7, <1>8, <1>9

-----------------------------------------------------------------------------
(* Strings.                                                                *)

LEMMA ProgressIsRight ==
  ASSUME NEW s, NEW f, Progress(s, f)
  PROVE  Right(s, f)
<1>1. s.in # "end"
  BY DEF Progress, InPiece
<1> QED BY <1>1 DEF Right

LEMMA InCodeRight ==
  ASSUME ScanInv, FileInv, Columns(scan), AllLegible, scan.in = "code", Progress(scan, found), InCode
  PROVE  Right(scan', found)
<1>1. scan.at \in Nat /\ Len(runes) \in Nat /\ Longest \in Nat \ {0}
  BY ScanPlace, LongestIs
<1>2. CASE scan.at + Longest > Len(runes)
  <2>1. EOF \in {LineMatch, MultilineMatch, StringMatch}
    BY <1>2, MatchesAre
  <2>2. scan' = Stopped
    BY <2>1 DEF InCode
  <2>3. scan'.in = "end" /\ ToSet(found) = Expected
    BY <1>2, <2>2, StoppedIs, StopsRight
  <2> QED BY <2>3 DEF Right
<1>3. CASE scan.at + Longest <= Len(runes)
  <2>1. PICK i \in 1 .. Len(file) + 1 : Upto(found, i) /\ CodeAt(scan, i)
    BY DEF Progress, InPiece
  <2>2. scan.at # Len(runes)
    BY <1>1, <1>3
  <2>3. i \in DOMAIN file
    BY <2>1, <2>2 DEF CodeAt
  <2>4. Len(Text(i)) \in Nat \ {0} /\ file[i].at \in Nat
    BY <2>3, FileIs DEF ScanInv
  <2>5. CASE scan.at = file[i].at
    <3>1. CASE Kind(i) = "code" /\ CodeFrom(Config, Text(i), 0)
      <4>1. 0 \in Nat /\ 0 < Len(Text(i)) /\ scan.at = file[i].at + 0
        BY <2>4, <2>5
      <4>2. Progress(scan', found)
        BY <1>3, <2>1, <2>3, <3>1, <4>1, InCodePiece
      <4> QED BY <4>2, ProgressIsRight
    <3>2. CASE Kind(i) = "line" /\ IsLine(Config, Text(i))
      BY <1>3, <2>1, <2>3, <2>5, <3>2, InLinePiece, ProgressIsRight
    <3>3. CASE Kind(i) \in {"multi", "column"} /\ IsMulti(Config, Text(i), Kind(i))
      BY <1>3, <2>1, <2>3, <2>5, <3>3, InMultiPiece, ProgressIsRight
    <3> QED BY <2>3, <3>1, <3>2, <3>3, LegibleIs
  <2>6. CASE /\ Kind(i) = "code"
             /\ \E p \in Nat : /\ 0 < p /\ p < Len(Text(i)) /\ scan.at = file[i].at + p
                               /\ CodeFrom(Config, Text(i), p)
    BY <1>3, <2>1, <2>3, <2>6, InCodePiece, ProgressIsRight
  <2> QED BY <2>1, <2>2, <2>5, <2>6 DEF CodeAt
<1> QED BY <1>1, <1>2, <1>3

LEMMA ReadFurther ==
  ASSUME ScanInv, NEW n \in Nat, scan.at + n <= Len(runes)
  PROVE  LET t == Advance(scan, n)
         IN  /\ DOMAIN t = Fields /\ t.at = scan.at + n /\ t.in = scan.in /\ t.index = scan.index
             /\ t.start = scan.start /\ t.startLine = scan.startLine /\ t.depth = scan.depth
<1> DEFINE t == Advance(scan, n)
<1>1. OnPlace(scan) /\ runes \in Seq(STRING) /\ DOMAIN scan = Fields
  BY ScanPlace
<1>2. /\ OnPlace(t) /\ t.at = scan.at + n /\ t.in = scan.in /\ t.index = scan.index
      /\ t.start = scan.start /\ t.startLine = scan.startLine
  BY <1>1, AdvanceIs
<1>3. t.depth = scan.depth
  BY <1>1 DEF Advance, Fields
<1> QED BY <1>2, <1>3 DEF OnPlace

LEMMA TwoJoined ==
  ASSUME NEW x, NEW y
  PROVE  LET t == <<x>> \o <<y>>
         IN  Len(t) = 2 /\ DOMAIN t = {1, 2} /\ t[1] = x /\ t[2] = y
<1> DEFINE S == {x, y}
           t == <<x>>
           u == <<y>>
           both == t \o u
<1>1. t \in Seq(S) /\ u \in Seq(S) /\ Len(t) = 1 /\ t[1] = x /\ Len(u) = 1 /\ u[1] = y
  OBVIOUS
<1> HIDE DEF S, t, u
<1>0. t \in Seq(S) /\ u \in Seq(S)
  BY <1>1
<1>2. both \in Seq(S) /\ Len(both) = Len(t) + Len(u)
  BY <1>0
<1>3. both[1] = t[1] /\ both[2] = u[1]
  <2>1. \A i \in 1 .. Len(t) + Len(u) : both[i] = IF i <= Len(t) THEN t[i] ELSE u[i - Len(t)]
    BY <1>0
  <2>2. 1 \in 1 .. Len(t) + Len(u) /\ 2 \in 1 .. Len(t) + Len(u) /\ 1 <= Len(t) /\ ~(2 <= Len(t))
    BY <1>1
  <2>3. both[1] = t[1] /\ both[2] = u[2 - Len(t)] /\ 2 - Len(t) = 1
    <3> HIDE DEF both
    <3>1. 2 - Len(t) = 1
      BY <1>1
    <3> QED BY <2>1, <2>2, <3>1
  <2> QED BY <2>3
<1> HIDE DEF both
<1>4. Len(both) = 2 /\ DOMAIN both = 1 .. 2
  BY <1>1, <1>2
<1>5. 1 .. 2 = {1, 2}
  OBVIOUS
<1>6. DOMAIN both = {1, 2} /\ both[1] = x /\ both[2] = y
  BY <1>1, <1>3, <1>4, <1>5
<1> QED BY <1>4, <1>6 DEF both, t, u

(* What is read of a string.                                               *)
LEMMA StringStepSays ==
  ASSUME ScanInv, NEW m, StringShape(m), scan.at < Len(runes)
  PROVE  LET q == m.end[1]
             escaped == /\ scan.at + 2 <= Len(runes)
                        /\ runes[scan.at + 1] = (IF m.escape = "char" THEN "bs" ELSE q)
                        /\ runes[scan.at + 2] = q
         IN  /\ escaped => StringStep(m) = Advance(scan, 2)
             /\ ~escaped /\ runes[scan.at + 1] = q =>
                    StringStep(m) = [Advance(scan, 1) EXCEPT !.in = "code"]
             /\ ~escaped /\ runes[scan.at + 1] # q => StringStep(m) = Advance(scan, 1)
<1> DEFINE q == m.end[1]
           x == IF m.escape = "char" THEN "bs" ELSE q
           escaped == scan.at + 2 <= Len(runes) /\ runes[scan.at + 1] = x /\ runes[scan.at + 2] = q
           text == CASE m.escape = "char" -> <<"bs">> \o m.end
                     [] m.escape = "double" -> m.end \o m.end
<1>1. m.end = <<q>> /\ Len(m.end) = 1 /\ m.escape \in {"char", "double"}
  BY StringShapeIs DEF StringShape
<1>2. Len(text) = 2 /\ DOMAIN text = {1, 2} /\ text[1] = x /\ text[2] = q
  <2>1. CASE m.escape = "char"
    <3>1. text = <<"bs">> \o <<q>> /\ x = "bs"
      BY <1>1, <2>1
    <3> HIDE DEF text, x, q
    <3> QED BY <3>1, TwoJoined
  <2>2. CASE m.escape = "double"
    <3>1. text = <<q>> \o <<q>> /\ x = q
      BY <1>1, <2>2
    <3> HIDE DEF text, x, q
    <3> QED BY <3>1, TwoJoined
  <2> QED BY <1>1, <2>1, <2>2
<1>3. PeekEqual(text) <=> escaped
  <2>1. scan.at \in Nat /\ Len(runes) \in Nat
    BY ScanPlace
  <2> HIDE DEF text, x, q
  <2>2. PeekEqual(text) <=> /\ scan.at + 2 <= Len(runes)
                            /\ \A k \in {1, 2} : runes[scan.at + k] = text[k]
    BY <1>2, <2>1 DEF PeekEqual, Reads
  <2> QED BY <1>2, <2>2
<1>4. EscapedEnd(m) = IF PeekEqual(text) THEN text ELSE <<>>
  BY DEF EscapedEnd
<1>5. text # <<>> /\ Len(text) = 2
  <2>1. Len(<<>>) = 0
    OBVIOUS
  <2> HIDE DEF text, x, q
  <2> QED BY <1>2, <2>1
<1>6. ~AtEnd(m.end) /\ (PeekEqual(m.end) <=> runes[scan.at + 1] = q)
  <2>1. ~AtEnd(<<q>>) /\ (PeekEqual(<<q>>) <=> runes[scan.at + 1] = q)
    BY PeekOne
  <2> QED BY <1>1, <2>1
<1>7. NextRune(scan) = Advance(scan, 1) /\ \A n : DiscardRunes(n) = Advance(scan, n)
  BY DEF NextRune, DiscardRunes
<1> HIDE DEF text, x, q, escaped
<1>8. StringStep(m) = IF escaped THEN Advance(scan, 2)
                      ELSE IF runes[scan.at + 1] = q THEN [Advance(scan, 1) EXCEPT !.in = "code"]
                      ELSE Advance(scan, 1)
  <2>1. CASE escaped
    <3>1. EscapedEnd(m) = text
      BY <1>3, <1>4, <2>1
    <3> QED BY <1>5, <1>7, <2>1, <3>1 DEF StringStep
  <2>2. CASE ~escaped
    <3>1. EscapedEnd(m) = <<>>
      BY <1>3, <1>4, <2>2
    <3> QED BY <1>1, <1>6, <1>7, <2>2, <3>1 DEF StringStep
  <2> QED BY <2>1, <2>2
<1> QED BY <1>8 DEF escaped, x, q

(* Behind a string a quote of its kind begins another.                     *)
LEMMA QuoteBegins ==
  ASSUME ScanInv, NEW text, Len(text) \in Nat, NEW b \in Nat, b < Len(text),
         CodeFrom(Config, text, b), NEW j \in DOMAIN Config.strings,
         text[b + 1] = Config.strings[j].end[1]
  PROVE  \E d \in Nat : /\ d <= Len(text) /\ IsString(Config, Config.strings[j], text, b, d)
                        /\ CodeFrom(Config, text, d)
<1> DEFINE m == Config.strings[j]
<1>0. Shape(Config)
  BY ConfigShape
<1>1. m \in ToSet(Config.strings) /\ StringShape(m)
  BY <1>0 DEF Shape, ToSet
<1>2. m.start = <<m.end[1]>> /\ m.end = <<m.end[1]>>
  BY <1>1, StringShapeIs
<1>3. ~NoString(Config, text, b)
  <2>1. Differs(text, b, m.start) => text[b + 1] # m.end[1]
    <3> DEFINE s == m.start
    <3>1. DOMAIN s = {1} /\ s[1] = m.end[1]
      BY <1>1, StringShapeIs
    <3>2. Differs(text, b, s) => text[b + 1] # s[1]
      BY <3>1 DEF Differs
    <3> QED BY <3>1, <3>2
  <2> QED BY <1>1, <2>1 DEF NoString
<1>4. PICK d \in Nat, n \in ToSet(Config.strings) :
            d <= Len(text) /\ IsString(Config, n, text, b, d) /\ CodeFrom(Config, text, d)
  BY <1>3, CodeSplits
<1>5. PICK k \in DOMAIN Config.strings : n = Config.strings[k]
  BY DEF ToSet
<1>6. n.start = <<n.end[1]>> /\ n.end = <<n.end[1]>>
  <2>1. StringShape(n)
    BY <1>0, <1>5 DEF Shape
  <2> QED BY <2>1, StringShapeIs
<1>7. text[b + 1] = n.end[1]
  <2>1. Reads(text, b, <<n.end[1]>>)
    BY <1>4, <1>6 DEF IsString
  <2> QED BY <2>1, ReadsOne
<1>8. n.end = m.end
  BY <1>2, <1>6, <1>7
<1>9. k = j
  BY <1>0, <1>5, <1>8 DEF Shape
<1> QED BY <1>4, <1>5, <1>9

(* Behind a doubled quote in which a string ended the next string begins.  *)
LEMMA NextStringBegins ==
  ASSUME ScanInv, FileInv, AllLegible, NEW i \in DOMAIN file, Kind(i) = "code", Upto(found, i),
         NEW j \in DOMAIN Config.strings, Config.strings[j].escape = "double",
         NEW b \in Nat, 0 < b, b <= Len(Text(i)), CodeFrom(Config, Text(i), b),
         file[i].at + b < Len(runes), runes[file[i].at + b + 1] = Config.strings[j].end[1],
         NEW s, s.in = "string", s.index = j, s.at = file[i].at + b + 1
  PROVE  Progress(s, found)
<1> DEFINE q == Config.strings[j].end[1]
<1>0. s.in \in {"string", "lineOrString"} /\ s.in # "lineOrString"
  OBVIOUS
<1>1. Len(Text(i)) \in Nat /\ file[i].at \in Nat /\ EndOf(i) = file[i].at + Len(Text(i))
  BY FileIs DEF ScanInv
<1>2. CASE b < Len(Text(i))
  <2>1. Text(i)[b + 1] = q
    <3>1. b + 1 \in 1 .. Len(Text(i)) /\ file[i].at + b + 1 = file[i].at + (b + 1)
      BY <1>1, <1>2
    <3> QED BY <3>1 DEF FileInv
  <2>2. PICK d \in Nat : /\ d <= Len(Text(i)) /\ IsString(Config, Config.strings[j], Text(i), b, d)
                         /\ CodeFrom(Config, Text(i), d)
    BY <1>1, <1>2, <2>1, QuoteBegins
  <2>3. s.at = file[i].at + (b + 1)
    BY <1>1
  <2> QED BY <1>0, <2>2, <2>3, StringBegun
<1>3. CASE b = Len(Text(i))
  <2> DEFINE k == i + 1
             text == Text(k)
  <2>1. k \in DOMAIN file /\ file[k].at = EndOf(i)
    BY <1>1, <1>3, NextPiece
  <2>2. Upto(found, k)
    BY UptoCode
  <2> HIDE DEF k
  <2>3. Len(text) \in Nat \ {0} /\ file[k].at \in Nat /\ s.at = file[k].at + 1
    BY <1>1, <1>3, <2>1, FileIs DEF ScanInv
  <2>4. text[1] = q
    <3>1. 1 \in 1 .. Len(text) /\ file[i].at + b + 1 = file[k].at + 1
      BY <1>1, <1>3, <2>1, <2>3
    <3> QED BY <2>1, <3>1 DEF FileInv
  <2>5. Shape(Config) /\ q \in Quotes
    <3>1. Shape(Config) /\ StringShape(Config.strings[j])
      BY ConfigShape DEF Shape
    <3> QED BY <3>1, StringShapeIs
  <2>6. ASSUME NEW m, Marker(m), Reads(text, 0, m) PROVE m[1] = q
    <3>1. 1 \in DOMAIN m /\ 0 + 1 = 1
      BY <2>6 DEF Marker
    <3>2. text[0 + 1] = m[1]
      BY <2>6, <3>1 DEF Reads
    <3> QED BY <2>4, <3>1, <3>2
  <2>7. CASE Kind(k) = "code" /\ CodeFrom(Config, text, 0)
    <3>1. 0 \in Nat /\ 0 < Len(text) /\ 0 + 1 = 1
      BY <2>3
    <3>2. text[0 + 1] = q /\ s.at = file[k].at + (0 + 1)
      BY <2>3, <2>4, <3>1
    <3>3. PICK d \in Nat : /\ d <= Len(text) /\ IsString(Config, Config.strings[j], text, 0, d)
                           /\ CodeFrom(Config, text, d)
      BY <2>3, <2>7, <3>1, <3>2, QuoteBegins
    <3> QED BY <1>0, <2>1, <2>2, <2>7, <3>1, <3>2, <3>3, StringBegun
  <2>8. CASE Kind(k) = "line" /\ IsLine(Config, text)
    <3>1. PICK m \in ToSet(Config.line) : Reads(text, 0, m.start)
      BY <2>8 DEF IsLine
    <3>2. PICK n \in DOMAIN Config.line : m = Config.line[n]
      BY DEF ToSet
    <3>3. LineShape(m) /\ m.start[1] # "dq" /\ Marker(m.start)
      BY <2>5, <3>2, ConfigShape DEF Shape, GoodConfig, OneLine
    <3>4. m.start[1] = q
      BY <2>6, <3>1, <3>3
    <3> QED BY <2>5, <3>3, <3>4 DEF LineShape, Quotes
  <2>9. CASE Kind(k) \in {"multi", "column"} /\ IsMulti(Config, text, Kind(k))
    <3>1. PICK m \in ToSet(Config.multi) : Reads(text, 0, m.start)
      BY <2>9 DEF IsMulti
    <3>2. PICK n \in DOMAIN Config.multi : m = Config.multi[n]
      BY DEF ToSet
    <3>3. MultiShape(m) /\ m.start[1] # "dq" /\ Marker(m.start)
      BY <2>5, <3>2, ConfigShape DEF Shape, GoodConfig
    <3>4. m.start[1] = q
      BY <2>6, <3>1, <3>3
    <3> QED BY <2>5, <3>3, <3>4 DEF MultiShape, Quotes
  <2> QED BY <2>1, <2>7, <2>8, <2>9, LegibleIs
<1> QED BY <1>1, <1>2, <1>3

LEMMA StringStepRight ==
  ASSUME ScanInv, FileInv, AllLegible, scan.in \in {"string", "lineOrString"},
         NEW i \in DOMAIN file, Upto(found, i), NEW p \in Nat, scan.at = file[i].at + p,
         InStringAt(scan, i, p), NEW t, t = StringStep(Config.strings[scan.index])
  PROVE  Progress(t, found)
<1> DEFINE m == Config.strings[scan.index]
           x == Text(i)
           q == m.end[1]
<1>1. PICK a \in Nat, b \in Nat :
        /\ a < p /\ p < b /\ b <= Len(x)
        /\ IsString(Config, m, x, a, b) /\ Apart(m, x, a, b, p)
        /\ CodeFrom(Config, x, b)
        /\ scan.in = "lineOrString" => \A n \in a + 1 .. b : x[n] # "nl"
  BY DEF InStringAt
<1>2. Kind(i) = "code" /\ scan.index \in DOMAIN Config.strings
        /\ (scan.in = "lineOrString" => m.escape = "char")
  BY DEF InStringAt
<1>3. StringShape(m) /\ m.escape \in {"char", "double"}
  BY <1>2, ConfigShape DEF Shape, StringShape
<1>4. m.start = <<q>> /\ m.end = <<q>> /\ q \in Quotes
  BY <1>3, StringShapeIs
<1>5. /\ Len(x) \in Nat /\ file[i].at \in Nat /\ scan.at \in Nat /\ Len(runes) \in Nat
      /\ file[i].at + Len(x) <= Len(runes)
  BY PieceRunes, ScanPlace
<1>6. /\ scan.at < Len(runes) /\ runes[scan.at + 1] = x[p + 1]
      /\ p + 2 <= Len(x) => scan.at + 2 <= Len(runes) /\ runes[scan.at + 2] = x[p + 2]
  BY <1>1, <1>5, PieceRunes
<1>7. x[b] = q /\ a + 2 <= b /\ i \in 1 .. Len(file) + 1
  <2>1. Reads(x, b - 1, <<q>>) /\ a + 2 <= b
    BY <1>1, <1>4 DEF IsString
  <2>2. b - 1 \in Nat /\ b - 1 + 1 = b
    BY <1>1
  <2>3. x[b - 1 + 1] = q
    <3> HIDE DEF x, q
    <3> QED BY <1>5, <2>1, <2>2, ReadsOne
  <2>4. DOMAIN file = 1 .. Len(file) /\ Len(file) \in Nat
    BY FileIs DEF ScanInv
  <2> QED BY <2>1, <2>2, <2>3, <2>4
<1> DEFINE escaped == /\ scan.at + 2 <= Len(runes)
                      /\ runes[scan.at + 1] = (IF m.escape = "char" THEN "bs" ELSE q)
                      /\ runes[scan.at + 2] = q
<1>8. /\ escaped => t = Advance(scan, 2)
      /\ ~escaped /\ runes[scan.at + 1] = q => t = [Advance(scan, 1) EXCEPT !.in = "code"]
      /\ ~escaped /\ runes[scan.at + 1] # q => t = Advance(scan, 1)
  BY <1>3, <1>6, StringStepSays
<1>9. ASSUME NEW n \in {1, 2}, p + n < b, Apart(m, x, a, b, p + n), t = Advance(scan, n)
      PROVE  Progress(t, found)
  <2>1. n \in Nat /\ scan.at + n <= Len(runes)
    <3> DEFINE z == file[i].at
               w == Len(runes)
               v == Len(x)
    <3>1. z \in Nat /\ w \in Nat /\ v \in Nat /\ z + v <= w /\ scan.at = z + p
      BY <1>5
    <3>2. p + n < b /\ b <= v
      BY <1>1, <1>9
    <3> HIDE DEF z, w, v
    <3>3. n \in Nat /\ z + p + n <= w
      BY <1>1, <3>1, <3>2
    <3> QED BY <3>1, <3>3 DEF w
  <2>2. t.at = scan.at + n /\ t.in = scan.in /\ t.index = scan.index
    BY <1>9, <2>1, ReadFurther
  <2>3. p + n \in Nat /\ a < p + n /\ t.at = file[i].at + (p + n)
    BY <1>1, <1>5, <2>1, <2>2
  <2>4. InStringAt(t, i, p + n)
    <3> DEFINE r == p + n
    <3>1. r \in Nat /\ a < r /\ r < b /\ Apart(m, x, a, b, r)
      BY <1>9, <2>3
    <3> HIDE DEF r, m, x
    <3>2. InStringAt(t, i, r)
      BY <1>1, <1>2, <2>2, <3>1 DEF InStringAt, m, x
    <3> QED BY <3>2 DEF r
  <2>5. InPiece(t, i, p + n)
    BY <2>2, <2>3, <2>4 DEF InPiece
  <2> QED BY <1>7, <2>3, <2>5 DEF Progress
<1>10. ASSUME p + 1 = b, t = [Advance(scan, 1) EXCEPT !.in = "code"]
       PROVE  Progress(t, found)
  <2>1. 1 \in Nat /\ scan.at + 1 <= Len(runes)
    BY <1>5, <1>6
  <2> DEFINE d == Advance(scan, 1)
  <2>2. DOMAIN d = Fields /\ d.at = scan.at + 1
    BY <2>1, ReadFurther
  <2> HIDE DEF d
  <2>3. t.in = "code" /\ t.at = d.at
    BY <1>10, <2>2 DEF d, Fields
  <2>4. t.at = file[i].at + b /\ 0 < b
    BY <1>1, <1>5, <1>10, <2>2, <2>3
  <2> QED BY <1>1, <1>2, <2>3, <2>4, CodeOn
<1> HIDE DEF x, q, m, escaped
<1>11. CASE m.escape = "char"
  <2>1. CharEscapes(q, x, a + 2, b)
    BY <1>1, <1>11 DEF IsString, q
  <2>2. \A n \in a + 2 .. b : x[n] = q => (n = b <=> x[n - 1] # "bs")
    BY <2>1 DEF CharEscapes
  <2>3. ~(x[p] = "bs" /\ x[p + 1] = q)
    BY <1>1, <1>11 DEF Apart, q
  <2>4. \A r : Apart(m, x, a, b, r) <=> ~(x[r] = "bs" /\ x[r + 1] = q)
    BY <1>11 DEF Apart, q
  <2>5. q # "bs"
    BY <1>4 DEF Quotes
  <2>6. escaped <=> scan.at + 2 <= Len(runes) /\ runes[scan.at + 1] = "bs" /\ runes[scan.at + 2] = q
    BY <1>11 DEF escaped
  <2>7. CASE escaped
    <3>1. p + 1 # b
      BY <1>6, <1>7, <2>5, <2>6, <2>7
    <3>2. p + 2 <= b /\ p + 2 <= Len(x)
      BY <1>1, <1>5, <3>1
    <3>3. x[p + 2] = q /\ x[p + 1] = "bs"
      BY <1>6, <2>6, <2>7, <3>2
    <3>4. p + 2 \in a + 2 .. b /\ p + 2 - 1 = p + 1
      BY <1>1, <3>2
    <3>5. p + 2 # b
      BY <2>2, <3>3, <3>4
    <3>6. p + 2 < b /\ Apart(m, x, a, b, p + 2)
      BY <2>4, <2>5, <3>2, <3>3, <3>5
    <3> QED BY <1>8, <1>9, <2>7, <3>6
  <2>8. CASE ~escaped /\ x[p + 1] = q
    <3>1. p + 1 = b
      <4> SUFFICES ASSUME p + 1 # b PROVE FALSE
        OBVIOUS
      <4>1. p + 1 \in a + 2 .. b /\ p + 1 - 1 = p
        BY <1>1
      <4> QED BY <2>2, <2>3, <2>8, <4>1
    <3> QED BY <1>6, <1>8, <1>10, <2>8, <3>1
  <2>9. CASE ~escaped /\ x[p + 1] # q
    <3>1. p + 1 # b
      BY <1>7, <2>9
    <3>2. p + 1 < b /\ p + 2 <= Len(x) /\ p + 2 = p + 1 + 1
      BY <1>1, <1>5, <3>1
    <3>3. ~(x[p + 1] = "bs" /\ x[p + 1 + 1] = q)
      BY <1>6, <2>6, <2>9, <3>2
    <3>4. Apart(m, x, a, b, p + 1)
      BY <2>4, <3>3
    <3> QED BY <1>6, <1>8, <1>9, <2>9, <3>2, <3>4
  <2> QED BY <2>7, <2>8, <2>9
<1>12. CASE m.escape = "double"
  <2> DEFINE Q == {n \in a + 2 .. b - 1 : x[n] = q}
             Good(pairs) == Q = pairs \cup {n + 1 : n \in pairs} /\ \A n \in pairs : n + 1 \notin pairs
  <2>1. m.escape # "char"
    BY <1>12
  <2>2. \A r : Apart(m, x, a, b, r) <=>
                 \E pairs \in SUBSET (a + 2 .. b - 1) : Good(pairs) /\ r \notin pairs
    BY <2>1 DEF Apart, q
  <2>3. PICK pairs \in SUBSET (a + 2 .. b - 1) : Good(pairs) /\ p \notin pairs
    BY <1>1, <2>2
  <2>4. escaped <=> scan.at + 2 <= Len(runes) /\ runes[scan.at + 1] = q /\ runes[scan.at + 2] = q
    BY <2>1 DEF escaped
  <2>0. p \in Nat /\ a \in Nat /\ b \in Nat /\ \A n \in pairs : n \in Nat
    BY <2>3
  <2>5. CASE p + 1 < b /\ x[p + 1] = q
    <3>1. p + 1 \in Q
      BY <1>1, <2>5
    <3>2. p + 1 \in pairs
      <4> SUFFICES ASSUME NEW n \in pairs, n + 1 = p + 1 PROVE FALSE
        BY <2>3, <3>1
      <4>1. n = p
        BY <2>0
      <4> QED BY <2>3, <4>1
    <3>3. p + 2 \in Q /\ p + 2 \notin pairs
      <4>1. p + 1 + 1 = p + 2
        BY <2>0
      <4>2. p + 1 + 1 \in Q /\ p + 1 + 1 \notin pairs
        <5> HIDE DEF Q
        <5> QED BY <2>3, <3>2
      <4> QED BY <4>1, <4>2
    <3>4. p + 2 < b /\ p + 2 <= Len(x) /\ x[p + 2] = q
      <4>1. p + 2 \in a + 2 .. b - 1 /\ x[p + 2] = q
        BY <3>3
      <4> QED BY <1>1, <1>5, <2>0, <4>1
    <3>5. escaped
      BY <1>6, <2>4, <2>5, <3>4
    <3>6. Apart(m, x, a, b, p + 2)
      BY <2>2, <2>3, <3>3
    <3> QED BY <1>8, <1>9, <3>4, <3>5, <3>6
  <2>6. CASE p + 1 < b /\ x[p + 1] # q
    <3>1. ~escaped
      BY <1>6, <2>4, <2>6
    <3>2. p + 1 \notin pairs
      <4>1. pairs \subseteq Q
        <5> HIDE DEF Q
        <5> QED BY <2>3
      <4> QED BY <2>6, <4>1
    <3>3. Apart(m, x, a, b, p + 1)
      BY <2>2, <2>3, <3>2
    <3> QED BY <1>6, <1>8, <1>9, <2>6, <3>1, <3>3
  <2>7. CASE p + 1 = b /\ ~escaped
    BY <1>6, <1>7, <1>8, <1>10, <2>7
  <2>8. CASE p + 1 = b /\ escaped
    <3>1. scan.in = "string"
      BY <1>2, <2>1
    <3>2. scan.at + 2 <= Len(runes) /\ runes[scan.at + 2] = q /\ t = Advance(scan, 2) /\ 2 \in Nat
      BY <1>8, <2>4, <2>8
    <3>3. t.at = scan.at + 2 /\ t.in = "string" /\ t.index = scan.index
      BY <3>1, <3>2, ReadFurther
    <3>4. /\ file[i].at + b + 1 = scan.at + 2 /\ file[i].at + b < Len(runes) /\ 0 < b
      <4> DEFINE z == file[i].at
                 w == Len(runes)
      <4>1. /\ z \in Nat /\ w \in Nat /\ p \in Nat /\ b \in Nat
            /\ scan.at = z + p /\ p + 1 = b /\ z + p + 2 <= w
        BY <1>5, <2>0, <2>8, <3>2
      <4> HIDE DEF z, w, Q
      <4>2. z + b + 1 = z + p + 2 /\ z + b < w /\ 0 < b
        BY <4>1
      <4> QED BY <4>1, <4>2 DEF z, w
    <3>5. runes[file[i].at + b + 1] = Config.strings[scan.index].end[1]
      BY <3>2, <3>4 DEF q, m
    <3>6. Config.strings[scan.index].escape = "double" /\ t.at = file[i].at + b + 1
      BY <1>12, <3>3, <3>4 DEF m
    <3>7. b <= Len(Text(i)) /\ CodeFrom(Config, Text(i), b)
      BY <1>1 DEF x
    <3> QED BY <1>2, <3>3, <3>4, <3>5, <3>6, <3>7, NextStringBegins
  <2>9. p + 1 < b \/ p + 1 = b
    BY <1>1, <2>0
  <2> QED BY <2>5, <2>6, <2>7, <2>8, <2>9
<1> QED BY <1>3, <1>11, <1>12

-----------------------------------------------------------------------------
(* Comments on one line.                                                   *)

LEMMA InStringRight ==
  ASSUME ScanInv, FileInv, AllLegible, Progress(scan, found), InString
  PROVE  Right(scan', found)
<1>1. scan.in = "string" /\ scan' = StringStep(Config.strings[scan.index])
  BY DEF InString
<1>2. PICK i \in 1 .. Len(file) + 1 :
        Upto(found, i) /\ i \in DOMAIN file /\ \E p \in Nat : InPiece(scan, i, p)
  BY <1>1 DEF Progress
<1>3. PICK p \in Nat : scan.at = file[i].at + p /\ InStringAt(scan, i, p)
  BY <1>1, <1>2 DEF InPiece
<1>4. Progress(scan', found)
  BY <1>1, <1>2, <1>3, StringStepRight
<1> QED BY <1>4, ProgressIsRight

(* A line comment ends its line.                                           *)
LEMMA AfterLine ==
  ASSUME ScanInv, FileInv, NEW i \in DOMAIN file, Kind(i) = "line", EndOf(i) < Len(runes)
  PROVE  \/ runes[EndOf(i) + 1] = "nl"
         \/ /\ EndOf(i) + 2 <= Len(runes)
            /\ runes[EndOf(i) + 1] = "cr" /\ runes[EndOf(i) + 2] = "nl"
<1> DEFINE k == i + 1
           x == Text(k)
           at == file[k].at
<1>1. k \in DOMAIN file /\ at = EndOf(i) /\ i \in Nat
  BY NextPiece
<1>2. k > 1 /\ k - 1 = i
  <2>1. i \in 1 .. Len(file)
    BY FileIs DEF ScanInv
  <2> QED BY <2>1
<1>3. EndsLine(x)
  BY <1>1, <1>2 DEF FileInv, Stands
<1>4. /\ Len(x) \in Nat \ {0} /\ at \in Nat
      /\ at + Len(x) <= Len(runes) /\ \A n \in 1 .. Len(x) : runes[at + n] = x[n]
  <2>1. Len(x) \in Nat \ {0} /\ at \in Nat /\ EndOf(k) = at + Len(x)
    BY <1>1, FileIs DEF ScanInv
  <2>2. EndOf(k) <= Len(runes) /\ \A n \in 1 .. Len(x) : runes[at + n] = x[n]
    BY <1>1 DEF FileInv
  <2> QED BY <2>1, <2>2
<1>5. Len(runes) \in Nat
  BY ScanPlace
<1> HIDE DEF k, x, at
<1>6. CASE Reads(x, 0, <<"nl">>)
  <2>1. 0 \in Nat /\ 0 < Len(x) /\ x[0 + 1] = "nl" /\ 0 + 1 = 1
    BY <1>4, <1>6, ReadsOne
  <2>2. 1 \in 1 .. Len(x) /\ x[1] = "nl"
    BY <1>4, <2>1
  <2> QED BY <1>1, <1>4, <2>2
<1>7. CASE Reads(x, 0, <<"cr", "nl">>)
  <2>1. 0 \in Nat /\ 0 + 2 <= Len(x) /\ x[0 + 1] = "cr" /\ x[0 + 2] = "nl" /\ 0 + 1 = 1 /\ 0 + 2 = 2
    BY <1>4, <1>7, ReadsTwo
  <2>2. 1 \in 1 .. Len(x) /\ x[1] = "cr" /\ 2 \in 1 .. Len(x) /\ x[2] = "nl"
    BY <1>4, <2>1
  <2>3. runes[at + 1] = "cr" /\ runes[at + 2] = "nl"
    BY <1>4, <2>2
  <2>4. at + 2 <= Len(runes)
    BY <1>4, <1>5, <2>2
  <2> QED BY <1>1, <2>3, <2>4
<1> QED BY <1>3, <1>6, <1>7 DEF EndsLine

LEMMA LineIs ==
  ASSUME ScanInv, FileInv, AllLegible, NEW i \in DOMAIN file, Kind(i) = "line"
  PROVE  (\A n \in 1 .. Len(Text(i)) : Text(i)[n] # "nl") /\ Text(i)[Len(Text(i))] # "cr"
<1>1. IsLine(Config, Text(i))
  BY LegibleIs
<1>2. DOMAIN Text(i) = 1 .. Len(Text(i))
  BY FileIs DEF ScanInv
<1> QED BY <1>1, <1>2 DEF IsLine, Last

(* The line ends where the comment does.                                   *)
LEMMA LineEndIs ==
  ASSUME ScanInv, FileInv, AllLegible, NEW i \in DOMAIN file, Kind(i) = "line",
         NEW p \in Nat, p <= Len(Text(i)), scan.at = file[i].at + p
  PROVE  IsLineEnd <=> p = Len(Text(i))
<1> DEFINE x == Text(i)
           at == scan.at
           w == Len(runes)
<1>1. Len(x) \in Nat \ {0} /\ file[i].at \in Nat /\ EndOf(i) = file[i].at + Len(x)
      /\ EndOf(i) <= w /\ at \in Nat /\ w \in Nat
  BY PieceRunes, ScanPlace
<1>2. IsLineEnd <=> \/ ~(at < w)
                    \/ at < w /\ runes[at + 1] = "nl"
                    \/ at + 2 <= w /\ runes[at + 1] = "cr" /\ runes[at + 2] = "nl"
  BY PeekOne, PeekTwo DEF IsLineEnd
<1>3. CASE p = Len(x)
  <2>1. at = EndOf(i)
    BY <1>1, <1>3
  <2>2. at < w => \/ runes[at + 1] = "nl"
                  \/ at + 2 <= w /\ runes[at + 1] = "cr" /\ runes[at + 2] = "nl"
    BY <2>1, AfterLine
  <2> QED BY <1>2, <1>3, <2>2
<1>4. CASE p < Len(x)
  <2>1. at < w /\ runes[at + 1] = x[p + 1]
    BY <1>1, <1>4, PieceRunes
  <2>2. p + 1 \in 1 .. Len(x)
    BY <1>1, <1>4
  <2>3. x[p + 1] # "nl"
    BY <2>2, LineIs
  <2>4. ~(at + 2 <= w /\ runes[at + 1] = "cr" /\ runes[at + 2] = "nl")
    <3>1. CASE p + 1 = Len(x)
      BY <2>1, <3>1, LineIs
    <3>2. CASE p + 2 <= Len(x)
      <4>1. p + 2 \in 1 .. Len(x)
        BY <1>1, <3>2
      <4>2. x[p + 2] # "nl"
        BY <4>1, LineIs
      <4>3. runes[at + 2] = x[p + 2]
        BY <3>2, PieceRunes
      <4> QED BY <4>2, <4>3
    <3>3. p + 1 = Len(x) \/ p + 2 <= Len(x)
      BY <1>1, <1>4
    <3> QED BY <3>1, <3>2, <3>3
  <2> QED BY <1>2, <1>4, <2>1, <2>3, <2>4
<1> QED BY <1>1, <1>3, <1>4

(* The comment is reported with its bytes and its line.                    *)
LEMMA LineReported ==
  ASSUME ScanInv, FileInv, AllLegible, NEW i \in DOMAIN file, Upto(found, i),
         scan.at = file[i].at + Len(Text(i)), InLineAt(scan, i, Len(Text(i))), LineCommentEnds
  PROVE  Progress(scan', found')
<1> DEFINE x == Text(i)
           b == file[i].at
           e == scan.at
<1>1. Kind(i) = "line" /\ Begun(scan, i)
  BY DEF InLineAt
<1>2. Len(x) \in Nat \ {0} /\ b \in Nat /\ EndOf(i) = b + Len(x) /\ e = b + Len(x)
      /\ \A n \in 1 .. Len(x) : runes[b + n] = x[n]
  BY FileIs DEF ScanInv, FileInv
<1>3. /\ scan' = [scan EXCEPT !.in = "code"]
      /\ found' = Append(found, [start |-> scan.start, end |-> scan.bytes, line |-> scan.line])
  BY DEF LineCommentEnds, Report
<1>4. scan.start = BytesIn(0, b) /\ scan.bytes = BytesIn(0, e) /\ scan.line = 1 + NewlinesIn(0, e)
  BY <1>1, ScanPlace DEF Begun, OnPlace
<1>5. NewlinesIn(0, e) = NewlinesIn(0, b)
  <2>1. \A n \in 1 .. Len(x) : x[n] # "nl"
    BY <1>1, LineIs
  <2> HIDE DEF x, b, e
  <2>2. \A n \in b + 1 .. e : runes[n] # "nl"
    <3> SUFFICES ASSUME NEW n \in b + 1 .. e PROVE runes[n] # "nl"
      OBVIOUS
    <3>1. n - b \in 1 .. Len(x) /\ b + (n - b) = n
      BY <1>2
    <3>2. runes[b + (n - b)] = x[n - b] /\ x[n - b] # "nl"
      BY <1>2, <2>1, <3>1
    <3> QED BY <3>1, <3>2
  <2>3. e \in Nat /\ b <= e
    BY <1>2
  <2> QED BY <1>2, <2>2, <2>3, CountsGrow
<1>6. CommentOf(file[i]) = [start |-> scan.start, end |-> scan.bytes, line |-> scan.line]
  BY <1>2, <1>4, <1>5 DEF CommentOf, Text
<1>7. Upto(found', i + 1)
  BY <1>1, <1>3, <1>6, UptoComment DEF Begun
<1>8. scan'.in = "code" /\ scan'.at = scan.at
  BY <1>3, ScanPlace DEF Fields
<1>9. scan'.at = EndOf(i)
  BY <1>2, <1>8
<1> QED BY <1>7, <1>8, <1>9, AtNext

(* A line comment that goes on.                                            *)
LEMMA LineGoesOn ==
  ASSUME ScanInv, FileInv, NEW i \in DOMAIN file, Upto(found, i),
         NEW p \in Nat, scan.at = file[i].at + p, p < Len(Text(i)), InLineAt(scan, i, p),
         scan.in \in {"line", "lineOrString"}, NEW t, t = Advance(scan, 1)
  PROVE  Progress(t, found)
<1>1. Len(Text(i)) \in Nat /\ file[i].at \in Nat /\ scan.at < Len(runes)
      /\ scan.at \in Nat /\ Len(runes) \in Nat
  BY PieceRunes, ScanPlace
<1>2. 1 \in Nat /\ scan.at + 1 <= Len(runes)
  BY <1>1
<1>3. /\ t.at = scan.at + 1 /\ t.in = scan.in /\ t.index = scan.index
      /\ t.start = scan.start /\ t.startLine = scan.startLine
  BY <1>2, ReadFurther
<1>4. p + 1 \in Nat /\ p + 1 > 0 /\ p + 1 <= Len(Text(i)) /\ t.at = file[i].at + (p + 1)
  BY <1>1, <1>3
<1>5. Begun(t, i)
  BY <1>3 DEF InLineAt, Begun
<1>6. InLineAt(t, i, p + 1)
  BY <1>3, <1>4, <1>5 DEF InLineAt
<1>7. InPiece(t, i, p + 1)
  BY <1>3, <1>4, <1>6 DEF InPiece
<1>8. i \in 1 .. Len(file) + 1
  <2>1. DOMAIN file = 1 .. Len(file) /\ Len(file) \in Nat
    BY FileIs DEF ScanInv
  <2> QED BY <2>1
<1> QED BY <1>4, <1>7, <1>8 DEF Progress

LEMMA InLineCommentRight ==
  ASSUME ScanInv, FileInv, AllLegible, Progress(scan, found), InLineComment
  PROVE  Right(scan', found')
<1>1. scan.in = "line"
  BY DEF InLineComment
<1>2. PICK i \in 1 .. Len(file) + 1 :
        Upto(found, i) /\ i \in DOMAIN file /\ \E p \in Nat : InPiece(scan, i, p)
  BY <1>1 DEF Progress
<1>3. PICK p \in Nat : scan.at = file[i].at + p /\ InLineAt(scan, i, p)
  BY <1>1, <1>2 DEF InPiece
<1>4. Kind(i) = "line" /\ p <= Len(Text(i)) /\ Len(Text(i)) \in Nat
  BY <1>2, <1>3, FileIs DEF InLineAt, ScanInv
<1>5. IsLineEnd <=> p = Len(Text(i))
  BY <1>2, <1>3, <1>4, LineEndIs
<1>6. CASE LineCommentEnds
  <2>1. p = Len(Text(i))
    BY <1>5, <1>6 DEF LineCommentEnds
  <2> QED BY <1>2, <1>3, <1>6, <2>1, LineReported, ProgressIsRight
<1>7. CASE ~IsLineEnd /\ scan' = NextRune(scan) /\ UNCHANGED found
  <2>1. p < Len(Text(i))
    BY <1>4, <1>5, <1>7
  <2>2. scan.at < Len(runes)
    BY <1>2, <1>3, <2>1, PieceRunes
  <2>3. scan' = Advance(scan, 1)
    BY <1>7, <2>2 DEF NextRune
  <2>4. Progress(scan', found)
    BY <1>1, <1>2, <1>3, <2>1, <2>3, LineGoesOn
  <2>5. found' = found
    BY <1>7
  <2>6. Right(scan', found)
    BY <2>4, ProgressIsRight
  <2> QED BY <2>5, <2>6
<1> QED BY <1>6, <1>7 DEF InLineComment

(* A line comment that may be a string is none.                            *)
LEMMA NoStringInLine ==
  ASSUME ScanInv, FileInv, AllLegible, NEW i \in DOMAIN file,
         NEW p \in Nat, scan.at = file[i].at + p, p < Len(Text(i)), InLineAt(scan, i, p),
         scan.in = "lineOrString"
  PROVE  StringStep(Config.strings[scan.index]) = Advance(scan, 1)
<1> DEFINE m == Config.strings[scan.index]
           x == Text(i)
           q == m.end[1]
           at == scan.at
           w == Len(runes)
<1>1. /\ Kind(i) = "line" /\ p > 0 /\ scan.index \in DOMAIN Config.strings
      /\ \A n \in 2 .. Len(x) : x[n] # q
  BY DEF InLineAt
<1>2. StringShape(m) /\ m.escape \in {"char", "double"}
  BY <1>1, ConfigShape DEF Shape, StringShape
<1>3. q \in Quotes
  BY <1>2, StringShapeIs
<1>4. /\ Len(x) \in Nat /\ file[i].at \in Nat /\ EndOf(i) = file[i].at + Len(x) /\ at \in Nat /\ w \in Nat
      /\ at < w /\ runes[at + 1] = x[p + 1]
      /\ p + 2 <= Len(x) => runes[at + 2] = x[p + 2]
  BY PieceRunes, ScanPlace
<1>5. p + 1 \in 2 .. Len(x)
  BY <1>1, <1>4
<1>6. runes[at + 1] # q
  BY <1>1, <1>4, <1>5
<1>7. at + 2 <= w => runes[at + 2] # q
  <2> SUFFICES ASSUME at + 2 <= w PROVE runes[at + 2] # q
    OBVIOUS
  <2>1. CASE p + 2 <= Len(x)
    <3>1. p + 2 \in 2 .. Len(x)
      BY <1>4, <2>1
    <3> QED BY <1>1, <1>4, <2>1, <3>1
  <2>2. CASE p + 1 = Len(x)
    <3>1. EndOf(i) + 1 = at + 2 /\ EndOf(i) < w
      <4> DEFINE z == file[i].at
                 l == Len(x)
      <4>1. z \in Nat /\ l \in Nat /\ at = z + p /\ p + 1 = l /\ EndOf(i) = z + l /\ at + 2 <= w /\ w \in Nat
        BY <1>4, <2>2
      <4> HIDE DEF z, l, at, w
      <4> QED BY <4>1
    <3>2. runes[EndOf(i) + 1] \in {"nl", "cr"}
      BY <1>1, <3>1, AfterLine
    <3> QED BY <1>3, <3>1, <3>2 DEF Quotes
  <2>3. p + 2 <= Len(x) \/ p + 1 = Len(x)
    BY <1>4
  <2> QED BY <2>1, <2>2, <2>3
<1> HIDE DEF q
<1>8. StringStep(m) = Advance(scan, 1)
  BY <1>2, <1>4, <1>6, <1>7, StringStepSays DEF q
<1> QED BY <1>8

LEMMA InLineCommentOrStringRight ==
  ASSUME ScanInv, FileInv, AllLegible, Progress(scan, found), InLineCommentOrString
  PROVE  Right(scan', found')
<1>1. scan.in = "lineOrString"
  BY DEF InLineCommentOrString
<1>2. PICK i \in 1 .. Len(file) + 1 :
        Upto(found, i) /\ i \in DOMAIN file /\ \E p \in Nat : InPiece(scan, i, p)
  BY <1>1 DEF Progress
<1>3. PICK p \in Nat : scan.at = file[i].at + p /\ (InLineAt(scan, i, p) \/ InStringAt(scan, i, p))
  BY <1>1, <1>2 DEF InPiece
<1>4. \/ LineCommentEnds
      \/ ~IsLineEnd /\ scan' = StringStep(Config.strings[scan.index]) /\ UNCHANGED found
  BY DEF InLineCommentOrString
<1>5. CASE InLineAt(scan, i, p)
  <2>1. Kind(i) = "line" /\ p <= Len(Text(i)) /\ Len(Text(i)) \in Nat
    BY <1>2, <1>5, FileIs DEF InLineAt, ScanInv
  <2>2. IsLineEnd <=> p = Len(Text(i))
    BY <1>2, <1>3, <2>1, LineEndIs
  <2>3. CASE LineCommentEnds
    <3>1. p = Len(Text(i))
      BY <2>2, <2>3 DEF LineCommentEnds
    <3> QED BY <1>2, <1>3, <1>5, <2>3, <3>1, LineReported, ProgressIsRight
  <2>4. CASE ~IsLineEnd /\ scan' = StringStep(Config.strings[scan.index]) /\ UNCHANGED found
    <3>1. p < Len(Text(i))
      BY <2>1, <2>2, <2>4
    <3>2. scan' = Advance(scan, 1)
      BY <1>1, <1>2, <1>3, <1>5, <2>4, <3>1, NoStringInLine
    <3>3. Progress(scan', found)
      BY <1>1, <1>2, <1>3, <1>5, <3>1, <3>2, LineGoesOn
    <3>4. found' = found
      BY <2>4
    <3>5. Right(scan', found)
      BY <3>3, ProgressIsRight
    <3> QED BY <3>4, <3>5
  <2> QED BY <1>4, <2>3, <2>4
<1>6. CASE InStringAt(scan, i, p)
  <2> DEFINE m == Config.strings[scan.index]
             x == Text(i)
             q == m.end[1]
  <2>1. PICK a \in Nat, b \in Nat :
          /\ a < p /\ p < b /\ b <= Len(x) /\ IsString(Config, m, x, a, b)
          /\ \A n \in a + 1 .. b : x[n] # "nl"
    BY <1>1, <1>6 DEF InStringAt
  <2>2. StringShape(m)
    BY <1>6, ConfigShape DEF InStringAt, Shape
  <2>3. m.end = <<q>> /\ q \in Quotes
    BY <2>2, StringShapeIs
  <2>4. Len(x) \in Nat /\ scan.at \in Nat /\ Len(runes) \in Nat
    BY <1>2, ScanPlace, FileIs DEF ScanInv
  <2>5. x[b] = q
    <3>1. Reads(x, b - 1, <<q>>)
      BY <2>1, <2>3 DEF IsString
    <3>2. b - 1 \in Nat /\ b - 1 + 1 = b
      BY <2>1
    <3>3. x[b - 1 + 1] = q
      <4> HIDE DEF x, q
      <4> QED BY <2>4, <3>1, <3>2, ReadsOne
    <3> QED BY <3>2, <3>3
  <2>6. p < Len(x) /\ p + 1 \in a + 1 .. b
    BY <2>1, <2>4
  <2>7. scan.at < Len(runes) /\ runes[scan.at + 1] = x[p + 1] /\ x[p + 1] # "nl"
    BY <1>2, <1>3, <2>1, <2>6, PieceRunes
  <2>8. ~IsLineEnd
    <3>1. ~AtEnd(<<"nl">>) /\ ~PeekEqual(<<"nl">>)
      BY <2>7, PeekOne
    <3>2. ~PeekEqual(<<"cr", "nl">>)
      <4>1. CASE p + 1 = b
        <5>1. runes[scan.at + 1] # "cr"
          BY <2>3, <2>5, <2>7, <4>1 DEF Quotes
        <5> QED BY <5>1, PeekTwo
      <4>2. CASE p + 2 <= b
        <5>1. p + 2 \in a + 1 .. b /\ p + 2 <= Len(x)
          BY <2>1, <2>4, <4>2
        <5>2. x[p + 2] # "nl" /\ runes[scan.at + 2] = x[p + 2]
          BY <1>2, <1>3, <2>1, <5>1, PieceRunes
        <5> QED BY <5>2, PeekTwo
      <4>3. p + 1 = b \/ p + 2 <= b
        BY <2>1
      <4> QED BY <4>1, <4>2, <4>3
    <3> QED BY <3>1, <3>2 DEF IsLineEnd
  <2>9. scan' = StringStep(m) /\ found' = found
    BY <1>4, <2>8 DEF LineCommentEnds
  <2>10. Progress(scan', found)
    BY <1>1, <1>2, <1>3, <1>6, <2>9, StringStepRight
  <2>11. Right(scan', found)
    BY <2>10, ProgressIsRight
  <2> QED BY <2>9, <2>11
<1> QED BY <1>3, <1>5, <1>6

-----------------------------------------------------------------------------
(* Comments on several lines.                                              *)

LEMMA CountNext ==
  ASSUME NEW from \in Int, NEW to \in Int, NEW places \in SUBSET (from .. to), NEW n \in Int
  PROVE  /\ CountBelow(places, n) \in Nat
         /\ n \in places => CountBelow(places, n + 1) = CountBelow(places, n) + 1
         /\ n \notin places => CountBelow(places, n + 1) = CountBelow(places, n)
<1> DEFINE Below(j) == {i \in places : i < j}
<1>1. \A i \in places : i \in Int
  OBVIOUS
<1>2. IsFiniteSet(places)
  BY FS_Interval, FS_Subset
<1>3. IsFiniteSet(Below(n)) /\ Cardinality(Below(n)) \in Nat
  <2>1. Below(n) \subseteq places
    OBVIOUS
  <2> HIDE DEF Below
  <2> QED BY <1>2, <2>1, FS_Subset, FS_CardinalityType
<1>9. \A i \in places : i < n + 1 <=> i < n \/ i = n
  <2> SUFFICES ASSUME NEW i \in places PROVE i < n + 1 <=> i < n \/ i = n
    OBVIOUS
  <2>1. i \in Int
    BY <1>1
  <2> QED BY <2>1
<1>4. n \in places => Below(n + 1) = Below(n) \cup {n}
  BY <1>9
<1>5. n \notin places => Below(n + 1) = Below(n)
  BY <1>9
<1>6. n \notin Below(n)
  BY <1>1
<1>7. \A j : CountBelow(places, j) = Cardinality(Below(j))
  BY DEF CountBelow
<1> HIDE DEF Below
<1>8. Cardinality(Below(n) \cup {n}) = Cardinality(Below(n)) + 1
  BY <1>3, <1>6, FS_AddElement
<1> QED BY <1>3, <1>4, <1>5, <1>7, <1>8

(* The scanner is p runes into the i-th piece, a comment that m begins.    *)
InPlace(i, p, m, from, to, starts, ends) ==
    /\ m = Config.multi[scan.index] /\ m \in ToSet(Config.multi)
    /\ from = Len(m.start) /\ to = Len(Text(i)) - Len(m.end)
    /\ starts = IF m.nested THEN Places(Text(i), m.start, m.atFirstColumn, from, to) ELSE {}
    /\ ends = Places(Text(i), m.end, m.atFirstColumn, from, to)
    /\ p \in Nat /\ from \in Nat \ {0} /\ to \in Int /\ from <= p /\ p <= to
    /\ scan.at = file[i].at + p /\ Begun(scan, i)
    /\ scan.depth = CountBelow(starts, p) - CountBelow(ends, p)

(* What the text says there.                                               *)
LEMMA InPlaceSays ==
  ASSUME ScanInv, FileInv, Columns(scan), AllLegible, NEW i \in DOMAIN file,
         Kind(i) \in {"multi", "column"},
         NEW p, NEW m, NEW from, NEW to, NEW starts, NEW ends,
         InPlace(i, p, m, from, to, starts, ends)
  PROVE  /\ to \in ends /\ CountBelow(starts, to) = CountBelow(ends, to)
         /\ \A n \in starts : n + 1 \notin ends
         /\ \A n \in ends \ {to} : /\ CountBelow(starts, n) > CountBelow(ends, n)
                                  /\ n + Len(m.end) \notin starts \cup ends
         /\ starts \in SUBSET (from .. to) /\ ends \in SUBSET (from .. to)
         /\ Len(m.end) \in Nat \ {0} /\ Len(Text(i)) \in Nat /\ to + Len(m.end) = Len(Text(i))
         /\ ~AtEnd(m.end) /\ (m.nested => ~AtEnd(m.start))
         /\ (PeekEqual(m.end) /\ (m.atFirstColumn => scan.atFirstColumn)) <=> p \in ends
         /\ (m.nested /\ PeekEqual(m.start) /\ (m.atFirstColumn => scan.atFirstColumn)) <=> p \in starts
         /\ Marker(m.start) /\ Marker(m.end) /\ MultiShape(m)
<1> DEFINE x == Text(i)
<1>1. /\ m = Config.multi[scan.index] /\ m \in ToSet(Config.multi)
      /\ from = Len(m.start) /\ to = Len(x) - Len(m.end)
      /\ starts = IF m.nested THEN Places(x, m.start, m.atFirstColumn, from, to) ELSE {}
      /\ ends = Places(x, m.end, m.atFirstColumn, from, to)
      /\ p \in Nat /\ from \in Nat \ {0} /\ to \in Int /\ from <= p /\ p <= to
      /\ scan.at = file[i].at + p
  BY DEF InPlace
<1>2. PICK k \in DOMAIN Config.multi : m = Config.multi[k]
  BY <1>1 DEF ToSet
<1>3. Marker(m.start) /\ Marker(m.end) /\ MultiShape(m)
  BY <1>2, ConfigShape DEF GoodConfig, Shape
<1>4. /\ to \in ends /\ CountBelow(starts, to) = CountBelow(ends, to)
      /\ \A n \in starts : n + 1 \notin ends
      /\ \A n \in ends \ {to} : /\ CountBelow(starts, n) > CountBelow(ends, n)
                               /\ n + Len(m.end) \notin starts \cup ends
  <2>1. IsMulti(Config, x, Kind(i))
    BY LegibleIs
  <2>2. \A h \in ToSet(Config.multi) : h = m
    <3>1. DOMAIN Config.multi \subseteq {1}
      BY ConfigShape DEF Shape
    <3> QED BY <1>2, <3>1 DEF ToSet
  <2> DEFINE Says(h, t, S, E) ==
        /\ t \in E /\ CountBelow(S, t) = CountBelow(E, t)
        /\ \A n \in S : n + 1 \notin E
        /\ \A n \in E \ {t} : /\ CountBelow(S, n) > CountBelow(E, n)
                             /\ n + Len(h.end) \notin S \cup E
             Start(h) == IF h.nested
                         THEN Places(x, h.start, h.atFirstColumn, Len(h.start), Len(x) - Len(h.end))
                         ELSE {}
             End(h) == Places(x, h.end, h.atFirstColumn, Len(h.start), Len(x) - Len(h.end))
  <2>3. \E h \in ToSet(Config.multi) : Says(h, Len(x) - Len(h.end), Start(h), End(h))
    BY <2>1 DEF IsMulti
  <2>4. Says(m, Len(x) - Len(m.end), Start(m), End(m))
    <3> HIDE DEF Says, Start, End
    <3> QED BY <2>2, <2>3
  <2>5. starts = Start(m) /\ ends = End(m) /\ to = Len(x) - Len(m.end)
    BY <1>1
  <2>6. Says(m, to, starts, ends)
    <3> HIDE DEF Says, Start, End
    <3> QED BY <2>4, <2>5
  <2> QED BY <2>6
<1>5. starts \in SUBSET (from .. to) /\ ends \in SUBSET (from .. to)
  BY <1>1 DEF Places
<1>6. Len(m.end) \in Nat \ {0} /\ Len(x) \in Nat /\ to + Len(m.end) = Len(x)
  <2>1. Len(m.end) \in Nat \ {0} /\ Len(x) \in Nat
    BY <1>3, FileIs DEF ScanInv, Marker
  <2> DEFINE v == Len(m.end)
             w == Len(x)
  <2>2. v \in Nat /\ w \in Nat /\ to = w - v
    BY <1>1, <2>1
  <2> HIDE DEF v, w
  <2>3. to + v = w
    BY <2>2
  <2> QED BY <2>1, <2>3 DEF v, w
<1>7. m.nested => Len(m.start) = Len(m.end)
  <2>1. \A s : s = <<"(", "*">> \/ s = <<"*", ")">> => Len(s) = 2
    OBVIOUS
  <2> QED BY <1>3, <2>1 DEF MultiShape
<1>8. p + Len(m.end) <= Len(x) /\ (m.nested => p + Len(m.start) <= Len(x))
  <2> DEFINE v == Len(m.end)
             u == Len(m.start)
             l == Len(x)
  <2>1. p \in Nat /\ to \in Int /\ p <= to /\ v \in Nat /\ l \in Nat /\ to + v = l /\ (m.nested => u = v)
    BY <1>1, <1>6, <1>7
  <2> HIDE DEF v, u, l
  <2>2. p + v <= l
    BY <2>1
  <2> QED BY <2>1, <2>2 DEF v, u, l
<1>9. /\ ~AtEnd(m.end) /\ (PeekEqual(m.end) <=> Reads(x, p, m.end))
      /\ m.nested => ~AtEnd(m.start) /\ (PeekEqual(m.start) <=> Reads(x, p, m.start))
  BY <1>1, <1>3, <1>8, PeekIn
<1>10. p \in from .. to /\ (scan.atFirstColumn <=> x[p] = "nl")
  <2>1. p \in from .. to /\ 0 < p /\ p <= Len(x)
    <3> DEFINE v == Len(m.end)
               l == Len(x)
    <3>1. /\ p \in Nat /\ to \in Int /\ from \in Nat \ {0} /\ from <= p /\ p <= to
          /\ v \in Nat /\ l \in Nat /\ to + v = l
      BY <1>1, <1>6
    <3> HIDE DEF v, l
    <3>2. p \in from .. to /\ 0 < p /\ p <= l
      BY <3>1
    <3> QED BY <3>2 DEF l
  <2>2. runes[scan.at] = x[p] /\ file[i].at \in Nat
    BY <1>1, <2>1, PieceRunes
  <2>3. scan.at # 0
    <3>1. scan.at = file[i].at + p /\ p \in Nat
      BY <1>1
    <3> QED BY <2>1, <2>2, <3>1
  <2>4. scan.atFirstColumn = (scan.at = 0 \/ runes[scan.at] = "nl")
    BY DEF Columns
  <2> QED BY <2>1, <2>2, <2>3, <2>4
<1>11. (PeekEqual(m.end) /\ (m.atFirstColumn => scan.atFirstColumn)) <=> p \in ends
  BY <1>1, <1>9, <1>10 DEF Places
<1>12. (m.nested /\ PeekEqual(m.start) /\ (m.atFirstColumn => scan.atFirstColumn)) <=> p \in starts
  <2>1. CASE m.nested
    BY <1>1, <1>9, <1>10, <2>1 DEF Places
  <2>2. CASE ~m.nested
    BY <1>1, <2>2
  <2> QED BY <2>1, <2>2
<1> QED BY <1>3, <1>4, <1>5, <1>6, <1>9, <1>11, <1>12

(* The scanner goes on to the place n in the comment.                      *)
LEMMA PlaceGoesOn ==
  ASSUME ScanInv, FileInv, NEW i \in DOMAIN file, Kind(i) \in {"multi", "column"}, Upto(found, i),
         scan.index \in DOMAIN Config.multi,
         NEW p, NEW m, NEW from, NEW to, NEW starts, NEW ends,
         InPlace(i, p, m, from, to, starts, ends),
         NEW n \in Nat, p <= n, n <= to,
         NEW s, s.in = "multi", s.index = scan.index, s.at = file[i].at + n, s.start = scan.start,
         s.startLine = scan.startLine, s.depth = CountBelow(starts, n) - CountBelow(ends, n)
  PROVE  Progress(s, found)
<1>1. /\ m = Config.multi[scan.index]
      /\ from = Len(m.start) /\ to = Len(Text(i)) - Len(m.end)
      /\ starts = IF m.nested THEN Places(Text(i), m.start, m.atFirstColumn, from, to) ELSE {}
      /\ ends = Places(Text(i), m.end, m.atFirstColumn, from, to)
      /\ p \in Nat /\ from \in Nat /\ from <= p /\ Begun(scan, i)
  BY DEF InPlace
<1>2. from <= n /\ Begun(s, i)
  <2>1. p \in Nat /\ from \in Nat /\ from <= p /\ Begun(scan, i)
    BY <1>1
  <2>2. from <= n
    BY <2>1
  <2>3. Begun(s, i)
    BY <2>1 DEF Begun
  <2> QED BY <2>2, <2>3
<1>3. InMultiAt(s, i, n)
  BY <1>1, <1>2 DEF InMultiAt
<1>4. InPiece(s, i, n)
  BY <1>3 DEF InPiece
<1>5. i \in 1 .. Len(file) + 1
  <2>1. DOMAIN file = 1 .. Len(file) /\ Len(file) \in Nat
    BY FileIs DEF ScanInv
  <2> QED BY <2>1
<1> QED BY <1>4, <1>5 DEF Progress

(* Where a nested comment starts or ends, nothing else does, and the       *)
(* scanner stays in the comment around it.                                 *)
LEMMA Nested ==
  ASSUME NEW m, MultiShape(m), m.nested, NEW x, Len(x) \in Nat,
         NEW from \in Int, NEW to \in Int, to + 2 = Len(x), NEW starts, NEW ends,
         starts = Places(x, m.start, m.atFirstColumn, from, to),
         ends = Places(x, m.end, m.atFirstColumn, from, to)
  PROVE  /\ \A n \in starts : n \in Int /\ (n \in Nat => x[n + 1] = "(" /\ x[n + 2] = "*")
         /\ \A n \in ends : n \in Int /\ (n \in Nat => x[n + 1] = "*" /\ x[n + 2] = ")")
<1>1. m.start = <<"(", "*">> /\ m.end = <<"*", ")">>
  BY DEF MultiShape
<1>2. \A n \in starts : n \in Int /\ Reads(x, n, <<"(", "*">>)
  BY <1>1 DEF Places
<1>3. \A n \in ends : n \in Int /\ Reads(x, n, <<"*", ")">>)
  BY <1>1 DEF Places
<1> QED BY <1>2, <1>3, ReadsTwo

LEMMA InMultilineCommentRight ==
  ASSUME ScanInv, FileInv, Columns(scan), AllLegible, Progress(scan, found), InMultilineComment
  PROVE  Right(scan', found')
<1> DEFINE m == Config.multi[scan.index]
           mayStand == m.atFirstColumn => scan.atFirstColumn
           nests == m.nested /\ PeekEqual(m.start) /\ mayStand
           short == AtEnd(m.end) \/ (m.nested /\ AtEnd(m.start))
           fits == PeekEqual(m.end) /\ mayStand
           after == DiscardRunes(Len(m.end))
<1>1. scan.in = "multi"
  BY DEF InMultilineComment
<1>2. \/ nests /\ scan' = [DiscardRunes(Len(m.start)) EXCEPT !.depth = @ + 1] /\ UNCHANGED found
      \/ ~nests /\ short
      \/ /\ ~nests /\ fits /\ scan.depth = 0
         /\ Report(after, StartLine) /\ scan' = [after EXCEPT !.in = "code"]
      \/ /\ ~nests /\ fits /\ scan.depth > 0
         /\ scan' = NextRune([after EXCEPT !.depth = @ - 1]) /\ UNCHANGED found
      \/ ~nests /\ ~fits /\ scan' = NextRune(scan) /\ UNCHANGED found
  BY DEF InMultilineComment
<1>3. PICK i \in 1 .. Len(file) + 1 :
        Upto(found, i) /\ i \in DOMAIN file /\ \E p \in Nat : InPiece(scan, i, p)
  BY <1>1 DEF Progress
<1>4. PICK p \in Nat : scan.at = file[i].at + p /\ InMultiAt(scan, i, p)
  BY <1>1, <1>3 DEF InPiece
<1> DEFINE x == Text(i)
           from == Len(m.start)
           to == Len(x) - Len(m.end)
           starts == IF m.nested THEN Places(x, m.start, m.atFirstColumn, from, to) ELSE {}
           ends == Places(x, m.end, m.atFirstColumn, from, to)
<1>5. /\ Kind(i) \in {"multi", "column"} /\ scan.index \in DOMAIN Config.multi
      /\ from <= p /\ p <= to /\ Begun(scan, i)
      /\ scan.depth = CountBelow(starts, p) - CountBelow(ends, p)
  BY <1>4 DEF InMultiAt
<1>6. Marker(m.start) /\ Marker(m.end) /\ m \in ToSet(Config.multi)
  BY <1>5, ConfigShape DEF GoodConfig, ToSet
<1>7. from \in Nat \ {0} /\ Len(m.end) \in Nat \ {0} /\ Len(x) \in Nat /\ to \in Int
  <2>1. Len(x) \in Nat
    BY <1>3, FileIs DEF ScanInv
  <2> QED BY <1>6, <2>1 DEF Marker
<1>8. InPlace(i, p, m, from, to, starts, ends)
  BY <1>4, <1>5, <1>6, <1>7 DEF InPlace
<1>9. /\ to \in ends /\ CountBelow(starts, to) = CountBelow(ends, to)
      /\ \A n \in starts : n + 1 \notin ends
      /\ \A n \in ends \ {to} : /\ CountBelow(starts, n) > CountBelow(ends, n)
                               /\ n + Len(m.end) \notin starts \cup ends
      /\ starts \in SUBSET (from .. to) /\ ends \in SUBSET (from .. to)
      /\ to + Len(m.end) = Len(x)
      /\ ~short /\ (fits <=> p \in ends) /\ (nests <=> p \in starts) /\ MultiShape(m)
  <2>1. x = Text(i) /\ i \in DOMAIN file /\ Kind(i) \in {"multi", "column"}
    BY <1>3, <1>5
  <2> HIDE DEF m, x, from, to, starts, ends
  <2> QED BY <1>8, <2>1, InPlaceSays
<1>10. /\ scan.at \in Nat /\ file[i].at \in Nat /\ Len(runes) \in Nat
       /\ file[i].at + Len(x) <= Len(runes) /\ EndOf(i) = file[i].at + Len(x)
  BY <1>3, <1>4, PieceRunes, ScanPlace
<1>11. starts = {} \/ m.nested
  OBVIOUS
<1>12. m.nested => /\ Len(m.end) = 2 /\ Len(m.start) = 2
                   /\ \A n \in starts : n \in Nat => x[n + 1] = "(" /\ x[n + 2] = "*"
                   /\ \A n \in ends : n \in Nat => x[n + 1] = "*" /\ x[n + 2] = ")"
  <2>1. \A y, z : Len(<<y, z>>) = 2
    OBVIOUS
  <2>2. m.nested => Len(m.end) = 2 /\ Len(m.start) = 2
    BY <1>9, <2>1 DEF MultiShape
  <2>3. ASSUME m.nested
        PROVE  /\ starts = Places(x, m.start, m.atFirstColumn, from, to)
               /\ to + 2 = Len(x) /\ from \in Int
    <3>1. starts = Places(x, m.start, m.atFirstColumn, from, to)
      BY <2>3
    <3> HIDE DEF m, x, from, to, starts, ends
    <3>2. to \in Int /\ Len(x) \in Nat /\ from \in Int /\ to + Len(m.end) = Len(x)
      BY <1>7, <1>9
    <3>3. Len(m.end) = 2
      BY <2>2, <2>3
    <3>4. to + 2 = Len(x)
      BY <3>2, <3>3
    <3> QED BY <3>1, <3>2, <3>4
  <2>4. ends = Places(x, m.end, m.atFirstColumn, from, to)
    OBVIOUS
  <2> HIDE DEF m, x, from, to, starts, ends
  <2>5. ASSUME m.nested
        PROVE  /\ \A n \in starts : n \in Nat => x[n + 1] = "(" /\ x[n + 2] = "*"
               /\ \A n \in ends : n \in Nat => x[n + 1] = "*" /\ x[n + 2] = ")"
    <3>1. to \in Int /\ Len(x) \in Nat /\ from \in Int
      BY <1>7
    <3>2. MultiShape(m) /\ to + 2 = Len(x)
      BY <1>9, <2>3, <2>5
    <3>3. starts = Places(x, m.start, m.atFirstColumn, from, to)
      BY <2>3, <2>5
    <3>4. /\ \A n \in starts : n \in Int /\ (n \in Nat => x[n + 1] = "(" /\ x[n + 2] = "*")
          /\ \A n \in ends : n \in Int /\ (n \in Nat => x[n + 1] = "*" /\ x[n + 2] = ")")
      BY <2>4, <2>5, <3>1, <3>2, <3>3, Nested
    <3> QED BY <3>4
  <2> QED BY <2>2, <2>5
<1>13. \A n \in Int :
         /\ CountBelow(starts, n) \in Nat /\ CountBelow(ends, n) \in Nat
         /\ n \in starts => CountBelow(starts, n + 1) = CountBelow(starts, n) + 1
         /\ n \notin starts => CountBelow(starts, n + 1) = CountBelow(starts, n)
         /\ n \in ends => CountBelow(ends, n + 1) = CountBelow(ends, n) + 1
         /\ n \notin ends => CountBelow(ends, n + 1) = CountBelow(ends, n)
  <2> HIDE DEF m, x, from, to, starts, ends
  <2>1. from \in Int
    BY <1>7
  <2>2. starts \in SUBSET (from .. to) /\ ends \in SUBSET (from .. to)
    BY <1>9
  <2> QED BY <1>7, <2>1, <2>2, CountNext
<1> HIDE DEF m, x, from, to, starts, ends, nests, fits, short, mayStand
<1>14. ASSUME NEW n \in Nat, n <= to, p <= n, NEW s, s.in = "multi", s.index = scan.index,
              s.at = file[i].at + n, s.start = scan.start, s.startLine = scan.startLine,
              s.depth = CountBelow(starts, n) - CountBelow(ends, n)
       PROVE  Progress(s, found)
  BY <1>3, <1>5, <1>8, <1>14, PlaceGoesOn
<1>15. CASE nests /\ scan' = [DiscardRunes(Len(m.start)) EXCEPT !.depth = @ + 1] /\ UNCHANGED found
  <2>1. p \in starts /\ m.nested /\ Len(m.start) = 2
    BY <1>9, <1>11, <1>12, <1>15
  <2>2. x[p + 1] = "(" /\ x[p + 2] = "*"
    BY <1>12, <2>1
  <2>3. p \notin ends /\ p + 1 \notin ends /\ p + 1 \notin starts
    <3>1. p \notin ends
      BY <1>12, <2>1, <2>2
    <3>2. p + 1 \notin starts
      <4>1. p + 1 \in Nat
        OBVIOUS
      <4>2. p + 1 \in starts => x[p + 1 + 1] = "("
        BY <1>12, <2>1, <4>1
      <4>3. p + 1 + 1 = p + 2
        OBVIOUS
      <4> QED BY <2>2, <4>2, <4>3
    <3> QED BY <1>9, <2>1, <3>1, <3>2
  <2>4. p + 2 <= to
    <3>1. p # to /\ p + 1 # to
      BY <1>9, <2>3
    <3> QED BY <1>5, <1>7, <3>1
  <2>5. /\ CountBelow(starts, p + 2) = CountBelow(starts, p) + 1
        /\ CountBelow(ends, p + 2) = CountBelow(ends, p)
        /\ CountBelow(starts, p) \in Nat /\ CountBelow(ends, p) \in Nat
    <3>1. p \in Int /\ p + 1 \in Int /\ p + 1 + 1 = p + 2
      OBVIOUS
    <3>2. CountBelow(starts, p + 1) = CountBelow(starts, p) + 1 /\ CountBelow(ends, p + 1) = CountBelow(ends, p)
      BY <1>13, <2>1, <2>3, <3>1
    <3>3. /\ CountBelow(starts, p + 1 + 1) = CountBelow(starts, p + 1)
          /\ CountBelow(ends, p + 1 + 1) = CountBelow(ends, p + 1)
      BY <1>13, <2>3, <3>1
    <3> QED BY <1>13, <3>1, <3>2, <3>3
  <2>6. 2 \in Nat /\ scan.at + 2 <= Len(runes)
    <3> DEFINE z == file[i].at
               w == Len(runes)
               l == Len(x)
               v == Len(m.end)
    <3>1. /\ z \in Nat /\ w \in Nat /\ l \in Nat /\ v \in Nat /\ z + l <= w /\ scan.at = z + p
          /\ to + v = l
      BY <1>4, <1>7, <1>9, <1>10
    <3> HIDE DEF z, w, l, v
    <3>2. z + p + 2 <= w
      BY <1>7, <2>4, <3>1
    <3> QED BY <3>1, <3>2 DEF w
  <2> DEFINE d == Advance(scan, 2)
  <2>7. /\ DOMAIN d = Fields /\ d.at = scan.at + 2 /\ d.in = scan.in /\ d.index = scan.index
        /\ d.start = scan.start /\ d.startLine = scan.startLine /\ d.depth = scan.depth
    BY <2>6, ReadFurther
  <2>8. scan' = [d EXCEPT !.depth = @ + 1]
    BY <1>15, <2>1 DEF DiscardRunes
  <2> HIDE DEF d
  <2>9. /\ scan'.at = d.at /\ scan'.in = d.in /\ scan'.index = d.index
        /\ scan'.start = d.start /\ scan'.startLine = d.startLine /\ scan'.depth = d.depth + 1
    BY <2>7, <2>8 DEF Fields
  <2>10. p + 2 \in Nat /\ p <= p + 2 /\ scan'.at = file[i].at + (p + 2)
    <3> DEFINE z == file[i].at
    <3>1. z \in Nat /\ scan.at = z + p
      BY <1>4, <1>10
    <3> HIDE DEF z
    <3>2. scan.at \in Nat /\ scan'.at = scan.at + 2
      BY <1>4, <1>10, <2>7, <2>9
    <3>3. scan'.at = z + (p + 2)
      BY <3>1, <3>2
    <3>4. p + 2 \in Nat /\ p <= p + 2
      OBVIOUS
    <3> QED BY <3>3, <3>4 DEF z
  <2>11. scan'.depth = CountBelow(starts, p + 2) - CountBelow(ends, p + 2)
    BY <1>5, <2>5, <2>7, <2>9
  <2>12. Progress(scan', found)
    BY <1>1, <1>14, <2>4, <2>7, <2>9, <2>10, <2>11
  <2>13. Right(scan', found)
    BY <2>12, ProgressIsRight
  <2> QED BY <1>15, <2>13
<1>16. CASE /\ ~nests /\ fits /\ scan.depth = 0
            /\ Report(after, StartLine) /\ scan' = [after EXCEPT !.in = "code"]
  <2>1. p \in ends
    BY <1>9, <1>16
  <2>2. p = to
    <3> SUFFICES ASSUME p # to PROVE FALSE
      OBVIOUS
    <3>1. CountBelow(starts, p) > CountBelow(ends, p)
      BY <1>9, <2>1
    <3>2. p \in Int
      OBVIOUS
    <3> QED BY <1>5, <1>13, <1>16, <3>1, <3>2
  <2>3. Len(m.end) \in Nat /\ scan.at + Len(m.end) = EndOf(i) /\ scan.at + Len(m.end) <= Len(runes)
    <3> DEFINE z == file[i].at
               w == Len(runes)
               l == Len(x)
               v == Len(m.end)
    <3>1. /\ z \in Nat /\ w \in Nat /\ l \in Nat /\ v \in Nat /\ z + l <= w /\ scan.at = z + to
          /\ to + v = l /\ EndOf(i) = z + l
      BY <1>4, <1>7, <1>9, <1>10, <2>2
    <3> HIDE DEF z, w, l, v
    <3>2. scan.at + v = EndOf(i) /\ scan.at + v <= w
      BY <1>7, <3>1
    <3> QED BY <3>1, <3>2 DEF w, v
  <2> DEFINE d == Advance(scan, Len(m.end))
  <2>4. DOMAIN d = Fields /\ d.at = EndOf(i)
    BY <2>3, ReadFurther
  <2>5. after = d
    BY DEF DiscardRunes
  <2>6. d.bytes = BytesIn(0, EndOf(i))
    <3>1. OnPlace(d)
      BY <2>3, ScanPlace, AdvanceIs
    <3> QED BY <2>4, <3>1 DEF OnPlace
  <2>7. /\ found' = Append(found, [start |-> scan.start, end |-> d.bytes, line |-> scan.startLine])
        /\ scan' = [d EXCEPT !.in = "code"]
    BY <1>16, <2>5 DEF Report, StartLine
  <2> HIDE DEF d, after
  <2>8. scan'.in = "code" /\ scan'.at = EndOf(i)
    BY <2>4, <2>7 DEF Fields
  <2>9. CommentOf(file[i]) = [start |-> scan.start, end |-> d.bytes, line |-> scan.startLine]
    BY <1>5, <1>10, <2>6 DEF CommentOf, Begun, Text, x
  <2>10. Kind(i) # "code" /\ file[i].at + Longest <= Len(runes)
    BY <1>5 DEF Begun
  <2>11. Upto(found', i + 1)
    BY <1>3, <2>7, <2>9, <2>10, UptoComment
  <2> QED BY <1>3, <2>8, <2>11, AtNext, ProgressIsRight
<1>17. CASE /\ ~nests /\ fits /\ scan.depth > 0
            /\ scan' = NextRune([after EXCEPT !.depth = @ - 1]) /\ UNCHANGED found
  <2>1. p \in ends /\ p \in Int /\ p \notin starts
    BY <1>9, <1>17
  <2>2. p # to
    <3> SUFFICES ASSUME p = to PROVE FALSE
      OBVIOUS
    <3> QED BY <1>5, <1>9, <1>13, <1>17, <2>1
  <2>3. m.nested /\ Len(m.end) = 2
    <3>1. CountBelow(starts, p) > 0
      BY <1>5, <1>13, <1>17, <2>1
    <3>2. starts # {}
      <4>1. CountBelow({}, p) = 0
        BY FS_EmptySet DEF CountBelow
      <4> QED BY <3>1, <4>1
    <3> QED BY <1>11, <1>12, <3>2
  <2>4. x[p + 1] = "*" /\ x[p + 2] = ")"
    BY <1>12, <2>1, <2>3
  <2>5. p + 1 \notin ends /\ p + 1 \notin starts
    <3>1. p + 1 \in Nat /\ p + 1 + 1 = p + 2
      OBVIOUS
    <3>2. p + 1 \in starts => x[p + 1 + 1] = "("
      BY <1>12, <2>3, <3>1
    <3>3. p + 1 \in ends => x[p + 1 + 1] = "*"
      BY <1>12, <2>3, <3>1
    <3>4. x[p + 1 + 1] = ")"
      BY <2>4, <3>1
    <3> QED BY <3>2, <3>3, <3>4
  <2>6. p + 2 \notin starts /\ p + 2 \notin ends
    BY <1>9, <2>1, <2>2, <2>3
  <2>7. p + 3 <= to
    <3>1. p + 1 # to /\ p + 2 # to
      BY <1>9, <2>5, <2>6
    <3> QED BY <1>5, <1>7, <2>2, <3>1
  <2>8. /\ CountBelow(starts, p + 3) = CountBelow(starts, p)
        /\ CountBelow(ends, p + 3) = CountBelow(ends, p) + 1
        /\ CountBelow(starts, p) \in Nat /\ CountBelow(ends, p) \in Nat
    <3>1. p + 1 \in Int /\ p + 1 + 1 = p + 2 /\ p + 2 \in Int /\ p + 2 + 1 = p + 3
      OBVIOUS
    <3>2. CountBelow(starts, p + 1) = CountBelow(starts, p) /\ CountBelow(ends, p + 1) = CountBelow(ends, p) + 1
      BY <1>13, <2>1
    <3>3. /\ CountBelow(starts, p + 1 + 1) = CountBelow(starts, p + 1)
          /\ CountBelow(ends, p + 1 + 1) = CountBelow(ends, p + 1)
      BY <1>13, <2>5, <3>1
    <3>4. /\ CountBelow(starts, p + 2 + 1) = CountBelow(starts, p + 2)
          /\ CountBelow(ends, p + 2 + 1) = CountBelow(ends, p + 2)
      BY <1>13, <2>6, <3>1
    <3> QED BY <1>13, <2>1, <3>1, <3>2, <3>3, <3>4
  <2>9. 2 \in Nat /\ scan.at + 2 <= Len(runes) /\ scan.at + 3 <= Len(runes)
    <3> DEFINE z == file[i].at
               w == Len(runes)
               l == Len(x)
               v == Len(m.end)
    <3>1. /\ z \in Nat /\ w \in Nat /\ l \in Nat /\ v \in Nat /\ z + l <= w /\ scan.at = z + p
          /\ to + v = l
      BY <1>4, <1>7, <1>9, <1>10
    <3> HIDE DEF z, w, l, v
    <3>2. z + p + 2 <= w /\ z + p + 3 <= w
      BY <1>7, <2>7, <3>1
    <3> QED BY <3>1, <3>2 DEF w
  <2> DEFINE d == Advance(scan, 2)
             e == [d EXCEPT !.depth = @ - 1]
  <2>10. /\ DOMAIN d = Fields /\ d.at = scan.at + 2 /\ d.in = scan.in /\ d.index = scan.index
         /\ d.start = scan.start /\ d.startLine = scan.startLine /\ d.depth = scan.depth
    BY <2>9, ReadFurther
  <2>11. scan' = NextRune(e)
    BY <1>17, <2>3 DEF DiscardRunes
  <2> HIDE DEF d
  <2>12. /\ e.at = d.at /\ e.in = d.in /\ e.index = d.index /\ DOMAIN e = Fields
         /\ e.start = d.start /\ e.startLine = d.startLine /\ e.depth = d.depth - 1
    BY <2>10 DEF Fields
  <2> HIDE DEF e
  <2>13. scan' = Advance(e, 1)
    <3>1. e.at < Len(runes)
      BY <1>10, <2>9, <2>10, <2>12
    <3> QED BY <2>11, <3>1 DEF NextRune
  <2>14. /\ scan'.at = e.at + 1 /\ scan'.in = e.in /\ scan'.index = e.index
         /\ scan'.start = e.start /\ scan'.startLine = e.startLine /\ scan'.depth = e.depth
    BY <2>12, <2>13 DEF Advance, Fields
  <2>15. p + 3 \in Nat /\ p <= p + 3 /\ scan'.at = file[i].at + (p + 3)
    <3> DEFINE z == file[i].at
    <3>1. z \in Nat /\ scan.at = z + p
      BY <1>4, <1>10
    <3> HIDE DEF z
    <3>2. scan.at \in Nat /\ scan'.at = scan.at + 3
      BY <1>4, <1>10, <2>10, <2>12, <2>14
    <3>3. scan'.at = z + (p + 3)
      BY <3>1, <3>2
    <3>4. p + 3 \in Nat /\ p <= p + 3
      OBVIOUS
    <3> QED BY <3>3, <3>4 DEF z
  <2>16. scan'.depth = CountBelow(starts, p + 3) - CountBelow(ends, p + 3)
    BY <1>5, <2>8, <2>10, <2>12, <2>14
  <2>17. Progress(scan', found)
    BY <1>1, <1>14, <2>7, <2>10, <2>12, <2>14, <2>15, <2>16
  <2>18. Right(scan', found)
    BY <2>17, ProgressIsRight
  <2> QED BY <1>17, <2>18
<1>18. CASE ~nests /\ ~fits /\ scan' = NextRune(scan) /\ UNCHANGED found
  <2>1. p \notin starts /\ p \notin ends /\ p \in Int
    BY <1>9, <1>18
  <2>2. p + 1 <= to
    <3>1. p # to
      BY <1>9, <2>1
    <3> QED BY <1>5, <1>7, <3>1
  <2>3. /\ CountBelow(starts, p + 1) = CountBelow(starts, p)
        /\ CountBelow(ends, p + 1) = CountBelow(ends, p)
    BY <1>13, <2>1
  <2>4. 1 \in Nat /\ scan.at + 1 <= Len(runes) /\ scan.at < Len(runes)
    <3> DEFINE z == file[i].at
               w == Len(runes)
               l == Len(x)
               v == Len(m.end)
    <3>1. /\ z \in Nat /\ w \in Nat /\ l \in Nat /\ v \in Nat /\ z + l <= w /\ scan.at = z + p
          /\ to + v = l
      BY <1>4, <1>7, <1>9, <1>10
    <3> HIDE DEF z, w, l, v
    <3>2. z + p + 1 <= w /\ z + p < w
      BY <1>7, <2>2, <3>1
    <3> QED BY <3>1, <3>2 DEF w
  <2>5. scan' = Advance(scan, 1)
    BY <1>18, <2>4 DEF NextRune
  <2>6. /\ scan'.at = scan.at + 1 /\ scan'.in = scan.in /\ scan'.index = scan.index
        /\ scan'.start = scan.start /\ scan'.startLine = scan.startLine /\ scan'.depth = scan.depth
    BY <2>4, <2>5, ReadFurther
  <2>7. p + 1 \in Nat /\ p <= p + 1 /\ scan'.at = file[i].at + (p + 1)
    <3> DEFINE z == file[i].at
    <3>1. z \in Nat /\ scan.at = z + p
      BY <1>4, <1>10
    <3> HIDE DEF z
    <3>2. scan.at \in Nat /\ scan'.at = scan.at + 1
      BY <1>4, <1>10, <2>6
    <3>3. scan'.at = z + (p + 1)
      BY <3>1, <3>2
    <3>4. p + 1 \in Nat /\ p <= p + 1
      OBVIOUS
    <3> QED BY <3>3, <3>4 DEF z
  <2>8. scan'.depth = CountBelow(starts, p + 1) - CountBelow(ends, p + 1)
    BY <1>5, <2>3, <2>6
  <2>9. Progress(scan', found)
    BY <1>1, <1>14, <2>2, <2>6, <2>7, <2>8
  <2>10. Right(scan', found)
    BY <2>9, ProgressIsRight
  <2> QED BY <1>18, <2>10
<1> QED BY <1>2, <1>9, <1>15, <1>16, <1>17, <1>18

-----------------------------------------------------------------------------
(* Columns.                                                                *)

(* Columns speaks of where the scanner is, not of what it is in.           *)
LEMMA SamePlace ==
  ASSUME NEW s, Columns(s), NEW t, t.at = s.at, t.atFirstColumn = s.atFirstColumn,
         t.atLineStart = s.atLineStart
  PROVE  Columns(t)
BY DEF Columns

LEMMA StoppedColumns ==
  ASSUME ScanInv, Columns(scan)
  PROVE  Columns(Stopped)
<1>1. DOMAIN scan = Fields
  BY ScanPlace
<1>2. /\ Stopped.at = scan.at /\ Stopped.atFirstColumn = scan.atFirstColumn
      /\ Stopped.atLineStart = scan.atLineStart
  BY <1>1 DEF Stopped, Fields
<1> HIDE DEF Stopped
<1> QED BY <1>2, SamePlace

LEMMA CodeColumns ==
  ASSUME NEW s, DOMAIN s = Fields, Columns(s), NEW d
  PROVE  /\ Columns([s EXCEPT !.in = "code"])
         /\ Columns([s EXCEPT !.depth = d])
<1> DEFINE t == [s EXCEPT !.in = "code"]
           u == [s EXCEPT !.depth = d]
<1>1. t.at = s.at /\ t.atFirstColumn = s.atFirstColumn /\ t.atLineStart = s.atLineStart
  BY DEF Fields
<1>2. u.at = s.at /\ u.atFirstColumn = s.atFirstColumn /\ u.atLineStart = s.atLineStart
  BY DEF Fields
<1> HIDE DEF t, u
<1> QED BY <1>1, <1>2, SamePlace DEF t, u

LEMMA DiscardColumns ==
  ASSUME ScanInv, Columns(scan), NEW m, Marker(m), PeekEqual(m)
  PROVE  Columns(DiscardRunes(Len(m))) /\ DOMAIN DiscardRunes(Len(m)) = Fields
<1>1. Len(m) \in Nat /\ scan.at + Len(m) <= Len(runes)
  BY MarkerRead DEF Marker
<1>2. runes \in Seq(STRING) /\ OnPlace(scan)
  BY ScanPlace
<1>3. DOMAIN DiscardRunes(Len(m)) = Fields
  BY <1>1, <1>2, DiscardIs DEF OnPlace
<1> DEFINE n == Len(m)
<1> HIDE DEF n
<1>4. n \in Nat /\ scan.at + n <= Len(runes)
  BY <1>1 DEF n
<1>5. Columns(Advance(scan, n))
  BY <1>2, <1>4, AdvanceColumns
<1> QED BY <1>3, <1>5 DEF n, DiscardRunes

LEMMA EnterColumns ==
  ASSUME ScanInv, Columns(scan), NEW in, NEW index, NEW n \in Nat, scan.at + n <= Len(runes)
  PROVE  Columns(Enter(in, index, n))
<1>1. runes \in Seq(STRING) /\ OnPlace(scan)
  BY ScanPlace
<1> DEFINE d == Advance(scan, n)
           t == [d EXCEPT !.in = in, !.index = index, !.depth = 0,
                          !.start = scan.bytes, !.startLine = scan.line]
<1>2. Columns(d) /\ DOMAIN d = Fields
  BY <1>1, AdvanceColumns, AdvanceIs DEF OnPlace
<1>3. Enter(in, index, n) = t
  BY DEF Enter, DiscardRunes
<1> HIDE DEF d
<1>4. t.at = d.at /\ t.atFirstColumn = d.atFirstColumn /\ t.atLineStart = d.atLineStart
  BY <1>2 DEF Fields
<1> HIDE DEF t
<1> QED BY <1>2, <1>3, <1>4, SamePlace

LEMMA NextColumns ==
  ASSUME ScanInv, Columns(scan), NEW s, OnPlace(s), Columns(s)
  PROVE  Columns(NextRune(s))
<1>1. runes \in Seq(STRING)
  BY ScanPlace
<1>2. CASE s.at < Len(runes)
  <2>1. s.at \in Nat /\ Len(runes) \in Nat /\ s.at + 1 <= Len(runes) /\ 1 \in Nat
    BY <1>1, <1>2, CountsAre
  <2>2. NextRune(s) = Advance(s, 1)
    BY <1>2 DEF NextRune
  <2> QED BY <1>1, <2>1, <2>2, AdvanceColumns
<1>3. CASE ~(s.at < Len(runes))
  <2>1. NextRune(s) = Stopped
    BY <1>3 DEF NextRune
  <2> QED BY <2>1, StoppedColumns
<1> QED BY <1>2, <1>3

LEMMA InCodeColumns ==
  ASSUME ScanInv, Columns(scan), InCode
  PROVE  Columns(scan')
<1> DEFINE string == LengthOf(Config.strings, StringMatch)
           multi == LengthOf(Config.multi, MultilineMatch)
           line == LengthOf(Config.line, LineMatch)
           choice == Choice(line, multi, string)
<1>1. scan' = IF EOF \in {LineMatch, MultilineMatch, StringMatch} THEN Stopped
              ELSE CASE choice = "code" -> NextRune(scan)
                     [] choice = "multi" -> Enter("multi", MultilineMatch, multi)
                     [] choice = "line" -> Enter("line", LineMatch, 0)
                     [] choice \in {"lineOrString", "string"} ->
                           Enter(choice, StringMatch, string)
  BY DEF InCode
<1>2. scan.at \in Nat /\ Len(runes) \in Nat /\ scan.at <= Len(runes) /\ OnPlace(scan)
  BY ScanPlace
<1>3. /\ DOMAIN Config.line \subseteq 1 .. 2 /\ DOMAIN Config.multi \subseteq 1 .. 2
      /\ DOMAIN Config.strings \subseteq 1 .. 2
      /\ \A i \in DOMAIN Config.line : Marker(Config.line[i].start)
      /\ \A i \in DOMAIN Config.multi : Marker(Config.multi[i].start)
      /\ \A i \in DOMAIN Config.strings : Marker(Config.strings[i].start)
  BY ConfigGood DEF GoodConfig, OneLine
<1>4. line \in Nat
  BY <1>3, MatchIs DEF LineMatch
<1>5. multi \in Nat /\ scan.at + multi <= Len(runes)
  <2>1. /\ multi \in Nat
        /\ multi > 0 => MultilineMatch \in DOMAIN Config.multi
                          /\ PeekEqual(Config.multi[MultilineMatch].start)
                          /\ multi = Len(Config.multi[MultilineMatch].start)
    BY <1>3, MatchIs DEF MultilineMatch
  <2> HIDE DEF multi
  <2>2. multi > 0 => scan.at + multi <= Len(runes)
    BY <1>3, <2>1, MarkerRead
  <2> QED BY <1>2, <2>1, <2>2
<1>6. string \in Nat /\ scan.at + string <= Len(runes)
  <2>1. /\ string \in Nat
        /\ string > 0 => StringMatch \in DOMAIN Config.strings
                          /\ PeekEqual(Config.strings[StringMatch].start)
                          /\ string = Len(Config.strings[StringMatch].start)
    BY <1>3, MatchIs DEF StringMatch
  <2> HIDE DEF string
  <2>2. string > 0 => scan.at + string <= Len(runes)
    BY <1>3, <2>1, MarkerRead
  <2> QED BY <1>2, <2>1, <2>2
<1> HIDE DEF line, multi, string
<1>7. choice \in {"code", "multi", "line", "lineOrString", "string"}
  BY <1>4, <1>5, <1>6, ChoiceIs
<1> HIDE DEF choice
<1>8. Columns(Stopped) /\ Columns(NextRune(scan))
  BY <1>2, StoppedColumns, NextColumns
<1>9. Columns(Enter("multi", MultilineMatch, multi)) /\ Columns(Enter(choice, StringMatch, string))
  BY <1>5, <1>6, EnterColumns
<1>10. Columns(Enter("line", LineMatch, 0))
  <2>1. 0 \in Nat /\ scan.at + 0 <= Len(runes)
    BY <1>2
  <2> QED BY <2>1, EnterColumns
<1> QED BY <1>1, <1>7, <1>8, <1>9, <1>10

LEMMA StringColumns ==
  ASSUME ScanInv, Columns(scan), scan.index \in DOMAIN Config.strings
  PROVE  Columns(StringStep(Config.strings[scan.index]))
<1> DEFINE m == Config.strings[scan.index]
           e == EscapedEnd(m)
<1>1. OneLine(m.end) /\ OneLine(<<"bs">> \o m.end) /\ OneLine(m.end \o m.end)
      /\ m.escape \in {"char", "double"}
  BY ConfigGood DEF GoodConfig
<1>2. Marker(m.end)
  BY <1>1 DEF OneLine
<1>3. e # <<>> => Marker(e) /\ PeekEqual(e)
  <2> DEFINE text == CASE m.escape = "char" -> <<"bs">> \o m.end
                       [] m.escape = "double" -> m.end \o m.end
  <2>1. e = IF PeekEqual(text) THEN text ELSE <<>>
    BY DEF EscapedEnd
  <2>2. OneLine(text)
    BY <1>1
  <2> HIDE DEF text, e
  <2> QED BY <2>1, <2>2 DEF OneLine
<1>4. StringStep(m) = IF e # <<>> THEN DiscardRunes(Len(e))
                      ELSE IF AtEnd(m.end) THEN Stopped
                      ELSE IF PeekEqual(m.end) THEN [DiscardRunes(Len(m.end)) EXCEPT !.in = "code"]
                      ELSE NextRune(scan)
  BY DEF StringStep
<1> HIDE DEF m, e
<1>5. e # <<>> => Columns(DiscardRunes(Len(e)))
  BY <1>3, DiscardColumns
<1>6. PeekEqual(m.end) => Columns([DiscardRunes(Len(m.end)) EXCEPT !.in = "code"])
  BY <1>2, DiscardColumns, CodeColumns
<1>7. Columns(Stopped) /\ Columns(NextRune(scan))
  BY ScanPlace, StoppedColumns, NextColumns
<1> QED BY <1>4, <1>5, <1>6, <1>7 DEF m

LEMMA InMultilineCommentColumns ==
  ASSUME ScanInv, Columns(scan), InMultilineComment
  PROVE  Columns(scan')
<1> DEFINE m == Config.multi[scan.index]
           after == DiscardRunes(Len(m.end))
           e == [after EXCEPT !.depth = @ - 1]
<1>1. scan.in = "multi"
  BY DEF InMultilineComment
<1>2. \/ PeekEqual(m.start) /\ scan' = [DiscardRunes(Len(m.start)) EXCEPT !.depth = @ + 1]
      \/ scan' = Stopped
      \/ PeekEqual(m.end) /\ scan' = [after EXCEPT !.in = "code"]
      \/ PeekEqual(m.end) /\ scan' = NextRune(e)
      \/ scan' = NextRune(scan)
  BY DEF InMultilineComment
<1>3. Marker(m.start) /\ Marker(m.end)
  BY <1>1, ConfigGood DEF GoodConfig, ScanInv, StartInv
<1> HIDE DEF m
<1>4. PeekEqual(m.start) => Columns([DiscardRunes(Len(m.start)) EXCEPT !.depth = @ + 1])
  BY <1>3, DiscardColumns, CodeColumns
<1>5. PeekEqual(m.end) => Columns([after EXCEPT !.in = "code"])
  BY <1>3, DiscardColumns, CodeColumns
<1>6. ASSUME PeekEqual(m.end) PROVE Columns(NextRune(e))
  <2>1. OnPlace(after) /\ DOMAIN after = Fields /\ Columns(after)
    BY <1>3, <1>6, DiscardIs, DiscardColumns
  <2> HIDE DEF after
  <2>2. DOMAIN e = Fields /\ e.at = after.at /\ e.bytes = after.bytes /\ e.line = after.line
    BY <2>1 DEF Fields
  <2>3. Columns(e)
    BY <2>1, CodeColumns
  <2> HIDE DEF e
  <2>4. OnPlace(e)
    BY <2>1, <2>2 DEF OnPlace
  <2> QED BY <2>3, <2>4, NextColumns
<1>7. Columns(Stopped) /\ Columns(NextRune(scan))
  BY ScanPlace, StoppedColumns, NextColumns
<1> HIDE DEF after, e
<1> QED BY <1>2, <1>4, <1>5, <1>6, <1>7

LEMMA ColumnsKept ==
  ASSUME ScanInv, Columns(scan),
         Begin \/ InCode \/ InString \/ InLineComment \/ InLineCommentOrString \/ InMultilineComment
  PROVE  Columns(scan')
<1>1. DOMAIN scan = Fields
  BY ScanPlace
<1>2. CASE Begin
  BY <1>1, <1>2, CodeColumns DEF Begin
<1>3. CASE InString
  BY <1>3, StringColumns DEF InString, ScanInv, StartInv
<1>4. CASE InLineComment
  BY <1>1, <1>4, ScanPlace, CodeColumns, NextColumns DEF InLineComment, LineCommentEnds
<1>5. CASE InLineCommentOrString
  <2>1. scan.index \in DOMAIN Config.strings
    BY <1>5 DEF InLineCommentOrString, ScanInv, StartInv
  <2> QED BY <1>1, <1>5, <2>1, CodeColumns, StringColumns DEF InLineCommentOrString, LineCommentEnds
<1> QED BY <1>2, <1>3, <1>4, <1>5, InCodeColumns, InMultilineCommentColumns

-----------------------------------------------------------------------------
(* What is typed.                                                          *)

(* Text that is typed at the end changes nothing before it.                *)
LEMMA IndentedStays ==
  ASSUME NEW n \in Nat, \A i \in 1 .. n : runes'[i] = runes[i]
  PROVE  Indented(n)' = Indented(n)
<1>1. {k \in 1 .. n : runes'[k] = "nl"} = {k \in 1 .. n : runes[k] = "nl"}
  OBVIOUS
<1>2. \A i \in {0} \cup {k \in 1 .. n : runes[k] = "nl"} :
        \A j \in i + 1 .. n : runes'[j] = runes[j]
  <2> SUFFICES ASSUME NEW i \in {0} \cup {k \in 1 .. n : runes[k] = "nl"}, NEW j \in i + 1 .. n
               PROVE  runes'[j] = runes[j]
    OBVIOUS
  <2>1. i \in Nat
    OBVIOUS
  <2>2. j \in 1 .. n
    BY <2>1
  <2> QED BY <2>2
<1> DEFINE places == {0} \cup {k \in 1 .. n : runes[k] = "nl"}
<1>3. Indented(n) = (\E i \in places : \A j \in i + 1 .. n : runes[j] \in Blanks)
  BY DEF Indented
<1>4. Indented(n)' = (\E i \in places : \A j \in i + 1 .. n : runes'[j] \in Blanks)
  BY <1>1 DEF Indented, Blanks
<1>5. \A i \in places : \A j \in i + 1 .. n : runes'[j] = runes[j]
  BY <1>2
<1> HIDE DEF places
<1>6. (\E i \in places : \A j \in i + 1 .. n : runes[j] \in Blanks)
        <=> (\E i \in places : \A j \in i + 1 .. n : runes'[j] \in Blanks)
  BY <1>5
<1> QED BY <1>3, <1>4, <1>6

LEMMA TypePieceFile ==
  ASSUME ScanInv, FileInv, Columns(scan), NEW piece \in Pieces[lang], TypePiece(piece)
  PROVE  FileInv' /\ Columns(scan)'
<1>1. PICK l : l = Len(runes)
  OBVIOUS
<1>2. PICK last : last = Len(file) + 1
  OBVIOUS
<1> DEFINE text == piece.text
           new == [piece |-> piece, at |-> l]
           Placed == [piece : Pieces[lang], at : Nat]
<1>3. /\ file' = Append(file, new) /\ runes' = runes \o text
      /\ lang' = lang /\ scan' = scan /\ found' = found
      /\ scan.in = "typing"
  BY <1>1 DEF TypePiece
<1>4. text \in Seq(STRING) /\ text # <<>>
  BY PiecesAssumption DEF ScanInv
<1>5. runes \in Seq(STRING) /\ l \in Nat
  BY <1>1, ScanPlace
<1>6. file \in Seq(Placed) /\ new \in Placed
  BY <1>5 DEF FileInv
<1>7. /\ Len(file) \in Nat /\ DOMAIN file = 1 .. Len(file) /\ last \in Nat /\ last # 0
      /\ last \notin DOMAIN file /\ last - 1 = Len(file)
  BY <1>6, <1>2
<1>8. /\ file' \in Seq(Placed) /\ Len(file') = last /\ DOMAIN file' = 1 .. last
      /\ file'[last] = new /\ \A k \in DOMAIN file : file'[k] = file[k]
  <2> HIDE DEF Placed, new
  <2> QED BY <1>3, <1>6, <1>7, <1>2
<1>9. /\ Len(text) \in Nat \ {0} /\ Len(runes') = l + Len(text)
      /\ \A i \in 1 .. l : runes'[i] = runes[i]
      /\ \A n \in 1 .. Len(text) : runes'[l + n] = text[n]
  <2> HIDE DEF text
  <2> QED BY <1>3, <1>4, <1>5, <1>1
<1>10. /\ new.piece = piece /\ new.at = l
  OBVIOUS
<1> HIDE DEF new
<1>11. \A k \in DOMAIN file : Text(k)' = Text(k) /\ Kind(k)' = Kind(k)
  BY <1>8 DEF Text, Kind
<1>12. \A k \in 0 .. Len(file) : EndOf(k)' = EndOf(k)
  <2> SUFFICES ASSUME NEW k \in 0 .. Len(file) PROVE EndOf(k)' = EndOf(k)
    OBVIOUS
  <2>1. CASE k = 0
    BY <2>1 DEF EndOf
  <2>2. CASE k \in DOMAIN file
    <3>1. Text(k)' = Text(k) /\ file'[k] = file[k]
      BY <1>8, <1>11, <2>2
    <3> QED BY <3>1 DEF EndOf
  <2> QED BY <1>7, <2>1, <2>2
<1>13. Text(last)' = text /\ Kind(last)' = piece.kind /\ EndOf(last)' = l + Len(text)
  <2>1. Text(last)' = text /\ Kind(last)' = piece.kind
    BY <1>8, <1>10 DEF Text, Kind
  <2>2. EndOf(last)' = file'[last].at + Len(Text(last)')
    BY <1>7 DEF EndOf
  <2> QED BY <1>8, <1>10, <2>1, <2>2
<1>14. /\ EndOf(Len(file)) = l
       /\ \A k \in DOMAIN file :
            /\ file[k].at \in Nat /\ EndOf(k) \in Nat /\ EndOf(k) <= l
            /\ Len(Text(k)) \in Nat /\ EndOf(k) = file[k].at + Len(Text(k))
            /\ \A n \in 1 .. Len(Text(k)) : runes[file[k].at + n] = Text(k)[n]
            /\ file[k].at = EndOf(k - 1)
            /\ Stands(k)
  <2>1. lang \in DOMAIN Pieces
    BY DEF ScanInv
  <2> QED BY <1>1, <2>1, FileIs DEF FileInv
<1>15. \A j, k \in DOMAIN file : j < k => EndOf(j) <= file[k].at
  BY DEF FileInv
<1>16. \A j, k \in DOMAIN file' : j < k => EndOf(j)' <= file'[k].at
  <2> SUFFICES ASSUME NEW j \in DOMAIN file', NEW k \in DOMAIN file', j < k
               PROVE  EndOf(j)' <= file'[k].at
    OBVIOUS
  <2>1. j \in DOMAIN file /\ EndOf(j)' = EndOf(j)
    BY <1>7, <1>8, <1>12
  <2>2. CASE k \in DOMAIN file
    BY <1>8, <1>15, <2>1, <2>2
  <2>3. CASE k = last
    BY <1>8, <1>10, <1>14, <2>1, <2>3
  <2> QED BY <1>7, <1>8, <2>2, <2>3
<1>17. ASSUME NEW k \in DOMAIN file
       PROVE  Stands(k)'
  <2>1. /\ Kind(k)' = Kind(k) /\ Text(k)' = Text(k) /\ file'[k].at = file[k].at
        /\ Config' = Config
    BY <1>3, <1>8, <1>11 DEF Config
  <2>2. k > 1 => Kind(k - 1)' = Kind(k - 1)
    BY <1>7, <1>11
  <2>3. file[k].at \in Nat /\ file[k].at <= l
    BY <1>14
  <2> DEFINE z == file[k].at
  <2>4. z # 0 => runes'[z] = runes[z]
    BY <1>9, <2>3
  <2>5. Indented(z)' = Indented(z)
    <3>1. z \in Nat /\ \A i \in 1 .. z : runes'[i] = runes[i]
      BY <1>5, <1>9, <2>3
    <3>2. z' = z
      BY <2>1
    <3> HIDE DEF z
    <3> QED BY <3>1, <3>2, IndentedStays
  <2>6. EndsLine(Text(k))' = EndsLine(Text(k))
    BY <2>1 DEF EndsLine, Reads
  <2>7. Stands(k)
    BY <1>14
  <2>8. z' = z
    BY <2>1
  <2> QED BY <2>1, <2>2, <2>4, <2>5, <2>6, <2>7, <2>8 DEF Stands
<1>18. Stands(last)'
  <2>1. Kind(last)' = piece.kind /\ Text(last)' = text /\ file'[last].at = l /\ Config' = Config
    BY <1>3, <1>8, <1>10, <1>13 DEF Config
  <2>2. piece.kind = "column" => l = 0 \/ runes'[l] = "nl"
    <3>1. runes = <<>> \/ Last(runes) = runes[l]
      BY <1>1 DEF Last
    <3>2. l # 0 => runes # <<>> /\ runes'[l] = runes[l]
      BY <1>5, <1>9, <1>1
    <3>3. piece.kind = "column" /\ runes # <<>> => Last(runes) = "nl"
      BY DEF TypePiece
    <3> QED BY <3>1, <3>2, <3>3
  <2>3. piece.kind = "line" /\ (\E m \in ToSet(Config.line) : m.atLineStart) => Indented(l)'
    <3>1. piece.kind = "line" /\ (\E m \in ToSet(Config.line) : m.atLineStart) => Indented(l)
      BY <1>1 DEF TypePiece
    <3>2. Indented(l)' = Indented(l)
      BY <1>5, <1>9, IndentedStays
    <3> QED BY <3>1, <3>2
  <2>4. last > 1 /\ Kind(last - 1)' = "line" => EndsLine(text)
    <3> SUFFICES ASSUME last > 1, Kind(last - 1)' = "line" PROVE EndsLine(text)
      OBVIOUS
    <3>1. Len(file) \in DOMAIN file /\ Last(file) = file[Len(file)] /\ file # <<>>
      BY <1>7 DEF Last
    <3>2. Last(file).piece.kind = "line"
      BY <1>7, <1>11, <3>1 DEF Kind
    <3> QED BY <3>1, <3>2 DEF TypePiece
  <2>5. EndsLine(text)' = EndsLine(text)
    BY DEF EndsLine, Reads
  <2> HIDE DEF text
  <2>6. last > 1 /\ Kind(last - 1)' = "line" => EndsLine(Text(last))'
    BY <2>1, <2>4, <2>5 DEF EndsLine, Reads
  <2> QED BY <2>1, <2>2, <2>3, <2>6 DEF Stands
<1>19. FileInv'
  <2>1. file' \in Seq([piece : Pieces[lang'], at : Nat])
    BY <1>3, <1>8
  <2>2. Len(runes') = EndOf(last)'
    BY <1>9, <1>13
  <2>3. ASSUME NEW k \in DOMAIN file'
        PROVE  /\ file'[k].at = EndOf(k - 1)' /\ EndOf(k)' <= Len(runes')
               /\ \A n \in 1 .. Len(Text(k)') : runes'[file'[k].at + n] = Text(k)'[n]
               /\ Stands(k)'
    <3>1. CASE k \in DOMAIN file
      <4>1. k - 1 \in 0 .. Len(file) /\ k \in 0 .. Len(file)
        BY <1>7, <3>1
      <4>2. file'[k].at = EndOf(k - 1)' /\ EndOf(k)' <= Len(runes')
        <5>1. EndOf(k) <= l /\ EndOf(k) \in Nat /\ EndOf(k)' = EndOf(k)
          BY <1>12, <1>14, <3>1, <4>1
        <5>2. file'[k].at = EndOf(k - 1)'
          BY <1>8, <1>12, <1>14, <3>1, <4>1
        <5>3. l <= Len(runes') /\ Len(runes') \in Nat
          BY <1>5, <1>9
        <5>4. EndOf(k)' <= Len(runes')
          BY <1>5, <5>1, <5>3
        <5> QED BY <5>2, <5>4
      <4>3. ASSUME NEW n \in 1 .. Len(Text(k)) PROVE runes'[file[k].at + n] = Text(k)[n]
        <5> DEFINE z == file[k].at
                   w == Len(Text(k))
        <5>1. z \in Nat /\ w \in Nat /\ z + w <= l /\ n \in 1 .. w
          BY <1>14, <3>1
        <5> HIDE DEF z, w
        <5>2. z + n \in 1 .. l
          BY <1>5, <5>1
        <5>3. runes'[z + n] = runes[z + n]
          BY <1>9, <5>2
        <5> QED BY <1>14, <3>1, <5>3 DEF z
      <4> QED BY <1>8, <1>11, <1>17, <3>1, <4>2, <4>3
    <3>2. CASE k = last
      <4>1. file'[k].at = EndOf(k - 1)' /\ EndOf(k)' <= Len(runes')
        <5>1. Len(file) \in 0 .. Len(file) /\ k - 1 \in 0 .. Len(file) /\ k - 1 = Len(file)
          BY <1>7, <3>2
        <5>2. EndOf(k - 1)' = EndOf(k - 1)
          BY <1>12, <5>1
        <5>3. EndOf(k - 1)' = l
          BY <1>14, <5>1, <5>2
        <5> QED BY <1>5, <1>8, <1>9, <1>10, <1>13, <3>2, <5>3
      <4>2. \A n \in 1 .. Len(Text(k)') : runes'[file'[k].at + n] = Text(k)'[n]
        <5> HIDE DEF text
        <5> QED BY <1>8, <1>9, <1>10, <1>13, <3>2
      <4> QED BY <1>18, <3>2, <4>1, <4>2
    <3> QED BY <1>7, <1>8, <3>1, <3>2
  <2>4. Len(runes') = EndOf(Len(file))'
    BY <1>8, <2>2 DEF EndOf, Text
  <2> QED BY <1>16, <2>1, <2>3, <2>4 DEF FileInv
<1>20. Columns(scan)'
  <2>1. scan.at = 0
    BY <1>3 DEF ScanInv
  <2>2. Indented(0) /\ Indented(0)'
    <3>1. \A j : j \notin 0 + 1 .. 0
      OBVIOUS
    <3> QED BY <3>1 DEF Indented
  <2>3. scan.atFirstColumn = TRUE /\ scan.atLineStart = TRUE
    <3>1. Indented(scan.at) = TRUE
      <4>1. Indented(0) \in BOOLEAN
        BY DEF Indented
      <4> QED BY <2>1, <2>2, <4>1
    <3> QED BY <2>1, <3>1 DEF Columns
  <2>4. scan'.at = 0 /\ scan'.atFirstColumn = TRUE /\ scan'.atLineStart = TRUE
    BY <1>3, <2>1, <2>3
  <2>5. Indented(scan.at)' = TRUE
    <3>1. Indented(0)' \in BOOLEAN
      BY DEF Indented
    <3> QED BY <1>3, <2>1, <2>2, <3>1 DEF Indented
  <2> QED BY <2>4, <2>5 DEF Columns
<1> QED BY <1>19, <1>20

-----------------------------------------------------------------------------
(* Every step.                                                             *)

(* What the scanner does leaves the file as it is.                         *)
LEMMA FileStays ==
  ASSUME FileInv, UNCHANGED <<lang, file, runes>>
  PROVE  FileInv' /\ (AllLegible' <=> AllLegible)
<1>1. lang' = lang /\ file' = file /\ runes' = runes
  OBVIOUS
<1>2. \A k : Text(k)' = Text(k) /\ Kind(k)' = Kind(k) /\ EndOf(k)' = EndOf(k)
  BY <1>1 DEF Text, Kind, EndOf
<1>3. \A k : Stands(k)' <=> Stands(k)
  <2>1. \A n : Indented(n)' <=> Indented(n)
    BY <1>1 DEF Indented
  <2> SUFFICES ASSUME NEW k PROVE Stands(k)' <=> Stands(k)
    OBVIOUS
  <2>2. Indented(file[k].at)' <=> Indented(file[k].at)
    BY <1>1 DEF Indented
  <2>3. EndsLine(Text(k))' <=> EndsLine(Text(k))
    BY <1>2 DEF EndsLine, Reads
  <2>4. Config' = Config /\ file'[k].at = file[k].at /\ Kind(k)' = Kind(k) /\ Kind(k - 1)' = Kind(k - 1)
    BY <1>1, <1>2 DEF Config
  <2> QED BY <1>1, <2>2, <2>3, <2>4 DEF Stands
<1>4. FileInv'
  <2>1. EndOf(Len(file))' = EndOf(Len(file))
    BY <1>1 DEF EndOf, Text
  <2> QED BY <1>1, <1>2, <1>3, <2>1 DEF FileInv
<1> QED BY <1>1, <1>4 DEF AllLegible

LEMMA RightStays ==
  ASSUME UNCHANGED <<lang, file, runes>>, NEW s, NEW f
  PROVE  Right(s, f)' <=> Right(s, f)
<1>1. lang' = lang /\ file' = file /\ runes' = runes
  OBVIOUS
<1>2. \A k : Text(k)' = Text(k) /\ Kind(k)' = Kind(k)
  BY <1>1 DEF Text, Kind
<1>3. Config' = Config
  BY <1>1 DEF Config
<1>4. Longest' = Longest
  BY <1>3 DEF Longest
<1>5. \A a, b : BytesIn(a, b)' = BytesIn(a, b) /\ NewlinesIn(a, b)' = NewlinesIn(a, b)
  BY <1>1 DEF BytesIn, NewlinesIn
<1>6. \A t : CommentOf(t)' = CommentOf(t)
  BY <1>5 DEF CommentOf
<1>7. Expected' = Expected
  BY <1>1, <1>4, <1>6 DEF Expected
<1>8. \A i : Upto(f, i)' <=> Upto(f, i)
  <2>1. \A k : CommentOf(file[k])' = CommentOf(file[k])
    BY <1>1, <1>5 DEF CommentOf
  <2> QED BY <1>1, <1>2, <1>4, <2>1 DEF Upto
<1>9. \A i : CodeAt(s, i)' <=> CodeAt(s, i)
  BY <1>1, <1>2, <1>3 DEF CodeAt
<1>10. \A i : Begun(s, i)' <=> Begun(s, i)
  <2>1. \A i : /\ BytesIn(0, file[i].at)' = BytesIn(0, file[i].at)
               /\ NewlinesIn(0, file[i].at)' = NewlinesIn(0, file[i].at)
    BY <1>1 DEF BytesIn, NewlinesIn
  <2> QED BY <1>1, <1>4, <2>1 DEF Begun
<1>11. \A i, p : InStringAt(s, i, p)' <=> InStringAt(s, i, p)
  BY <1>2, <1>3 DEF InStringAt
<1>12. \A i, p : InLineAt(s, i, p)' <=> InLineAt(s, i, p)
  BY <1>2, <1>3, <1>10 DEF InLineAt
<1>13. \A i, p : InMultiAt(s, i, p)' <=> InMultiAt(s, i, p)
  BY <1>2, <1>3, <1>10 DEF InMultiAt
<1>14. \A i, p : InPiece(s, i, p)' <=> InPiece(s, i, p)
  BY <1>1, <1>11, <1>12, <1>13 DEF InPiece
<1>15. Progress(s, f)' <=> Progress(s, f)
  BY <1>1, <1>8, <1>9, <1>14 DEF Progress
<1> QED BY <1>7, <1>15 DEF Right

(* Before the scanner reads anything.                                      *)
LEMMA BeginRight ==
  ASSUME ScanInv, FileInv, Begin
  PROVE  Right(scan', found)
<1>1. DOMAIN scan = Fields /\ Len(runes) \in Nat
  BY ScanPlace
<1>2. scan.at = 0 /\ found = <<>>
  BY DEF Begin, ScanInv
<1>3. scan'.in = "code" /\ scan'.at = 0
  BY <1>1, <1>2 DEF Begin, Fields
<1>4. Len(file) \in Nat /\ DOMAIN file = 1 .. Len(file)
  BY FileIs DEF ScanInv
<1>5. Upto(found, 1)
  <2>1. \A k \in DOMAIN file : ~(k < 1)
    BY <1>4
  <2>2. ToSet(found) = {}
    BY <1>2 DEF ToSet
  <2> QED BY <2>1, <2>2 DEF Upto
<1>6. CodeAt(scan', 1)
  <2>1. CASE Len(file) = 0
    <3>1. Len(runes) = EndOf(0)
      BY <2>1 DEF FileInv
    <3>2. EndOf(0) = 0
      BY DEF EndOf
    <3> QED BY <1>3, <2>1, <3>1, <3>2 DEF CodeAt
  <2>2. CASE Len(file) # 0
    <3>1. 1 \in DOMAIN file /\ 1 - 1 = 0
      BY <1>4, <2>2
    <3>2. file[1].at = EndOf(1 - 1)
      BY <3>1 DEF FileInv
    <3>3. EndOf(1 - 1) = 0
      BY <3>1 DEF EndOf
    <3> QED BY <1>3, <3>1, <3>2, <3>3 DEF CodeAt
  <2> QED BY <2>1, <2>2
<1>7. 1 \in 1 .. Len(file) + 1
  BY <1>4
<1>8. Progress(scan', found)
  BY <1>3, <1>5, <1>6, <1>7 DEF Progress
<1> QED BY <1>8, ProgressIsRight

LEMMA ScannerInitExact == ScannerInit => ExactInv
<1> SUFFICES ASSUME ScannerInit PROVE ExactInv
  OBVIOUS
<1>1. file = <<>> /\ runes = <<>> /\ scan.in = "typing" /\ scan.at = 0
      /\ scan.atFirstColumn = TRUE /\ scan.atLineStart = TRUE
  BY DEF ScannerInit
<1>2. Len(file) = 0 /\ Len(runes) = 0 /\ DOMAIN file = {} /\ file \in Seq([piece : Pieces[lang], at : Nat])
  BY <1>1
<1>3. FileInv
  <2>1. EndOf(0) = 0
    BY DEF EndOf
  <2> QED BY <1>2, <2>1 DEF FileInv
<1>4. Columns(scan)
  <2>1. Indented(0)
    <3>1. \A j : j \notin 0 + 1 .. 0
      OBVIOUS
    <3> QED BY <3>1 DEF Indented
  <2>2. Indented(0) \in BOOLEAN
    BY DEF Indented
  <2> QED BY <1>1, <2>1, <2>2 DEF Columns
<1>5. Right(scan, found)
  BY <1>1 DEF Right
<1> QED BY <1>3, <1>4, <1>5 DEF ExactInv

LEMMA ScannerNextExact == ScanInv /\ ExactInv /\ [ScannerNext]_scanVars => ExactInv'
<1> SUFFICES ASSUME ScanInv, ExactInv, [ScannerNext]_scanVars PROVE ExactInv'
  OBVIOUS
<1>1. FileInv /\ Columns(scan) /\ (AllLegible => Right(scan, found))
  BY DEF ExactInv
<1>2. ASSUME NEW piece \in Pieces[lang], TypePiece(piece) PROVE ExactInv'
  <2>1. FileInv' /\ Columns(scan)'
    BY <1>1, <1>2, TypePieceFile
  <2>2. scan'.in = "typing"
    BY <1>2 DEF TypePiece
  <2>3. Right(scan, found)'
    BY <2>2 DEF Right
  <2> QED BY <2>1, <2>3 DEF ExactInv
<1>3. ASSUME UNCHANGED <<lang, file, runes>>, Columns(scan'), AllLegible => Right(scan', found')
      PROVE  ExactInv'
  <2>1. FileInv' /\ (AllLegible' <=> AllLegible)
    BY <1>1, <1>3, FileStays
  <2>2. Columns(scan)'
    BY <1>3 DEF Columns, Indented
  <2>3. PICK s, f : s = scan' /\ f = found'
    OBVIOUS
  <2>4. Right(scan, found)' <=> Right(s, f)'
    BY <2>3
  <2>5. Right(s, f) <=> Right(scan', found')
    BY <2>3
  <2>6. Right(s, f)' <=> Right(s, f)
    BY <1>3, RightStays
  <2> QED BY <1>3, <2>1, <2>2, <2>4, <2>5, <2>6 DEF ExactInv
<1>4. CASE UNCHANGED scanVars
  <2>1. UNCHANGED <<lang, file, runes>> /\ scan' = scan /\ found' = found
    BY <1>4 DEF scanVars
  <2> QED BY <1>1, <1>3, <2>1
<1>5. CASE Begin \/ InCode \/ InString \/ InLineComment \/ InLineCommentOrString \/ InMultilineComment
  <2>1. UNCHANGED <<lang, file, runes>>
    BY <1>5 DEF Begin, InCode, InString, InLineComment, InLineCommentOrString, InMultilineComment
  <2>2. Columns(scan')
    BY <1>1, <1>5, ColumnsKept
  <2>3. ASSUME AllLegible, scan.in # "typing", scan.in # "end" PROVE Progress(scan, found)
    BY <1>1, <2>3 DEF Right
  <2>4. ASSUME AllLegible PROVE Right(scan', found')
    <3>1. CASE Begin
      <4>1. found' = found
        BY <3>1 DEF Begin
      <4> QED BY <1>1, <3>1, <4>1, BeginRight
    <3>2. CASE InCode
      <4>1. found' = found /\ scan.in = "code"
        BY <3>2 DEF InCode
      <4> QED BY <1>1, <2>3, <2>4, <3>2, <4>1, InCodeRight
    <3>3. CASE InString
      <4>1. found' = found /\ scan.in = "string"
        BY <3>3 DEF InString
      <4> QED BY <1>1, <2>3, <2>4, <3>3, <4>1, InStringRight
    <3>4. CASE InLineComment
      <4>1. scan.in = "line"
        BY <3>4 DEF InLineComment
      <4> QED BY <1>1, <2>3, <2>4, <3>4, <4>1, InLineCommentRight
    <3>5. CASE InLineCommentOrString
      <4>1. scan.in = "lineOrString"
        BY <3>5 DEF InLineCommentOrString
      <4> QED BY <1>1, <2>3, <2>4, <3>5, <4>1, InLineCommentOrStringRight
    <3>6. CASE InMultilineComment
      <4>1. scan.in = "multi"
        BY <3>6 DEF InMultilineComment
      <4> QED BY <1>1, <2>3, <2>4, <3>6, <4>1, InMultilineCommentRight
    <3> QED BY <1>5, <3>1, <3>2, <3>3, <3>4, <3>5, <3>6
  <2> QED BY <1>3, <2>1, <2>2, <2>4
<1> QED BY <1>2, <1>4, <1>5 DEF ScannerNext

(* Where every piece is what its language makes of it, the scanner finds   *)
(* the comments and nothing else, each with its bytes and its line: Scan   *)
(* of scanner.go for the languages of LanguagesConfig, whatever the        *)
(* pieces are and however many.                                            *)
THEOREM ScanFindsAll == ScannerSpec => []ScanExact
<1>1. ExactInv => ScanExact
  <2> SUFFICES ASSUME ExactInv, scan.in = "end", AllLegible PROVE ToSet(found) = Expected
    BY DEF ScanExact, AllLegible
  <2>1. Right(scan, found)
    BY DEF ExactInv
  <2> QED BY <2>1 DEF Right
<1>2. ScannerInit => ScanInv /\ ExactInv
  BY ScannerInitInv, ScannerInitExact
<1>3. ScanInv /\ ExactInv /\ [ScannerNext]_scanVars => ScanInv' /\ ExactInv'
  BY ScannerNextInv, ScannerNextExact
<1> QED BY <1>1, <1>2, <1>3, PTL DEF ScannerSpec
=============================================================================
