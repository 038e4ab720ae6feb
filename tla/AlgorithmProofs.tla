--------------------------- MODULE AlgorithmProofs ---------------------------
(***************************************************************************)
(* Deleting comments from source files of any length, and anchors through  *)
(* git histories of any length.                                            *)
(***************************************************************************)
EXTENDS LineTrace, SourceEdit, FiniteSetTheorems, TLAPS

Alphabet == {"c", " ", "nl", "x"}

SourceTypeOK ==
    /\ bytes \in Seq(Alphabet)
    /\ scanned \in Seq([start : Nat, end : Nat, line : Nat, token : Comments])
    /\ typed \in Nat

(* A comment has bytes, its first and last are no newline, nothing in it   *)
(* is code, and its line is where it starts.  A comment ends before the    *)
(* next begins.                                                            *)
PlacesInv ==
    /\ \A k \in DOMAIN scanned :
        /\ scanned[k].start < scanned[k].end /\ scanned[k].end <= Len(bytes)
        /\ bytes[scanned[k].start + 1] = "x" /\ bytes[scanned[k].end] = "x"
        /\ \A i \in scanned[k].start + 1 .. scanned[k].end : bytes[i] \in {"x", "nl"}
        /\ scanned[k].line = LineAt(bytes, scanned[k].start)
    /\ \A j, k \in DOMAIN scanned : j < k => scanned[j].end <= scanned[k].start

SourceInv == SourceTypeOK /\ PlacesInv

-----------------------------------------------------------------------------
(* Lemmas about the operators.                                             *)

LEMMA ScannedType ==
  ASSUME SourceTypeOK
  PROVE  /\ DOMAIN scanned = 1 .. Len(scanned) /\ Len(scanned) \in Nat
         /\ \A k \in DOMAIN scanned : scanned[k].start \in Nat /\ scanned[k].end \in Nat
<1> DEFINE Records == [start : Nat, end : Nat, line : Nat, token : Comments]
<1>1. \A r \in Records : r.start \in Nat /\ r.end \in Nat
  OBVIOUS
<1>2. scanned \in Seq(Records)
  BY DEF SourceTypeOK
<1> HIDE DEF Records
<1>3. \A k \in DOMAIN scanned : scanned[k] \in Records
  BY <1>2
<1> QED BY <1>1, <1>2, <1>3

LEMMA BytesOf ==
  ASSUME NEW token \in Tokens
  PROVE  /\ Bytes(token) \in Seq(Alphabet) /\ Len(Bytes(token)) \in Nat \ {0}
         /\ token \in Comments =>
                /\ Bytes(token)[1] = "x" /\ Bytes(token)[Len(Bytes(token))] = "x"
                /\ \A i \in 1 .. Len(Bytes(token)) : Bytes(token)[i] \in {"x", "nl"}
<1>1. CASE token = "code"
  <2>1. Bytes(token) = <<"c">> /\ token \notin Comments
    BY <1>1 DEF Bytes, Comments, LineComments, Tagged
  <2>2. \E byte \in Alphabet : Bytes(token) = <<byte>>
    BY <2>1, Zenon DEF Alphabet
  <2>3. PICK byte \in Alphabet : Bytes(token) = <<byte>>
    BY <2>2
  <2>4. token \notin Comments
    BY <2>1
  <2> QED BY <2>3, <2>4
<1>2. CASE token = "blank"
  <2>1. Bytes(token) = <<" ">> /\ token \notin Comments
    BY <1>2 DEF Bytes, Comments, LineComments, Tagged
  <2>2. \E byte \in Alphabet : Bytes(token) = <<byte>>
    BY <2>1, Zenon DEF Alphabet
  <2>3. PICK byte \in Alphabet : Bytes(token) = <<byte>>
    BY <2>2
  <2>4. token \notin Comments
    BY <2>1
  <2> QED BY <2>3, <2>4
<1>3. CASE token = "newline"
  <2>1. Bytes(token) = <<"nl">> /\ token \notin Comments
    BY <1>3 DEF Bytes, Comments, LineComments, Tagged
  <2>2. \E byte \in Alphabet : Bytes(token) = <<byte>>
    BY <2>1, Zenon DEF Alphabet
  <2>3. PICK byte \in Alphabet : Bytes(token) = <<byte>>
    BY <2>2
  <2>4. token \notin Comments
    BY <2>1
  <2> QED BY <2>3, <2>4
<1>4. CASE token = "block"
  <2>1. Bytes(token) = <<"x", "nl", "x">>
    BY <1>4 DEF Bytes
  <2> QED BY <2>1 DEF Alphabet
<1>5. CASE token \in Comments \ {"block"}
  <2>1. Bytes(token) = <<"x">>
    BY <1>5 DEF Bytes, Comments, LineComments, Tagged
  <2>2. "x" \in Alphabet
    BY DEF Alphabet
  <2> QED BY <2>1, <2>2
<1> QED BY <1>1, <1>2, <1>3, <1>4, <1>5 DEF Tokens

LEMMA NewlinesType ==
  ASSUME NEW text, NEW start \in Nat, NEW end \in Nat
  PROVE  /\ IsFiniteSet({i \in start + 1 .. end : text[i] = "nl"})
         /\ Newlines(text, start, end) \in Nat
         /\ Newlines(text, start, end) = 0 => \A i \in start + 1 .. end : text[i] # "nl"
<1> DEFINE S == {i \in start + 1 .. end : text[i] = "nl"}
<1>1. IsFiniteSet(start + 1 .. end)
  BY FS_Interval
<1>2. IsFiniteSet(S)
  BY <1>1, FS_Subset
<1>3. Cardinality(S) \in Nat /\ (Cardinality(S) = 0 => S = {})
  BY <1>2, FS_CardinalityType, FS_EmptySet
<1> QED BY <1>2, <1>3 DEF Newlines

(* What is typed behind a place changes nothing before it. *)
LEMMA LineAtPrefix ==
  ASSUME NEW text, NEW other, NEW offset \in Nat, \A i \in 1 .. offset : text[i] = other[i]
  PROVE  LineAt(text, offset) = LineAt(other, offset)
<1>1. {i \in 0 + 1 .. offset : text[i] = "nl"} = {i \in 0 + 1 .. offset : other[i] = "nl"}
  OBVIOUS
<1> QED BY <1>1 DEF LineAt, Newlines

(* A finite set of integers has a greatest and a least element. *)
LEMMA MaxOf ==
  ASSUME NEW S \in SUBSET Int, IsFiniteSet(S), S # {}
  PROVE  Max(S) \in S /\ \A x \in S : x <= Max(S)
<1> DEFINE Above(x) == {y \in S : y > x}
           Aboves == {Above(x) : x \in S}
<1>1. Aboves \subseteq SUBSET S /\ Aboves # {}
  OBVIOUS
<1>2. IsWellFoundedOn(StrictSubsetOrdering(S), SUBSET S)
  BY FS_StrictSubsetOrderingWellFounded, FS_FiniteSubsetsOfFinite
<1>3. PICK A \in Aboves : \A B \in Aboves : <<B, A>> \notin StrictSubsetOrdering(S)
  <2> HIDE DEF Aboves
  <2> QED BY <1>1, <1>2, WFMin
<1>4. PICK x \in S : A = Above(x)
  OBVIOUS
<1>5. \A y \in S : y <= x
  <2> SUFFICES ASSUME NEW y \in S, y > x PROVE FALSE
    OBVIOUS
  <2>1. Above(y) \subseteq Above(x) /\ y \in Above(x) /\ y \notin Above(y)
    <3>1. x \in Int /\ y \in Int /\ \A z \in S : z \in Int
      OBVIOUS
    <3>2. ASSUME NEW z \in S, z > y PROVE z > x
      <4>1. z \in Int
        BY <3>1
      <4> QED BY <3>1, <3>2, <4>1
    <3>3. ~(y > y)
      BY <3>1
    <3> QED BY <3>2, <3>3
  <2>2. <<Above(y), A>> \in StrictSubsetOrdering(S)
    BY <1>4, <2>1 DEF StrictSubsetOrdering
  <2> QED BY <1>3, <2>2
<1> QED BY <1>5 DEF Max

LEMMA MinOf ==
  ASSUME NEW S \in SUBSET Int, IsFiniteSet(S), S # {}
  PROVE  Min(S) \in S /\ \A x \in S : Min(S) <= x
<1> DEFINE Below(x) == {y \in S : y < x}
           Belows == {Below(x) : x \in S}
<1>1. Belows \subseteq SUBSET S /\ Belows # {}
  OBVIOUS
<1>2. IsWellFoundedOn(StrictSubsetOrdering(S), SUBSET S)
  BY FS_StrictSubsetOrderingWellFounded, FS_FiniteSubsetsOfFinite
<1>3. PICK A \in Belows : \A B \in Belows : <<B, A>> \notin StrictSubsetOrdering(S)
  <2> HIDE DEF Belows
  <2> QED BY <1>1, <1>2, WFMin
<1>4. PICK x \in S : A = Below(x)
  OBVIOUS
<1>5. \A y \in S : x <= y
  <2> SUFFICES ASSUME NEW y \in S, y < x PROVE FALSE
    OBVIOUS
  <2>1. Below(y) \subseteq Below(x) /\ y \in Below(x) /\ y \notin Below(y)
    <3>1. x \in Int /\ y \in Int /\ \A z \in S : z \in Int
      OBVIOUS
    <3>2. ASSUME NEW z \in S, z < y PROVE z < x
      <4>1. z \in Int
        BY <3>1
      <4> QED BY <3>1, <3>2, <4>1
    <3>3. ~(y < y)
      BY <3>1
    <3> QED BY <3>2, <3>3
  <2>2. <<Below(y), A>> \in StrictSubsetOrdering(S)
    BY <1>4, <2>1 DEF StrictSubsetOrdering
  <2> QED BY <1>3, <2>2
<1> QED BY <1>5 DEF Min

LEMMA LineStartIs ==
  ASSUME NEW text, NEW offset \in Nat
  PROVE  /\ LineStart(text, offset) \in 0 .. offset
         /\ LineStart(text, offset) = 0 \/ text[LineStart(text, offset)] = "nl"
         /\ \A i \in LineStart(text, offset) + 1 .. offset : text[i] # "nl"
<1> DEFINE S == {0} \cup {i \in 1 .. offset : text[i] = "nl"}
<1>1. S \subseteq 0 .. offset /\ S # {} /\ S \in SUBSET Int
  OBVIOUS
<1>2. IsFiniteSet(S)
  <2>1. IsFiniteSet(0 .. offset)
    BY FS_Interval
  <2> HIDE DEF S
  <2> QED BY <1>1, <2>1, FS_Subset
<1>3. LineStart(text, offset) \in S /\ \A x \in S : x <= LineStart(text, offset)
  <2> HIDE DEF S
  <2>1. Max(S) \in S /\ \A x \in S : x <= Max(S)
    BY <1>1, <1>2, MaxOf
  <2> QED BY <2>1 DEF LineStart, S
<1>4. ASSUME NEW i \in LineStart(text, offset) + 1 .. offset, text[i] = "nl" PROVE FALSE
  <2>1. LineStart(text, offset) \in 0 .. offset
    BY <1>1, <1>3
  <2>2. i \in 1 .. offset /\ ~(i <= LineStart(text, offset))
    BY <2>1
  <2> QED BY <1>3, <1>4, <2>2
<1> QED BY <1>1, <1>3, <1>4

LEMMA LineEndIs ==
  ASSUME NEW text, Len(text) \in Nat, NEW offset \in 0 .. Len(text)
  PROVE  /\ LineEnd(text, offset) \in offset .. Len(text)
         /\ LineEnd(text, offset) = Len(text) \/ text[LineEnd(text, offset) + 1] = "nl"
         /\ \A i \in offset + 1 .. LineEnd(text, offset) : text[i] # "nl"
<1> DEFINE size == Len(text)
           N == {j \in offset + 1 .. size : text[j] = "nl"}
           S == {size} \cup {i - 1 : i \in N}
<1> HIDE DEF size
<1>0. size \in Nat /\ offset \in 0 .. size
  BY DEF size
<1>1. S \subseteq offset .. size /\ S # {} /\ S \in SUBSET Int
  BY <1>0
<1>2. IsFiniteSet(S)
  <2>1. IsFiniteSet(offset .. size)
    BY <1>0, FS_Interval
  <2> HIDE DEF S
  <2> QED BY <1>1, <2>1, FS_Subset
<1>3. LineEnd(text, offset) \in S /\ \A x \in S : LineEnd(text, offset) <= x
  <2> HIDE DEF S
  <2>1. Min(S) \in S /\ \A x \in S : Min(S) <= x
    BY <1>1, <1>2, MinOf
  <2> QED BY <2>1 DEF LineEnd, S, size
<1>4. ASSUME NEW i \in offset + 1 .. LineEnd(text, offset), text[i] = "nl" PROVE FALSE
  <2>1. LineEnd(text, offset) \in offset .. size
    BY <1>1, <1>3
  <2>2. i \in offset + 1 .. size /\ ~(LineEnd(text, offset) <= i - 1)
    BY <1>0, <2>1
  <2>3. i - 1 \in S
    BY <1>4, <2>2
  <2> QED BY <1>3, <2>2, <2>3
<1>5. LineEnd(text, offset) = size \/ text[LineEnd(text, offset) + 1] = "nl"
  <2>1. ASSUME NEW i \in N, LineEnd(text, offset) = i - 1 PROVE text[LineEnd(text, offset) + 1] = "nl"
    BY <1>0, <2>1
  <2> QED BY <1>3, <2>1
<1> QED BY <1>1, <1>3, <1>4, <1>5 DEF size

Blank(text, i) == text[i] = " "

LEMMA BlankIs ==
  /\ \A text, start, end : AllBlank(text, start, end) <=> \A i \in start + 1 .. end : Blank(text, i)
  /\ \A text, i : text[i] \in {"x", "c", "nl"} => ~Blank(text, i)
<1>1. \A text, start, end : AllBlank(text, start, end) <=> \A i \in start + 1 .. end : Blank(text, i)
  BY Zenon DEF AllBlank, Blank
<1>2. \A text, i : text[i] \in {"x", "c", "nl"} => ~Blank(text, i)
  BY Zenon DEF Blank
<1> QED BY <1>1, <1>2

(* A comment alone on its lines, first and last. *)
Whole(text, c) ==
    /\ AllBlank(text, LineStart(text, c.start), c.start)
    /\ AllBlank(text, c.end, LineEnd(text, c.end))

LEMMA ExpandIs ==
  ASSUME NEW text, Len(text) \in Nat, NEW c, c.start \in Nat, c.end \in Nat,
         c.start < c.end, c.end <= Len(text)
  PROVE  LET r == ExpandByteRange(text, c)
             first == LineStart(text, c.start)
             last == LineEnd(text, c.end)
         IN  /\ r.start \in first .. c.start /\ r.end \in c.end .. Len(text)
             /\ AllBlank(text, r.start, c.start)
             /\ Whole(text, c) => r.start = first /\ r.end = IF last < Len(text) THEN last + 1 ELSE last
             /\ ~Whole(text, c) => r.end = c.end
<1> DEFINE r == ExpandByteRange(text, c)
           first == LineStart(text, c.start)
           last == LineEnd(text, c.end)
           before == AllBlank(text, first, c.start)
           after == AllBlank(text, c.end, last)
           S == {first} \cup {i \in first + 1 .. c.start : ~Blank(text, i)}
           code == Max(S)
<1>1. first \in 0 .. c.start /\ last \in c.end .. Len(text)
  BY LineStartIs, LineEndIs
<1>2. r = IF ~before THEN [start |-> code, end |-> c.end]
          ELSE IF after THEN [start |-> first, end |-> Min({last + 1, Len(text)})]
          ELSE [start |-> c.start, end |-> c.end]
  BY Zenon DEF ExpandByteRange, Blank
<1>3. Whole(text, c) <=> before /\ after
  BY DEF Whole
<1> HIDE DEF r, before, after, first, last
<1>4. CASE ~before
  <2>1. S \subseteq first .. c.start /\ S # {} /\ S \in SUBSET Int
    BY <1>1
  <2>2. IsFiniteSet(S)
    <3>0. first \in Int /\ c.start \in Int
      BY <1>1
    <3>1. IsFiniteSet(first .. c.start)
      BY <3>0, FS_Interval
    <3> HIDE DEF S
    <3> QED BY <2>1, <3>1, FS_Subset
  <2>3. code \in S /\ \A x \in S : x <= code
    <3> HIDE DEF S
    <3> QED BY <2>1, <2>2, MaxOf
  <2>4. code \in first .. c.start
    BY <2>1, <2>3
  <2>5. AllBlank(text, code, c.start)
    <3>1. ASSUME NEW i \in code + 1 .. c.start, ~Blank(text, i) PROVE FALSE
      <4>1. i \in first + 1 .. c.start /\ ~(i <= code)
        BY <1>1, <2>4
      <4> QED BY <2>3, <3>1, <4>1
    <3> HIDE DEF code
    <3> QED BY <3>1, BlankIs
  <2>6. r.start = code /\ r.end = c.end
    BY <1>2, <1>4
  <2> HIDE DEF code
  <2>7. r.start \in first .. c.start /\ r.end \in c.end .. Len(text) /\ AllBlank(text, r.start, c.start)
    BY <2>4, <2>5, <2>6
  <2> QED BY <1>3, <1>4, <2>6, <2>7 DEF r, first, last
<1>5. CASE before /\ after
  <2>1. Min({last + 1, Len(text)}) = IF last < Len(text) THEN last + 1 ELSE last
    <3> DEFINE size == Len(text)
    <3>1. last \in 0 .. size /\ size \in Nat
      BY <1>1
    <3> HIDE DEF size
    <3>2. Min({last + 1, size}) = IF last < size THEN last + 1 ELSE last
      BY <3>1 DEF Min
    <3> QED BY <3>2 DEF size
  <2>2. r.start = first /\ r.end = IF last < Len(text) THEN last + 1 ELSE last
    BY <1>2, <1>5, <2>1
  <2>3. r.start \in first .. c.start /\ r.end \in c.end .. Len(text)
    BY <1>1, <2>2
  <2>4. AllBlank(text, r.start, c.start)
    BY <1>5, <2>2 DEF before
  <2> QED BY <1>3, <1>5, <2>2, <2>3, <2>4 DEF r, first, last
<1>6. CASE before /\ ~after
  <2>1. r.start = c.start /\ r.end = c.end
    BY <1>2, <1>6
  <2>2. AllBlank(text, r.start, c.start)
    BY <2>1, BlankIs
  <2> QED BY <1>1, <1>3, <1>6, <2>1, <2>2 DEF r, first, last
<1> QED BY <1>4, <1>5, <1>6

(* The ranges of two comments lie apart. *)
LEMMA ExpandApart ==
  ASSUME NEW text, Len(text) \in Nat,
         NEW c, c.start \in Nat, c.end \in Nat, c.start < c.end, c.end <= Len(text),
         text[c.end] = "x",
         NEW d, d.start \in Nat, d.end \in Nat, d.start < d.end, d.end <= Len(text),
         text[d.start + 1] = "x",
         c.end <= d.start
  PROVE  ExpandByteRange(text, c).end <= ExpandByteRange(text, d).start
<1> DEFINE rc == ExpandByteRange(text, c)
           rd == ExpandByteRange(text, d)
           last == LineEnd(text, c.end)
           first == LineStart(text, d.start)
<1>1. /\ rc.end \in c.end .. Len(text)
      /\ Whole(text, c) => rc.end = IF last < Len(text) THEN last + 1 ELSE last
      /\ ~Whole(text, c) => rc.end = c.end
  BY ExpandIs
<1>2. rd.start \in first .. d.start /\ AllBlank(text, rd.start, d.start)
  BY ExpandIs
<1>3. first \in 0 .. d.start /\ \A i \in first + 1 .. d.start : text[i] # "nl"
  BY LineStartIs
<1>4. /\ last \in c.end .. Len(text)
      /\ last = Len(text) \/ text[last + 1] = "nl"
  <2>1. c.end \in 0 .. Len(text)
    OBVIOUS
  <2> QED BY <2>1, LineEndIs
<1>5. Whole(text, c) => \A i \in c.end + 1 .. last : Blank(text, i)
  BY BlankIs DEF Whole
<1>6. \A i \in rd.start + 1 .. d.start : Blank(text, i)
  BY <1>2, BlankIs
<1>7. ~Blank(text, c.end) /\ ~Blank(text, d.start + 1)
  BY BlankIs
<1> HIDE DEF rc, rd, first, last
<1>8. CASE Whole(text, c)
  <2>1. d.start + 1 \notin c.end + 1 .. last
    BY <1>5, <1>7, <1>8
  <2>2. last <= d.start /\ last < Len(text)
    BY <1>4, <2>1
  <2>3. last + 1 <= d.start
    <3>1. last # d.start
      BY <1>4, <2>2
    <3> QED BY <1>4, <2>2, <3>1
  <2>4. last + 1 <= first
    <3>1. last + 1 \notin first + 1 .. d.start
      BY <1>3, <1>4, <2>2
    <3> QED BY <1>3, <1>4, <2>3, <3>1
  <2>5. rc.end = last + 1
    BY <1>1, <1>8, <2>2
  <2>6. rc.end <= rd.start
    BY <1>2, <1>3, <1>4, <2>4, <2>5
  <2> QED BY <2>6 DEF rc, rd
<1>9. CASE ~Whole(text, c)
  <2>1. c.end \notin rd.start + 1 .. d.start
    BY <1>6, <1>7
  <2>2. rc.end <= rd.start
    BY <1>1, <1>2, <1>3, <1>9, <2>1
  <2> QED BY <2>2 DEF rc, rd
<1> QED BY <1>8, <1>9

-----------------------------------------------------------------------------
(* Typing.                                                                 *)

LEMMA SourceInitInv == SourceInit => SourceInv
BY DEF SourceInit, SourceInv, SourceTypeOK, PlacesInv

LEMMA TypeInv ==
  ASSUME SourceInv, NEW token \in Tokens, Type(token)
  PROVE  SourceInv'
<1> DEFINE b == Bytes(token)
           new == [start |-> Len(bytes), end |-> Len(bytes'),
                   line |-> LineAt(bytes, Len(bytes)), token |-> token]
<1>1. b \in Seq(Alphabet) /\ Len(b) \in Nat \ {0} /\ bytes \in Seq(Alphabet) /\ bytes' = bytes \o b
  BY BytesOf DEF Type, SourceInv, SourceTypeOK
<1>2. /\ bytes' \in Seq(Alphabet) /\ Len(bytes') = Len(bytes) + Len(b) /\ Len(bytes) \in Nat
      /\ \A i \in 1 .. Len(bytes) : bytes'[i] = bytes[i]
      /\ \A i \in 1 .. Len(b) : bytes'[Len(bytes) + i] = b[i]
  <2> HIDE DEF b
  <2> QED BY <1>1
<1>3. typed' \in Nat
  BY DEF Type, SourceInv, SourceTypeOK
<1>4. CASE token \in Comments
  <2>1. scanned' = Append(scanned, new)
    BY <1>4 DEF Type
  <2>2. new \in [start : Nat, end : Nat, line : Nat, token : Comments]
    <3>1. Newlines(bytes, 0, Len(bytes)) \in Nat
      BY <1>2, NewlinesType
    <3>2. LineAt(bytes, Len(bytes)) \in Nat
      BY <3>1 DEF LineAt
    <3>3. Len(bytes) \in Nat /\ Len(bytes') \in Nat
      BY <1>1, <1>2
    <3> QED BY <1>4, <3>2, <3>3
  <2>3. /\ scanned' \in Seq([start : Nat, end : Nat, line : Nat, token : Comments])
        /\ DOMAIN scanned' = 1 .. Len(scanned) + 1 /\ DOMAIN scanned = 1 .. Len(scanned)
        /\ scanned'[Len(scanned) + 1] = new /\ Len(scanned) \in Nat
        /\ \A k \in DOMAIN scanned : scanned'[k] = scanned[k]
    <3> HIDE DEF new
    <3> QED BY SMTT(30), <2>1, <2>2 DEF SourceInv, SourceTypeOK
  <2>4. \A k \in DOMAIN scanned : scanned[k].start \in Nat /\ scanned[k].end \in Nat
    BY ScannedType DEF SourceInv
  <2>5. /\ b[1] = "x" /\ b[Len(b)] = "x"
        /\ \A i \in 1 .. Len(b) : b[i] \in {"x", "nl"}
    BY <1>4, BytesOf
  <2>6. /\ new.start = Len(bytes) /\ new.end = Len(bytes') /\ new.line = LineAt(bytes, Len(bytes))
    OBVIOUS
  <2> HIDE DEF b, new
  <2>7. ASSUME NEW k \in DOMAIN scanned'
        PROVE  /\ scanned'[k].start < scanned'[k].end /\ scanned'[k].end <= Len(bytes')
               /\ bytes'[scanned'[k].start + 1] = "x" /\ bytes'[scanned'[k].end] = "x"
               /\ \A i \in scanned'[k].start + 1 .. scanned'[k].end : bytes'[i] \in {"x", "nl"}
               /\ scanned'[k].line = LineAt(bytes', scanned'[k].start)
    <3>1. CASE k \in DOMAIN scanned
      <4>1. scanned[k].start < scanned[k].end /\ scanned[k].end <= Len(bytes)
            /\ scanned[k].start \in Nat /\ scanned[k].end \in Nat /\ scanned'[k] = scanned[k]
        BY <2>3, <2>4, <3>1 DEF SourceInv, PlacesInv
      <4>2. /\ bytes[scanned[k].start + 1] = "x" /\ bytes[scanned[k].end] = "x"
            /\ \A i \in scanned[k].start + 1 .. scanned[k].end : bytes[i] \in {"x", "nl"}
            /\ scanned[k].line = LineAt(bytes, scanned[k].start)
        BY <3>1 DEF SourceInv, PlacesInv
      <4>0. \A i \in 1 .. scanned[k].end : bytes'[i] = bytes[i]
        BY <1>2, <4>1
      <4>3. LineAt(bytes', scanned[k].start) = LineAt(bytes, scanned[k].start)
        <5>1. \A i \in 1 .. scanned[k].start : bytes'[i] = bytes[i]
          BY <4>0, <4>1
        <5> QED BY <4>1, <5>1, LineAtPrefix
      <4>4. \A i \in scanned[k].start + 1 .. scanned[k].end : bytes'[i] = bytes[i]
        BY <4>0, <4>1
      <4>5. scanned[k].start + 1 \in scanned[k].start + 1 .. scanned[k].end
            /\ scanned[k].end \in scanned[k].start + 1 .. scanned[k].end
        BY <4>1
      <4>6. /\ bytes'[scanned[k].start + 1] = "x" /\ bytes'[scanned[k].end] = "x"
            /\ \A i \in scanned[k].start + 1 .. scanned[k].end : bytes'[i] \in {"x", "nl"}
        BY <4>2, <4>4, <4>5
      <4>7. scanned[k].end <= Len(bytes')
        <5> DEFINE end == scanned[k].end
        <5>1. end \in Nat /\ end <= Len(bytes)
          BY <4>1
        <5> HIDE DEF end
        <5>2. end <= Len(bytes')
          BY <1>1, <1>2, <5>1
        <5> QED BY <5>2 DEF end
      <4> QED BY <4>1, <4>2, <4>3, <4>6, <4>7
    <3>2. CASE k = Len(scanned) + 1
      <4>1. scanned'[k].start = Len(bytes) /\ scanned'[k].end = Len(bytes')
            /\ scanned'[k].line = LineAt(bytes, Len(bytes))
        BY <2>3, <2>6, <3>2
      <4>2. LineAt(bytes', Len(bytes)) = LineAt(bytes, Len(bytes))
        <5>1. \A i \in 1 .. Len(bytes) : bytes'[i] = bytes[i]
          BY <1>2
        <5> QED BY <1>2, <5>1, LineAtPrefix
      <4>3. bytes'[Len(bytes) + 1] = "x" /\ bytes'[Len(bytes')] = "x"
        BY <1>1, <1>2, <2>5
      <4>4. ASSUME NEW i \in Len(bytes) + 1 .. Len(bytes')
            PROVE  bytes'[i] \in {"x", "nl"}
        <5>1. i - Len(bytes) \in 1 .. Len(b) /\ i = Len(bytes) + (i - Len(bytes))
          BY <1>1, <1>2
        <5> QED BY <1>2, <2>5, <5>1
      <4> QED BY <1>1, <1>2, <4>1, <4>2, <4>3, <4>4
    <3> QED BY <2>3, <3>1, <3>2
  <2>8. ASSUME NEW j \in DOMAIN scanned', NEW k \in DOMAIN scanned', j < k
        PROVE  scanned'[j].end <= scanned'[k].start
    <3>1. j \in DOMAIN scanned /\ scanned'[j] = scanned[j]
      <4>1. j \in Nat /\ k \in Nat /\ 1 <= j /\ k <= Len(scanned) + 1
        BY SMTT(30), <2>3
      <4>2. j \in 1 .. Len(scanned)
        BY <2>3, <2>8, <4>1
      <4> QED BY <2>3, <4>2
    <3>2. CASE k \in DOMAIN scanned
      BY <2>3, <2>8, <3>1, <3>2 DEF SourceInv, PlacesInv
    <3>3. CASE k = Len(scanned) + 1
      BY <2>3, <2>6, <3>1, <3>3 DEF SourceInv, PlacesInv
    <3> QED BY <2>3, <3>2, <3>3
  <2> QED BY <1>2, <1>3, <2>3, <2>7, <2>8 DEF SourceInv, SourceTypeOK, PlacesInv
<1>5. CASE token \notin Comments
  <2>1. scanned' = scanned
    BY <1>5 DEF Type
  <2>2. \A k \in DOMAIN scanned : scanned[k].start \in Nat /\ scanned[k].end \in Nat
    BY ScannedType DEF SourceInv
  <2> HIDE DEF b
  <2>3. ASSUME NEW k \in DOMAIN scanned
        PROVE  /\ scanned[k].end <= Len(bytes')
               /\ bytes'[scanned[k].start + 1] = "x" /\ bytes'[scanned[k].end] = "x"
               /\ \A i \in scanned[k].start + 1 .. scanned[k].end : bytes'[i] \in {"x", "nl"}
               /\ scanned[k].line = LineAt(bytes', scanned[k].start)
    <3>1. scanned[k].start < scanned[k].end /\ scanned[k].end <= Len(bytes)
          /\ scanned[k].start \in Nat /\ scanned[k].end \in Nat
      BY <2>2 DEF SourceInv, PlacesInv
    <3>2. /\ bytes[scanned[k].start + 1] = "x" /\ bytes[scanned[k].end] = "x"
          /\ \A i \in scanned[k].start + 1 .. scanned[k].end : bytes[i] \in {"x", "nl"}
          /\ scanned[k].line = LineAt(bytes, scanned[k].start)
      BY DEF SourceInv, PlacesInv
    <3>0. \A i \in 1 .. scanned[k].end : bytes'[i] = bytes[i]
      BY <1>2, <3>1
    <3>3. LineAt(bytes', scanned[k].start) = LineAt(bytes, scanned[k].start)
      <4>1. \A i \in 1 .. scanned[k].start : bytes'[i] = bytes[i]
        BY <3>0, <3>1
      <4> QED BY <3>1, <4>1, LineAtPrefix
    <3>4. \A i \in scanned[k].start + 1 .. scanned[k].end : bytes'[i] = bytes[i]
      BY <3>0, <3>1
    <3>5. scanned[k].start + 1 \in scanned[k].start + 1 .. scanned[k].end
          /\ scanned[k].end \in scanned[k].start + 1 .. scanned[k].end
      BY <3>1
    <3> QED BY <1>1, <1>2, <3>1, <3>2, <3>3, <3>4, <3>5
  <2> QED BY <1>2, <1>3, <2>1, <2>3 DEF SourceInv, SourceTypeOK, PlacesInv
<1> QED BY <1>4, <1>5

LEMMA SourceInvariance == SourceSpec => []SourceInv
<1>1. SourceInv /\ [SourceNext]_sourceVars => SourceInv'
  <2> SUFFICES ASSUME SourceInv, [SourceNext]_sourceVars PROVE SourceInv'
    OBVIOUS
  <2>1. CASE UNCHANGED sourceVars
    BY <2>1 DEF sourceVars, SourceInv, SourceTypeOK, PlacesInv, LineAt, Newlines
  <2> QED BY <2>1, TypeInv DEF SourceNext
<1> QED BY <1>1, SourceInitInv, PTL DEF SourceSpec

-----------------------------------------------------------------------------
(* Merged comments and their ranges.                                       *)

LEMMA LastOfIs ==
  ASSUME SourceInv, NEW k \in DOMAIN scanned
  PROVE  LastOf(k) \in k .. Len(scanned) /\ \A i \in k + 1 .. LastOf(k) : Continues(i)
<1> DEFINE size == Len(scanned)
           S == {j \in k .. size : \A i \in k + 1 .. j : Continues(i)}
<1>1. k \in 1 .. size /\ size \in Nat
  BY ScannedType DEF SourceInv
<1> HIDE DEF size
<1>2. S \subseteq k .. size /\ S \in SUBSET Int /\ k \in S
  BY <1>1
<1>3. IsFiniteSet(S)
  BY <1>1, <1>2, FS_Interval, FS_Subset
<1>4. Max(S) \in S
  <2> HIDE DEF S
  <2> QED BY <1>2, <1>3, MaxOf
<1>5. LastOf(k) = Max(S)
  BY DEF LastOf, size
<1>6. LastOf(k) \in S
  BY <1>4, <1>5
<1> QED BY <1>6 DEF size

LEMMA MergedIs ==
  ASSUME SourceInv, NEW k \in DOMAIN scanned
  PROVE  /\ Merged(k).start \in Nat /\ Merged(k).end \in Nat
         /\ Merged(k).start < Merged(k).end /\ Merged(k).end <= Len(bytes)
         /\ bytes[Merged(k).start + 1] = "x" /\ bytes[Merged(k).end] = "x"
<1>1. LastOf(k) \in k .. Len(scanned)
  BY LastOfIs
<1>2. LastOf(k) \in DOMAIN scanned /\ k <= LastOf(k) /\ k \in Nat /\ LastOf(k) \in Nat
  BY <1>1, ScannedType DEF SourceInv
<1>3. Merged(k).start = scanned[k].start /\ Merged(k).end = scanned[LastOf(k)].end
  BY DEF Merged
<1> DEFINE l == LastOf(k)
<1> HIDE DEF l
<1>4. /\ \A i \in {k, l} : /\ scanned[i].start \in Nat /\ scanned[i].end \in Nat
                           /\ scanned[i].start < scanned[i].end /\ scanned[i].end <= Len(bytes)
      /\ bytes[scanned[k].start + 1] = "x" /\ bytes[scanned[l].end] = "x"
      /\ k < l => scanned[k].end <= scanned[l].start
  BY <1>2, ScannedType DEF l, SourceInv, PlacesInv
<1>5. k = l \/ k < l
  BY <1>2 DEF l
<1>6. Len(bytes) \in Nat
  BY DEF SourceInv, SourceTypeOK
<1>7. scanned[k].start < scanned[l].end
  BY <1>4, <1>5
<1> QED BY <1>3, <1>4, <1>7 DEF l

LEMMA MergedApart ==
  ASSUME SourceInv, NEW j \in DOMAIN scanned, NEW k \in ReviewComments, j < k
  PROVE  LastOf(j) < k /\ Merged(j).end <= Merged(k).start
<1>1. k \in DOMAIN scanned /\ ~Continues(k)
  BY DEF ReviewComments
<1>2. LastOf(j) \in j .. Len(scanned) /\ \A i \in j + 1 .. LastOf(j) : Continues(i)
  BY LastOfIs
<1>3. j \in Nat /\ k \in Nat /\ DOMAIN scanned = 1 .. Len(scanned) /\ Len(scanned) \in Nat
  BY <1>1, ScannedType DEF SourceInv
<1>4. LastOf(j) < k /\ LastOf(j) \in DOMAIN scanned
  BY <1>1, <1>2, <1>3
<1>5. scanned[LastOf(j)].end <= scanned[k].start
  BY <1>1, <1>4 DEF SourceInv, PlacesInv
<1> QED BY <1>4, <1>5 DEF Merged

LEMMA RangesApart ==
  ASSUME SourceInv
  PROVE  /\ DOMAIN Ranges = ReviewComments
         /\ \A k \in ReviewComments : Ranges[k].start \in Nat /\ Ranges[k].end \in Nat
         /\ RangesDisjoint
<1>1. Len(bytes) \in Nat
  BY DEF SourceInv, SourceTypeOK
<1>2. \A k \in ReviewComments : k \in DOMAIN scanned /\ k \in Nat
  BY ScannedType DEF SourceInv, ReviewComments
<1>3. DOMAIN Ranges = ReviewComments /\ \A k \in ReviewComments : Ranges[k] = ExpandByteRange(bytes, Merged(k))
  BY DEF Ranges
<1>4. ASSUME NEW k \in ReviewComments
      PROVE  /\ Ranges[k].start \in Nat /\ Ranges[k].end \in Nat
             /\ Ranges[k].start <= Ranges[k].end /\ Ranges[k].end <= Len(bytes)
  <2> DEFINE m == Merged(k)
             r == ExpandByteRange(bytes, m)
  <2>1. m.start \in Nat /\ m.end \in Nat /\ m.start < m.end /\ m.end <= Len(bytes)
    BY <1>2, MergedIs
  <2>2. LineStart(bytes, m.start) \in 0 .. m.start
    BY <2>1, LineStartIs
  <2> HIDE DEF m
  <2>3. r.start \in LineStart(bytes, m.start) .. m.start /\ r.end \in m.end .. Len(bytes)
    BY <1>1, <2>1, ExpandIs
  <2> HIDE DEF r
  <2>4. r.start \in Nat /\ r.end \in Nat /\ r.start <= r.end /\ r.end <= Len(bytes)
    BY <1>1, <2>1, <2>2, <2>3
  <2> QED BY <1>3, <2>4 DEF r, m
<1>5. ASSUME NEW j \in ReviewComments, NEW k \in ReviewComments, j < k
      PROVE  Ranges[j].end <= Ranges[k].start
  <2>1. Merged(j).end <= Merged(k).start
    BY <1>2, <1>5, MergedApart
  <2> DEFINE m == Merged(j)
             n == Merged(k)
  <2>2. /\ m.start \in Nat /\ m.end \in Nat /\ m.start < m.end /\ m.end <= Len(bytes)
        /\ bytes[m.end] = "x"
    BY <1>2, MergedIs
  <2>3. /\ n.start \in Nat /\ n.end \in Nat /\ n.start < n.end /\ n.end <= Len(bytes)
        /\ bytes[n.start + 1] = "x"
    BY <1>2, MergedIs
  <2>4. m.end <= n.start
    BY <2>1
  <2> HIDE DEF m, n
  <2>5. ExpandByteRange(bytes, m).end <= ExpandByteRange(bytes, n).start
    BY <1>1, <2>2, <2>3, <2>4, ExpandApart
  <2> QED BY <1>3, <2>5 DEF m, n
<1> QED BY <1>3, <1>4, <1>5 DEF RangesDisjoint

(* Whatever is typed, DeleteComments does not refuse the ranges that       *)
(* extract grew: none is inverted, none passes the end of the file, and    *)
(* they follow each other without overlap (expandByteRange, deleter.go).   *)
THEOREM DeletionNotRefused == SourceSpec => []RangesDisjoint
<1>1. SourceInv => RangesDisjoint
  BY RangesApart
<1> QED BY <1>1, SourceInvariance, PTL

-----------------------------------------------------------------------------
(* What is deleted from a tidy file.                                       *)

(* Later places have no smaller line, and more only behind a newline. *)
LEMMA LaterLine ==
  ASSUME NEW text, NEW i \in Nat, NEW j \in Nat, i <= j, LineAt(text, j) # LineAt(text, i)
  PROVE  \E n \in i + 1 .. j : text[n] = "nl"
<1> SUFFICES ASSUME \A n \in i + 1 .. j : text[n] # "nl" PROVE FALSE
  OBVIOUS
<1>1. {n \in 0 + 1 .. j : text[n] = "nl"} = {n \in 0 + 1 .. i : text[n] = "nl"}
  OBVIOUS
<1> QED BY <1>1 DEF LineAt, Newlines

LEMMA NoCodeMerged ==
  ASSUME SourceInv, Tidy, NEW k \in ReviewComments
  PROVE  \A i \in Merged(k).start + 1 .. Merged(k).end : bytes[i] # "c"
<1> DEFINE m == Merged(k)
           l == LastOf(k)
<1>1. k \in DOMAIN scanned /\ k \in Nat /\ DOMAIN scanned = 1 .. Len(scanned) /\ Len(scanned) \in Nat
  BY ScannedType DEF SourceInv, ReviewComments
<1>2. m.start \in Nat /\ m.end \in Nat /\ m.start < m.end /\ m.end <= Len(bytes)
  BY <1>1, MergedIs
<1>3. m.start = scanned[k].start /\ m.end = scanned[l].end
  BY DEF Merged
<1>4. l \in k .. Len(scanned) /\ \A i \in k + 1 .. l : Continues(i)
  BY <1>1, LastOfIs
<1>5. CASE Newlines(bytes, m.start, m.end) = 0
  <2>1. \A i \in m.start + 1 .. m.end : bytes[i] # "nl"
    BY <1>2, <1>5, NewlinesType
  <2> HIDE DEF m, l
  <2>2. l = k
    <3> SUFFICES ASSUME l # k PROVE FALSE
      OBVIOUS
    <3> DEFINE n == k + 1
    <3>1. n \in DOMAIN scanned /\ l \in DOMAIN scanned /\ k < n /\ n <= l
      BY <1>1, <1>4
    <3>2. scanned[n].line = scanned[k].line + 1
      <4>1. Continues(n) /\ n - 1 = k
        BY <1>1, <1>4, <3>1
      <4> QED BY <4>1 DEF Continues
    <3> HIDE DEF n
    <3>3. /\ scanned[k].line = LineAt(bytes, scanned[k].start)
          /\ scanned[n].line = LineAt(bytes, scanned[n].start)
          /\ scanned[k].start < scanned[k].end /\ scanned[n].start < scanned[n].end
          /\ scanned[k].end <= scanned[n].start
      BY <1>1, <3>1 DEF SourceInv, PlacesInv
    <3>4. scanned[n].end <= scanned[l].end
      <4>1. n = l \/ n < l
        BY <1>1, <3>1
      <4>2. n < l => scanned[n].end <= scanned[l].start /\ scanned[l].start < scanned[l].end
        BY <3>1 DEF SourceInv, PlacesInv
      <4>3. /\ scanned[n].end \in Nat /\ scanned[l].end \in Nat /\ scanned[l].start \in Nat
        BY <3>1, ScannedType DEF SourceInv
      <4> QED BY <4>1, <4>2, <4>3
    <3>5. /\ scanned[k].start \in Nat /\ scanned[n].start \in Nat
          /\ scanned[k].end \in Nat /\ scanned[n].end \in Nat
      BY <1>1, <3>1, ScannedType DEF SourceInv
    <3>6. LineAt(bytes, scanned[k].start) \in Nat
      <4>1. Newlines(bytes, 0, scanned[k].start) \in Nat
        BY <3>5, NewlinesType
      <4> QED BY <4>1 DEF LineAt
    <3>7. PICK j \in scanned[k].start + 1 .. scanned[n].start : bytes[j] = "nl"
      <4>1. LineAt(bytes, scanned[n].start) # LineAt(bytes, scanned[k].start)
        BY <3>2, <3>3, <3>6
      <4>2. scanned[k].start <= scanned[n].start
        BY <3>3, <3>5
      <4> QED BY <3>5, <4>1, <4>2, LaterLine
    <3>8. j \in m.start + 1 .. m.end
      BY <1>2, <1>3, <3>3, <3>4, <3>5
    <3> QED BY <2>1, <3>7, <3>8
  <2>3. \A i \in m.start + 1 .. m.end : bytes[i] \in {"x", "nl"}
    BY <1>1, <1>3, <2>2 DEF SourceInv, PlacesInv
  <2> QED BY <2>3 DEF m
<1>6. CASE ~(Newlines(bytes, m.start, m.end) = 0)
  <2>1. \A i \in LinesOf(m) : bytes[i] # "c"
    BY <1>6 DEF Tidy
  <2>2. LineStart(bytes, m.start) \in 0 .. m.start
    BY <1>2, LineStartIs
  <2>3. LineEnd(bytes, m.end) \in m.end .. Len(bytes)
    <3>1. m.end \in 0 .. Len(bytes) /\ Len(bytes) \in Nat
      BY <1>2 DEF SourceInv, SourceTypeOK
    <3> QED BY <3>1, LineEndIs
  <2> HIDE DEF m
  <2>4. \A i \in m.start + 1 .. m.end : i \in LinesOf(m)
    BY <1>2, <2>2, <2>3 DEF LinesOf
  <2> QED BY <2>1, <2>4 DEF m
<1> QED BY <1>5, <1>6

(* What a range takes: the comment, blanks around it, and the newline that *)
(* ends the lines of a comment that has them for itself.                   *)
LEMMA RangeTakes ==
  ASSUME SourceInv, NEW k \in ReviewComments, NEW i \in Ranges[k].start + 1 .. Ranges[k].end
  PROVE  \/ Blank(bytes, i)
         \/ i \in Merged(k).start + 1 .. Merged(k).end
         \/ bytes[i] = "nl" /\ Whole(bytes, Merged(k))
<1> DEFINE m == Merged(k)
           r == ExpandByteRange(bytes, m)
           first == LineStart(bytes, m.start)
           last == LineEnd(bytes, m.end)
<1>1. k \in DOMAIN scanned /\ Ranges[k] = r /\ Len(bytes) \in Nat
  BY ScannedType DEF SourceInv, SourceTypeOK, ReviewComments, Ranges
<1>2. m.start \in Nat /\ m.end \in Nat /\ m.start < m.end /\ m.end <= Len(bytes)
  BY <1>1, MergedIs
<1>3. first \in 0 .. m.start
  BY <1>2, LineStartIs
<1>4. /\ last \in m.end .. Len(bytes)
      /\ last = Len(bytes) \/ bytes[last + 1] = "nl"
  <2>1. m.end \in 0 .. Len(bytes)
    BY <1>1, <1>2
  <2> QED BY <1>1, <2>1, LineEndIs
<1> HIDE DEF m
<1>5. /\ r.start \in first .. m.start /\ r.end \in m.end .. Len(bytes)
      /\ AllBlank(bytes, r.start, m.start)
      /\ Whole(bytes, m) => r.end = IF last < Len(bytes) THEN last + 1 ELSE last
      /\ ~Whole(bytes, m) => r.end = m.end
  BY <1>1, <1>2, ExpandIs
<1>6. Whole(bytes, m) => \A n \in m.end + 1 .. last : Blank(bytes, n)
  BY BlankIs DEF Whole
<1>7. \A n \in r.start + 1 .. m.start : Blank(bytes, n)
  BY <1>5, BlankIs
<1>8. i \in r.start + 1 .. r.end
  BY <1>1
<1> HIDE DEF r, first, last
<1>9. CASE i <= m.start
  BY <1>2, <1>3, <1>5, <1>7, <1>8, <1>9
<1>10. CASE ~(i <= m.start) /\ i <= m.end
  <2>1. i \in m.start + 1 .. m.end
    BY <1>2, <1>3, <1>5, <1>8, <1>10
  <2> QED BY <2>1 DEF m
<1>11. CASE ~(i <= m.end)
  <2>1. Whole(bytes, m)
    BY <1>2, <1>3, <1>5, <1>8, <1>11
  <2>2. i \in m.end + 1 .. last \/ (last < Len(bytes) /\ i = last + 1)
    BY <1>1, <1>2, <1>3, <1>4, <1>5, <1>8, <1>11, <2>1
  <2>3. Blank(bytes, i) \/ bytes[i] = "nl"
    BY <1>1, <1>4, <1>6, <2>1, <2>2
  <2> QED BY <2>1, <2>3 DEF m
<1>12. i \in Int /\ m.start \in Int /\ m.end \in Int
  BY <1>2, <1>3, <1>5, <1>8
<1> QED BY <1>2, <1>9, <1>10, <1>11, <1>12

LEMMA CodeStays ==
  ASSUME SourceInv, Tidy
  PROVE  Code \subseteq Kept(bytes, Ranges)
<1> SUFFICES ASSUME NEW i \in Code, NEW k \in DOMAIN Ranges, i \in Ranges[k].start + 1 .. Ranges[k].end
             PROVE  FALSE
  BY DEF Kept, Code
<1>1. k \in ReviewComments
  BY RangesApart
<1>2. bytes[i] = "c"
  BY DEF Code
<1>3. ~Blank(bytes, i)
  BY <1>2, BlankIs
<1> QED BY <1>1, <1>2, <1>3, RangeTakes, NoCodeMerged

(* A range with a newline is whole lines, from the start of the first. *)
LEMMA NewlineTaken ==
  ASSUME SourceInv, Tidy, NEW k \in ReviewComments,
         NEW n \in Ranges[k].start + 1 .. Ranges[k].end, bytes[n] = "nl"
  PROVE  /\ Whole(bytes, Merged(k))
         /\ Ranges[k].start = 0 \/ bytes[Ranges[k].start] = "nl"
         /\ Ranges[k].end = Len(bytes) \/ bytes[Ranges[k].end] = "nl"
<1> DEFINE m == Merged(k)
           r == ExpandByteRange(bytes, m)
           first == LineStart(bytes, m.start)
           last == LineEnd(bytes, m.end)
<1>1. k \in DOMAIN scanned /\ Ranges[k] = r /\ Len(bytes) \in Nat
  BY ScannedType DEF SourceInv, SourceTypeOK, ReviewComments, Ranges
<1>2. m.start \in Nat /\ m.end \in Nat /\ m.start < m.end /\ m.end <= Len(bytes)
  BY <1>1, MergedIs
<1>3. /\ first \in 0 .. m.start /\ \A i \in first + 1 .. m.start : bytes[i] # "nl"
      /\ first = 0 \/ bytes[first] = "nl"
  BY <1>2, LineStartIs
<1>4. /\ last \in m.end .. Len(bytes) /\ \A i \in m.end + 1 .. last : bytes[i] # "nl"
      /\ last = Len(bytes) \/ bytes[last + 1] = "nl"
  <2>1. m.end \in 0 .. Len(bytes)
    BY <1>1, <1>2
  <2> QED BY <1>1, <2>1, LineEndIs
<1>5. Whole(bytes, m) => r.start = first /\ r.end = IF last < Len(bytes) THEN last + 1 ELSE last
  <2> HIDE DEF m
  <2> QED BY <1>1, <1>2, ExpandIs
<1>6. Whole(bytes, m)
  <2>1. CASE n \in m.start + 1 .. m.end
    <3>1. Newlines(bytes, m.start, m.end) # 0
      <4> HIDE DEF m
      <4> QED BY <1>2, <2>1, NewlinesType
    <3>2. /\ \A i \in LinesOf(m) : bytes[i] # "c"
          /\ \A i \in LinesOf(m) : bytes[i] = "x" => i \in m.start + 1 .. m.end
      BY <3>1 DEF Tidy
    <3>3. \A i \in DOMAIN bytes : Blank(bytes, i) \/ bytes[i] \in {"c", "nl", "x"}
      <4>1. \A i \in DOMAIN bytes : bytes[i] \in Alphabet
        BY DEF SourceInv, SourceTypeOK
      <4> QED BY <4>1, Zenon DEF Alphabet, Blank
    <3>4. DOMAIN bytes = 1 .. Len(bytes)
      BY DEF SourceInv, SourceTypeOK
    <3> HIDE DEF m, r, first, last
    <3>5. LinesOf(m) = first + 1 .. last
      BY DEF LinesOf, first, last
    <3>6. ASSUME NEW i \in first + 1 .. m.start PROVE Blank(bytes, i)
      <4>1. i \in first + 1 .. last /\ i \in DOMAIN bytes /\ i \notin m.start + 1 .. m.end
        <5>1. /\ first \in Nat /\ last \in Nat /\ m.start < m.end /\ m.end <= last
              /\ last <= Len(bytes) /\ first <= m.start
          BY <1>1, <1>2, <1>3, <1>4
        <5>2. i \in Int
          BY <1>2, <5>1
        <5> QED BY <1>1, <1>2, <3>4, <5>1, <5>2
      <4>2. bytes[i] # "nl"
        BY <1>3
      <4> QED BY <3>2, <3>3, <3>5, <4>1, <4>2
    <3>7. ASSUME NEW i \in m.end + 1 .. last PROVE Blank(bytes, i)
      <4>1. i \in first + 1 .. last /\ i \in DOMAIN bytes /\ i \notin m.start + 1 .. m.end
        <5>1. /\ first \in Nat /\ last \in Nat /\ m.start < m.end /\ m.end <= last
              /\ last <= Len(bytes) /\ first <= m.start
          BY <1>1, <1>2, <1>3, <1>4
        <5>2. i \in Int
          BY <1>2, <5>1
        <5> QED BY <1>1, <1>2, <3>4, <5>1, <5>2
      <4>2. bytes[i] # "nl"
        BY <1>4
      <4> QED BY <3>2, <3>3, <3>5, <4>1, <4>2
    <3> QED BY <3>6, <3>7, BlankIs DEF Whole, first, last
  <2>2. CASE n \notin m.start + 1 .. m.end
    <3>1. ~Blank(bytes, n)
      BY BlankIs
    <3> QED BY <2>2, <3>1, RangeTakes
  <2> QED BY <2>1, <2>2
<1> HIDE DEF m, r, first, last
<1>7. r.start = 0 \/ bytes[r.start] = "nl"
  BY <1>3, <1>5, <1>6
<1>8. r.end = Len(bytes) \/ bytes[r.end] = "nl"
  BY <1>1, <1>4, <1>5, <1>6
<1> QED BY <1>1, <1>6, <1>7, <1>8 DEF m

LEMMA LinesStayApart ==
  ASSUME SourceInv, Tidy, NEW i \in Code, NEW j \in Code,
         \E n \in i .. j : bytes[n] = "nl"
  PROVE  \E n \in (i .. j) \cap Kept(bytes, Ranges) : bytes[n] = "nl"
<1> DEFINE S == {n \in i .. j : bytes[n] = "nl"}
<1>1. /\ i \in 1 .. Len(bytes) /\ j \in 1 .. Len(bytes) /\ Len(bytes) \in Nat
      /\ DOMAIN bytes = 1 .. Len(bytes) /\ bytes[i] = "c" /\ bytes[j] = "c"
  BY DEF Code, SourceInv, SourceTypeOK
<1>2. S \in SUBSET Int /\ S # {} /\ S \subseteq i .. j
  BY <1>1
<1>3. IsFiniteSet(S)
  <2>1. IsFiniteSet(i .. j)
    BY <1>1, FS_Interval
  <2> HIDE DEF S
  <2> QED BY <1>2, <2>1, FS_Subset
<1>4. PICK n \in S : \A o \in S : n <= o
  <2> HIDE DEF S
  <2> QED BY <1>2, <1>3, MinOf
<1>5. n \in Kept(bytes, Ranges)
  <2> SUFFICES ASSUME NEW k \in DOMAIN Ranges, n \in Ranges[k].start + 1 .. Ranges[k].end
               PROVE  FALSE
    BY <1>1, <1>2 DEF Kept
  <2>1. k \in ReviewComments /\ Ranges[k].start \in Nat /\ Ranges[k].end \in Nat
    BY RangesApart
  <2>2. Ranges[k].start = 0 \/ bytes[Ranges[k].start] = "nl"
    BY <2>1, NewlineTaken
  <2>3. i \notin Ranges[k].start + 1 .. Ranges[k].end
    BY CodeStays DEF Kept
  <2>4. i < n
    BY <1>1
  <2>5. i <= Ranges[k].start /\ Ranges[k].start < n
    BY <1>1, <2>1, <2>3, <2>4
  <2>6. Ranges[k].start \in S
    BY <1>1, <2>1, <2>2, <2>5
  <2> QED BY <1>1, <1>4, <2>1, <2>5, <2>6
<1> QED BY <1>5

(* In a tidy file, whatever its length, DeleteComments leaves all the code, *)
(* and leaves it on as many lines as it was on: the newlines that           *)
(* expandByteRange takes along never join two lines of code.                *)
THEOREM DeletionKeepsCode == SourceSpec => []CodeLinesKept
<1>1. SourceInv => CodeLinesKept
  BY CodeStays, LinesStayApart DEF CodeLinesKept
<1> QED BY <1>1, SourceInvariance, PTL

(* In a tidy file, whatever its length, the line of a comment's anchor is  *)
(* the line the comment was on in the file that is left: the newlines      *)
(* lineDeltaForRemoval counts (blocks.go) are those that go before it.     *)
THEOREM AnchorsFitWhatIsLeft == SourceSpec => []AdjustedExact
<1>1. SourceInv => AdjustedExact
  <2> SUFFICES ASSUME SourceInv, Tidy, NEW k \in DOMAIN Ranges
               PROVE  AdjustedLine(bytes, Ranges, k) =
                        1 + Cardinality({i \in Kept(bytes, Ranges) :
                                            i <= Ranges[k].start /\ bytes[i] = "nl"})
    BY DEF AdjustedExact
  <2> DEFINE before == {j \in DOMAIN Ranges : j < k}
             A == {i \in 0 + 1 .. Ranges[k].start : bytes[i] = "nl"}
             R == RemovedLines(bytes, Ranges, before)
             L == {i \in Kept(bytes, Ranges) : i <= Ranges[k].start /\ bytes[i] = "nl"}
  <2>1. /\ DOMAIN bytes = 1 .. Len(bytes) /\ Len(bytes) \in Nat
        /\ DOMAIN Ranges = ReviewComments
        /\ \A j \in DOMAIN Ranges : j \in Nat /\ Ranges[j].start \in Nat /\ Ranges[j].end \in Nat
    <3>1. \A j \in ReviewComments : j \in Nat
      BY ScannedType DEF SourceInv, ReviewComments
    <3>2. DOMAIN bytes = 1 .. Len(bytes) /\ Len(bytes) \in Nat
      BY DEF SourceInv, SourceTypeOK
    <3> QED BY <3>1, <3>2, RangesApart
  <2>2. /\ \A j \in DOMAIN Ranges : Ranges[j].start <= Ranges[j].end /\ Ranges[j].end <= Len(bytes)
        /\ \A j \in before : Ranges[j].end <= Ranges[k].start
        /\ \A j \in DOMAIN Ranges : j \notin before => Ranges[k].start <= Ranges[j].start
    <3>1. RangesDisjoint
      BY RangesApart
    <3>2. \A j \in DOMAIN Ranges : j < k \/ j = k \/ k < j
      BY <2>1
    <3>3. ASSUME NEW j \in DOMAIN Ranges, k < j PROVE Ranges[k].start <= Ranges[j].start
      <4>1. Ranges[k].start <= Ranges[k].end /\ Ranges[k].end <= Ranges[j].start
        BY <3>1, <3>3 DEF RangesDisjoint
      <4> QED BY <2>1, <4>1
    <3>4. Ranges[k].start <= Ranges[k].start
      BY <2>1
    <3> QED BY <3>1, <3>2, <3>3, <3>4 DEF RangesDisjoint
  <2>3. ASSUME NEW j \in before, NEW i \in Ranges[j].start + 1 .. Ranges[j].end, bytes[i] = "nl"
        PROVE  IsWholeLines(bytes, Ranges[j])
    <3>1. /\ Ranges[j].start = 0 \/ bytes[Ranges[j].start] = "nl"
          /\ Ranges[j].end = Len(bytes) \/ bytes[Ranges[j].end] = "nl"
      BY <2>1, <2>3, NewlineTaken
    <3>2. Ranges[j].end # Len(bytes)
      <4>1. Ranges[k].start < Len(bytes)
        <5> DEFINE m == Merged(k)
                   r == ExpandByteRange(bytes, m)
        <5>1. k \in DOMAIN scanned /\ Ranges[k] = r
          BY <2>1 DEF ReviewComments, Ranges
        <5>2. m.start \in Nat /\ m.end \in Nat /\ m.start < m.end /\ m.end <= Len(bytes)
          BY <5>1, MergedIs
        <5>3. LineStart(bytes, m.start) \in 0 .. m.start
          BY <5>2, LineStartIs
        <5> HIDE DEF m
        <5>4. r.start \in LineStart(bytes, m.start) .. m.start
          BY <2>1, <5>2, ExpandIs
        <5> HIDE DEF r
        <5>5. r.start < Len(bytes)
          BY <2>1, <5>2, <5>3, <5>4
        <5> QED BY <5>1, <5>5
      <4>2. Ranges[j].end <= Ranges[k].start
        BY <2>2
      <4> QED BY <2>1, <4>1, <4>2
    <3>3. Ranges[j].start < Ranges[j].end
      BY <2>1
    <3> QED BY <3>1, <3>2, <3>3 DEF IsWholeLines
  <2>4. R \subseteq A
    <3> SUFFICES ASSUME NEW i \in DOMAIN bytes, bytes[i] = "nl",
                        NEW j \in before, i \in Ranges[j].start + 1 .. Ranges[j].end
                 PROVE  i \in 0 + 1 .. Ranges[k].start
      BY DEF RemovedLines
    <3>1. Ranges[j].end <= Ranges[k].start
      BY <2>2
    <3>2. Ranges[j].end \in Nat /\ Ranges[j].start \in Nat /\ Ranges[k].start \in Nat
      BY <2>1
    <3> QED BY <3>1, <3>2
  <2>5. L \subseteq A \ R
    <3> SUFFICES ASSUME NEW i \in L PROVE i \in A /\ i \notin R
      OBVIOUS
    <3>1. i \in DOMAIN bytes /\ i <= Ranges[k].start /\ bytes[i] = "nl"
          /\ \A j \in DOMAIN Ranges : i \notin Ranges[j].start + 1 .. Ranges[j].end
      BY DEF Kept
    <3>2. i \in A
      BY <2>1, <3>1
    <3>3. i \notin R
      BY <3>1 DEF RemovedLines
    <3> QED BY <3>2, <3>3
  <2>6. A \ R \subseteq L
    <3> SUFFICES ASSUME NEW i \in A, i \notin R PROVE i \in L
      OBVIOUS
    <3>1. /\ i \in 1 .. Len(bytes) /\ i \in DOMAIN bytes
          /\ i <= Ranges[k].start /\ bytes[i] = "nl"
      <4>1. Ranges[k].start \in Nat /\ Ranges[k].start <= Len(bytes)
        <5>1. Ranges[k].start <= Ranges[k].end /\ Ranges[k].end <= Len(bytes)
          BY <2>2
        <5> QED BY <2>1, <5>1
      <4>2. i \in 1 .. Ranges[k].start /\ bytes[i] = "nl"
        OBVIOUS
      <4> QED BY <2>1, <4>1, <4>2
    <3>2. ASSUME NEW j \in DOMAIN Ranges, i \in Ranges[j].start + 1 .. Ranges[j].end PROVE FALSE
      <4>1. CASE j \in before
        <5>1. IsWholeLines(bytes, Ranges[j])
          BY <2>3, <3>1, <3>2, <4>1
        <5> QED BY <3>1, <3>2, <4>1, <5>1 DEF RemovedLines
      <4>2. CASE j \notin before
        <5>1. Ranges[k].start <= Ranges[j].start
          BY <2>2, <4>2
        <5>2. Ranges[k].start \in Nat /\ Ranges[j].start \in Nat /\ Ranges[j].end \in Nat
          BY <2>1
        <5> QED BY <3>1, <3>2, <5>1, <5>2
      <4> QED BY <4>1, <4>2
    <3> QED BY <3>1, <3>2 DEF Kept
  <2>7. /\ IsFiniteSet(A) /\ Cardinality(A) \in Nat /\ IsFiniteSet(R) /\ Cardinality(R) \in Nat
        /\ Cardinality(A \ R) = Cardinality(A) - Cardinality(R)
    <3>1. IsFiniteSet(A)
      <4>1. Ranges[k].start \in Nat
        BY <2>1
      <4> QED BY <4>1, NewlinesType
    <3> HIDE DEF A, R
    <3>2. A \cap R = R
      BY <2>4
    <3>3. IsFiniteSet(R)
      BY <2>4, <3>1, FS_Subset
    <3> QED BY <3>1, <3>2, <3>3, FS_Difference, FS_CardinalityType
  <2>8. L = A \ R
    <3> HIDE DEF L, A, R
    <3> QED BY <2>5, <2>6
  <2>9. AdjustedLine(bytes, Ranges, k) = 1 + Cardinality(A) - Cardinality(R)
    <3>1. LineAt(bytes, Ranges[k].start) = 1 + Cardinality(A)
      BY Zenon DEF LineAt, Newlines
    <3>2. AdjustedLine(bytes, Ranges, k) = LineAt(bytes, Ranges[k].start) - Cardinality(R)
      BY Zenon DEF AdjustedLine
    <3> HIDE DEF A, R
    <3> QED BY <2>7, <3>1, <3>2
  <2>10. AdjustedLine(bytes, Ranges, k) = 1 + Cardinality(L)
    <3> HIDE DEF L, A, R
    <3> QED BY <2>7, <2>8, <2>9
  <2> QED BY <2>10
<1> QED BY <1>1, SourceInvariance, PTL

-----------------------------------------------------------------------------
(* Induction over data, by the smallest counterexample.                    *)

LEMMA UpTo ==
  ASSUME NEW n \in Nat, NEW S, 0 \in S, \A i \in 0 .. n - 1 : i \in S => i + 1 \in S
  PROVE  \A i \in 0 .. n : i \in S
<1> DEFINE D == {i \in 0 .. n : i \notin S}
<1> SUFFICES ASSUME D # {} PROVE FALSE
  OBVIOUS
<1>1. D \subseteq 0 .. n /\ D \in SUBSET Int
  OBVIOUS
<1>2. IsFiniteSet(0 .. n)
  BY FS_Interval
<1>3. IsFiniteSet(D)
  <2> HIDE DEF D
  <2> QED BY <1>1, <1>2, FS_Subset
<1>4. Min(D) \in D /\ \A x \in D : Min(D) <= x
  <2> HIDE DEF D
  <2> QED BY <1>1, <1>3, MinOf
<1> DEFINE m == Min(D)
<1>5. m \in D /\ \A x \in D : m <= x
  BY <1>4
<1> HIDE DEF m
<1>6. m \in 1 .. n
  BY <1>5
<1>7. m - 1 \in S
  BY <1>5, <1>6
<1> QED BY <1>5, <1>6, <1>7

(* What is computed from the value before is a function. *)
Computes(f, n, T, base, F) ==
    f \in [0 .. n -> T] /\ f[0] = base /\ \A i \in 1 .. n : f[i] = F[<<i, f[i - 1]>>]

LEMMA Recursion ==
  ASSUME NEW n \in Nat, NEW T, NEW base \in T, NEW F \in [(1 .. n) \X T -> T]
  PROVE  \E f : Computes(f, n, T, base, F)
<1> DEFINE Upto(m) == {f \in [0 .. m -> T] :
                        f[0] = base /\ \A i \in 1 .. m : f[i] = F[<<i, f[i - 1]>>]}
           S == {m \in 0 .. n : Upto(m) # {}}
<1>1. 0 \in S
  <2>1. [i \in 0 .. 0 |-> base] \in Upto(0)
    OBVIOUS
  <2> QED BY <2>1
<1>2. ASSUME NEW m \in 0 .. n - 1, m \in S PROVE m + 1 \in S
  <2>1. PICK f \in [0 .. m -> T] :
               f[0] = base /\ \A i \in 1 .. m : f[i] = F[<<i, f[i - 1]>>]
    BY <1>2
  <2> DEFINE g == [i \in 0 .. m + 1 |-> IF i = m + 1 THEN F[<<m + 1, f[m]>>] ELSE f[i]]
  <2>2. f[m] \in T /\ m + 1 \in 1 .. n
    BY <2>1
  <2>3. F[<<m + 1, f[m]>>] \in T
    BY <2>2
  <2>4. g \in [0 .. m + 1 -> T]
    BY <2>3
  <2>5. g[0] = base
    BY <2>1
  <2>6. ASSUME NEW i \in 1 .. m + 1 PROVE g[i] = F[<<i, g[i - 1]>>]
    <3>1. CASE i = m + 1
      <4>1. g[i] = F[<<m + 1, f[m]>>] /\ g[i - 1] = f[m]
        BY <3>1
      <4> HIDE DEF g
      <4> QED BY <3>1, <4>1
    <3>2. CASE i # m + 1
      <4>1. i \in 1 .. m /\ i - 1 \in 0 .. m
        BY <3>2
      <4>2. g[i] = f[i] /\ g[i - 1] = f[i - 1]
        BY <4>1
      <4> HIDE DEF g
      <4> QED BY <2>1, <4>1, <4>2
    <3> QED BY <3>1, <3>2
  <2>7. g \in Upto(m + 1)
    <3> HIDE DEF g
    <3> QED BY <2>4, <2>5, <2>6
  <2>8. m + 1 \in 0 .. n
    BY <2>2
  <2> HIDE DEF Upto, g
  <2> QED BY <2>7, <2>8
<1>3. \A m \in 0 .. n : m \in S
  <2> HIDE DEF S
  <2>1. \A m \in 0 .. n - 1 : m \in S => m + 1 \in S
    BY <1>2
  <2> QED BY <1>1, <2>1, UpTo
<1>4. n \in S
  <2> HIDE DEF S
  <2> QED BY <1>3
<1> QED BY <1>4 DEF Computes

-----------------------------------------------------------------------------
(* Sets of numbers in order.                                               *)

Rising(f) == \A i, j \in DOMAIN f : i < j => f[i] < f[j]

LEMMA RisingCount ==
  ASSUME NEW n \in Nat, NEW f \in [1 .. n -> Int], Rising(f)
  PROVE  IsFiniteSet({f[i] : i \in 1 .. n}) /\ Cardinality({f[i] : i \in 1 .. n}) = n
<1> DEFINE T == {f[i] : i \in 1 .. n}
<1>1. f \in [1 .. n -> T]
  OBVIOUS
<1>2. \A i, j \in 1 .. n : f[i] = f[j] => i = j
  <2> SUFFICES ASSUME NEW i \in 1 .. n, NEW j \in 1 .. n, f[i] = f[j], i # j PROVE FALSE
    OBVIOUS
  <2>1. i < j \/ j < i
    OBVIOUS
  <2>2. f[i] \in Int /\ f[j] \in Int
    OBVIOUS
  <2> QED BY <2>1, <2>2 DEF Rising
<1>3. f \in Bijection(1 .. n, T)
  BY <1>1, <1>2 DEF Bijection, Injection, Surjection, IsInjective
<1>4. IsFiniteSet(1 .. n) /\ Cardinality(1 .. n) = n
  BY FS_Interval
<1>5. ExistsBijection(1 .. n, T)
  BY <1>3 DEF ExistsBijection
<1> HIDE DEF T
<1>6. IsFiniteSet(T) /\ Cardinality(T) = n
  BY <1>4, <1>5, FS_Bijection
<1> QED BY <1>6 DEF T

Rank(K, x) == Cardinality({j \in K : j <= x})

LEMMA RankRises ==
  ASSUME NEW K \in SUBSET Int, IsFiniteSet(K), NEW x \in K
  PROVE  /\ Rank(K, x) \in 1 .. Cardinality(K)
         /\ \A y \in K : y < x => Rank(K, y) < Rank(K, x)
<1> DEFINE Below(y) == {j \in K : j <= y}
<1>1. \A y : Below(y) \in SUBSET K /\ IsFiniteSet(Below(y)) /\ Cardinality(Below(y)) \in Nat
  <2> TAKE y
  <2>1. Below(y) \in SUBSET K
    OBVIOUS
  <2> HIDE DEF Below
  <2> QED BY <2>1, FS_Subset, FS_CardinalityType
<1>2. Cardinality(K) \in Nat /\ Cardinality(Below(x)) <= Cardinality(K)
  <2> HIDE DEF Below
  <2> QED BY <1>1, FS_Subset, FS_CardinalityType
<1>3. Cardinality(Below(x)) # 0
  <2>1. x \in Below(x)
    OBVIOUS
  <2> HIDE DEF Below
  <2> QED BY <1>1, <2>1, FS_EmptySet
<1>4. ASSUME NEW y \in K, y < x PROVE Cardinality(Below(y)) < Cardinality(Below(x))
  <2>1. Below(y) \in SUBSET Below(x) /\ x \in Below(x) /\ x \notin Below(y)
    <3>1. ASSUME NEW j \in K, j <= y PROVE j <= x
      <4>1. j \in Int /\ y \in Int /\ x \in Int
        OBVIOUS
      <4> QED BY <1>4, <3>1, <4>1
    <3>2. x <= x /\ ~(x <= y)
      <4>1. y \in Int /\ x \in Int
        OBVIOUS
      <4> QED BY <1>4, <4>1
    <3> QED BY <3>1, <3>2
  <2> HIDE DEF Below
  <2>2. Cardinality(Below(y)) <= Cardinality(Below(x))
        /\ Cardinality(Below(y)) # Cardinality(Below(x))
    BY <1>1, <2>1, FS_Subset
  <2> QED BY <1>1, <2>2
<1>5. \A y : Rank(K, y) = Cardinality(Below(y))
  BY DEF Rank
<1> HIDE DEF Below
<1> QED BY <1>1, <1>2, <1>3, <1>4, <1>5

LEMMA AscendingIs ==
  ASSUME NEW K \in SUBSET Int, IsFiniteSet(K)
  PROVE  /\ Cardinality(K) \in Nat
         /\ Ascending(K) \in [1 .. Cardinality(K) -> K]
         /\ Rising(Ascending(K))
         /\ \A x \in K : /\ Rank(K, x) \in 1 .. Cardinality(K)
                         /\ Ascending(K)[Rank(K, x)] = x
         /\ \A n \in 1 .. Cardinality(K) : Rank(K, Ascending(K)[n]) = n
<1> DEFINE N == Cardinality(K)
           r == [x \in K |-> Rank(K, x)]
<1>1. N \in Nat
  BY FS_CardinalityType
<1>2. \A x \in K : Rank(K, x) \in 1 .. N /\ \A y \in K : y < x => Rank(K, y) < Rank(K, x)
  BY RankRises
<1>3. \A x, y \in K : Rank(K, x) = Rank(K, y) => x = y
  <2> SUFFICES ASSUME NEW x \in K, NEW y \in K, Rank(K, x) = Rank(K, y), x # y PROVE FALSE
    OBVIOUS
  <2>1. x < y \/ y < x
    <3>1. x \in Int /\ y \in Int
      OBVIOUS
    <3> QED BY <3>1
  <2>2. Rank(K, x) \in Int /\ Rank(K, y) \in Int
    BY <1>2
  <2> HIDE DEF N
  <2>3. Rank(K, x) < Rank(K, y) \/ Rank(K, y) < Rank(K, x)
    BY <1>2, <2>1
  <2> QED BY <2>2, <2>3
<1>4. r \in Injection(K, 1 .. N)
  <2>1. r \in [K -> 1 .. N]
    BY <1>2
  <2>2. \A x, y \in K : r[x] = r[y] => x = y
    BY <1>3
  <2> HIDE DEF r
  <2> QED BY <2>1, <2>2 DEF Injection, IsInjective
<1>5. IsFiniteSet(1 .. N) /\ Cardinality(1 .. N) = N
  <2> HIDE DEF N
  <2> QED BY <1>1, FS_Interval
<1>6. r \in Surjection(K, 1 .. N)
  <2> HIDE DEF r
  <2> QED BY <1>4, <1>5, FS_Injection
<1>7. \A n \in 1 .. N : \E x \in K : Rank(K, x) = n
  <2>1. \A n \in 1 .. N : \E x \in K : r[x] = n
    <3> HIDE DEF r
    <3> QED BY <1>6 DEF Surjection
  <2> QED BY <2>1
<1>8. ASSUME NEW n \in 1 .. N
      PROVE  Ascending(K)[n] \in K /\ Rank(K, Ascending(K)[n]) = n
  BY <1>7 DEF Ascending, Rank
<1>9. \A n \in 1 .. N : Ascending(K)[n] \in K /\ Rank(K, Ascending(K)[n]) = n
  BY <1>8
<1>10. Ascending(K) \in [1 .. N -> K]
  <2>1. \A n \in 1 .. N : (CHOOSE k \in K : Cardinality({j \in K : j <= k}) = n) \in K
    BY <1>9 DEF Ascending
  <2> QED BY <2>1 DEF Ascending
<1>11. Rising(Ascending(K))
  <2> DEFINE A == Ascending(K)
  <2>1. DOMAIN A = 1 .. N
    BY <1>10
  <2> SUFFICES ASSUME NEW m \in 1 .. N, NEW n \in 1 .. N, m < n PROVE A[m] < A[n]
    BY <2>1 DEF Rising
  <2>2. A[m] \in K /\ A[n] \in K /\ Rank(K, A[m]) = m /\ Rank(K, A[n]) = n
    BY <1>9
  <2> HIDE DEF A, N
  <2>3. A[m] \in Int /\ A[n] \in Int
    BY <2>2
  <2>4. CASE A[n] < A[m]
    <3>1. Rank(K, A[n]) < Rank(K, A[m])
      BY <1>2, <2>2, <2>4
    <3>2. n < m
      BY <2>2, <3>1
    <3> QED BY <1>1, <3>2
  <2>5. CASE A[n] = A[m]
    BY <2>2, <2>3, <2>5
  <2> QED BY <2>3, <2>4, <2>5
<1>12. ASSUME NEW x \in K PROVE Ascending(K)[Rank(K, x)] = x
  <2>1. Rank(K, x) \in 1 .. N
    BY <1>2
  <2>2. Ascending(K)[Rank(K, x)] \in K /\ Rank(K, Ascending(K)[Rank(K, x)]) = Rank(K, x)
    BY <1>9, <2>1
  <2> QED BY <1>3, <2>2
<1> QED BY <1>1, <1>2, <1>9, <1>10, <1>11, <1>12

-----------------------------------------------------------------------------
(* The edit script of two versions of a file.                              *)

Distinct(f) == \A i, k \in DOMAIN f : f[i] = f[k] => i = k

(* Two versions have their common lines in the same order. *)
SameOrder(f, g) ==
    \A i, k \in DOMAIN f, j, l \in DOMAIN g :
        f[i] = g[j] /\ f[k] = g[l] /\ i < k => j < l

IsFile(f) == Len(f) \in Nat /\ DOMAIN f = 1 .. Len(f) /\ Distinct(f)

Versions(old, new) == IsFile(old) /\ IsFile(new) /\ SameOrder(old, new)

LEMMA PassedIs ==
  ASSUME NEW old, NEW new, Versions(old, new)
  PROVE  \A i \in DOMAIN old :
            /\ Passed(old, new, i) \in 0 .. Len(new)
            /\ \A k \in 1 .. i : Passed(old, new, k) <= Passed(old, new, i)
            /\ \A j \in DOMAIN new : old[i] = new[j] => Passed(old, new, i) = j
            /\ \A j \in DOMAIN new, k \in 1 .. i - 1 : old[i] = new[j] => Passed(old, new, k) < j
            /\ Passed(old, new, i) \in DOMAIN new => new[Passed(old, new, i)] \in ToSet(old)
<1> DEFINE M == Len(old)
           N == Len(new)
           Common(i) == {0} \cup {j \in DOMAIN new : \E k \in 1 .. i : old[k] = new[j]}
           P(i) == Passed(old, new, i)
<1>1. M \in Nat /\ DOMAIN old = 1 .. M /\ N \in Nat /\ DOMAIN new = 1 .. N
  BY DEF Versions, IsFile
<1>2. \A i : P(i) \in Common(i) /\ \A j \in Common(i) : j <= P(i)
  <2> TAKE i
  <2>1. Common(i) \in SUBSET (0 .. N) /\ Common(i) \in SUBSET Int /\ Common(i) # {}
    BY <1>1
  <2>2. IsFiniteSet(0 .. N)
    BY <1>1, FS_Interval
  <2>3. P(i) = Max(Common(i))
    BY DEF Passed
  <2> HIDE DEF Common, P
  <2>4. IsFiniteSet(Common(i))
    BY <2>1, <2>2, FS_Subset
  <2> QED BY <2>1, <2>3, <2>4, MaxOf
<1>3. \A i : P(i) \in 0 .. N
  BY <1>1, <1>2
<1>4. \A i \in 1 .. M : \A k \in 1 .. i : P(k) <= P(i)
  <2> TAKE i \in 1 .. M
  <2> TAKE k \in 1 .. i
  <2>1. P(k) \in Common(k)
    BY <1>2
  <2>2. P(k) \in Common(i)
    <3>1. \A h \in 1 .. k : h \in 1 .. i
      BY <1>1
    <3> HIDE DEF P
    <3> QED BY <2>1, <3>1
  <2> QED BY <1>2, <2>2
<1>5. \A i, k \in 1 .. M, j, l \in 1 .. N :
          old[i] = new[j] /\ old[k] = new[l] /\ i < k => j < l
  BY <1>1 DEF Versions, SameOrder
<1>6. \A i, k \in 1 .. M : old[i] = old[k] => i = k
  BY <1>1 DEF Versions, IsFile, Distinct
<1>7. \A i \in 1 .. M : \A j \in 1 .. N, k \in 1 .. i - 1 : old[i] = new[j] => P(k) < j
  <2> SUFFICES ASSUME NEW i \in 1 .. M, NEW j \in 1 .. N, NEW k \in 1 .. i - 1, old[i] = new[j]
               PROVE  P(k) < j
    OBVIOUS
  <2>1. P(k) \in Common(k)
    BY <1>2
  <2> HIDE DEF P, M, N
  <2>2. CASE P(k) = 0
    BY <1>1, <2>2
  <2>3. CASE P(k) # 0
    <3>1. PICK h \in 1 .. k : P(k) \in 1 .. N /\ old[h] = new[P(k)]
      BY <1>1, <2>1, <2>3
    <3>2. h \in 1 .. M /\ h < i
      BY <1>1
    <3> QED BY <1>5, <3>1, <3>2
  <2> QED BY <2>2, <2>3
<1>8. \A i \in 1 .. M, j \in 1 .. N : old[i] = new[j] => P(i) = j
  <2> SUFFICES ASSUME NEW i \in 1 .. M, NEW j \in 1 .. N, old[i] = new[j] PROVE P(i) = j
    OBVIOUS
  <2>1. j \in Common(i)
    BY <1>1
  <2>2. j <= P(i) /\ P(i) \in Common(i)
    BY <1>2, <2>1
  <2> HIDE DEF P, M, N
  <2>3. PICK h \in 1 .. i : P(i) \in 1 .. N /\ old[h] = new[P(i)]
    BY <1>1, <2>2
  <2>4. CASE h < i
    <3>1. h \in 1 .. M
      BY <1>1
    <3> QED BY <1>5, <2>2, <2>3, <2>4, <3>1
  <2>5. CASE h = i
    <3>1. new[P(i)] = new[j]
      BY <2>3, <2>5
    <3> QED BY <1>1, <2>3, <3>1 DEF Versions, IsFile, Distinct
  <2> QED BY <1>1, <2>4, <2>5
<1>9. \A i \in 1 .. M : P(i) \in 1 .. N => new[P(i)] \in ToSet(old)
  <2> SUFFICES ASSUME NEW i \in 1 .. M, P(i) \in 1 .. N PROVE new[P(i)] \in ToSet(old)
    OBVIOUS
  <2>1. P(i) \in Common(i) /\ P(i) # 0
    BY <1>1, <1>2
  <2> HIDE DEF P
  <2>2. PICK h \in 1 .. i : old[h] = new[P(i)]
    BY <2>1
  <2>3. h \in DOMAIN old
    BY <1>1
  <2> QED BY <2>2, <2>3 DEF ToSet
<1> HIDE DEF Common
<1> QED BY <1>1, <1>3, <1>4, <1>7, <1>8, <1>9

(* Where an added line goes: behind the old lines whose common line is     *)
(* above it.                                                               *)
LEMMA AddedIs ==
  ASSUME NEW old, NEW new, Versions(old, new), NEW j \in DOMAIN new
  PROVE  /\ AddedPlace(old, new, j) - j \in 0 .. Len(old)
         /\ \A i \in DOMAIN old : (i <= AddedPlace(old, new, j) - j) <=> (Passed(old, new, i) < j)
<1> DEFINE M == Len(old)
           N == Len(new)
           P(i) == Passed(old, new, i)
           Above == {0} \cup {i \in DOMAIN old : P(i) < j}
           Q == Max(Above)
<1>1. M \in Nat /\ DOMAIN old = 1 .. M /\ N \in Nat /\ DOMAIN new = 1 .. N
  BY DEF Versions, IsFile
<1>2. \A i \in 1 .. M : P(i) \in 0 .. N /\ \A k \in 1 .. i : P(k) <= P(i)
  BY <1>1, PassedIs
<1>3. Q \in Above /\ \A i \in Above : i <= Q
  <2>1. Above \in SUBSET (0 .. M) /\ Above \in SUBSET Int /\ Above # {}
    BY <1>1
  <2>2. IsFiniteSet(0 .. M)
    BY <1>1, FS_Interval
  <2> HIDE DEF Above
  <2>3. IsFiniteSet(Above)
    BY <2>1, <2>2, FS_Subset
  <2> QED BY <2>1, <2>3, MaxOf
<1> DEFINE A == AddedPlace(old, new, j)
<1>4. A = j + Q
  BY DEF AddedPlace
<1> HIDE DEF Q, A
<1>5. Q \in 0 .. M
  BY <1>1, <1>3
<1>6. ASSUME NEW i \in 1 .. M, P(i) < j PROVE i <= Q
  BY <1>1, <1>3, <1>6
<1>7. ASSUME NEW i \in 1 .. M, i <= Q PROVE P(i) < j
  <2>1. Q \in 1 .. M /\ P(Q) < j
    BY <1>1, <1>3, <1>7
  <2> HIDE DEF P, M, N, Above
  <2>2. i \in 1 .. Q
    BY <1>1, <1>7, <2>1
  <2>3. P(i) <= P(Q) /\ P(i) \in 0 .. N /\ P(Q) \in 0 .. N
    BY <1>2, <2>1, <2>2
  <2> QED BY <1>1, <2>1, <2>3
<1>8. A - j = Q
  BY <1>1, <1>4, <1>5
<1>9. \A i \in DOMAIN old : (i <= Q) <=> (P(i) < j)
  BY <1>1, <1>6, <1>7
<1>10. A - j \in 0 .. M /\ \A i \in DOMAIN old : (i <= A - j) <=> (P(i) < j)
  BY <1>5, <1>8, <1>9
<1> QED BY <1>10 DEF A

LEMMA PlacesRise ==
  ASSUME NEW old, NEW new, Versions(old, new)
  PROVE  /\ \A i \in DOMAIN old : OldPlace(old, new, i) \in Int
         /\ \A i, k \in DOMAIN old : i < k => OldPlace(old, new, i) < OldPlace(old, new, k)
         /\ \A j \in DOMAIN new : AddedPlace(old, new, j) \in Int
         /\ \A j, l \in DOMAIN new : j < l => AddedPlace(old, new, j) < AddedPlace(old, new, l)
         /\ \A i \in DOMAIN old, j \in DOMAIN new :
                /\ Passed(old, new, i) < j => OldPlace(old, new, i) < AddedPlace(old, new, j)
                /\ Passed(old, new, i) > j => AddedPlace(old, new, j) < OldPlace(old, new, i)
<1> DEFINE M == Len(old)
           N == Len(new)
           P(i) == Passed(old, new, i)
           Q(j) == AddedPlace(old, new, j) - j
<1>1. M \in Nat /\ DOMAIN old = 1 .. M /\ N \in Nat /\ DOMAIN new = 1 .. N
  BY DEF Versions, IsFile
<1>2. \A i \in 1 .. M : P(i) \in 0 .. N /\ \A k \in 1 .. i : P(k) <= P(i)
  BY <1>1, PassedIs
<1>3. \A j \in 1 .. N : Q(j) \in 0 .. M /\ \A i \in 1 .. M : (i <= Q(j)) <=> (P(i) < j)
  BY <1>1, AddedIs
<1>4. \A j \in 1 .. N : AddedPlace(old, new, j) \in Int
  <2>1. \A j : AddedPlace(old, new, j) = j + Max({0} \cup {i \in DOMAIN old : P(i) < j})
    BY DEF AddedPlace
  <2>2. \A j : {0} \cup {i \in DOMAIN old : P(i) < j} \in SUBSET (0 .. M)
    BY <1>1
  <2>3. \A j : Max({0} \cup {i \in DOMAIN old : P(i) < j}) \in Int
    <3> TAKE j
    <3> DEFINE S == {0} \cup {i \in DOMAIN old : P(i) < j}
    <3>1. S \in SUBSET (0 .. M) /\ S \in SUBSET Int /\ S # {}
      BY <2>2
    <3>2. IsFiniteSet(0 .. M)
      BY <1>1, FS_Interval
    <3> HIDE DEF S
    <3>3. IsFiniteSet(S)
      BY <3>1, <3>2, FS_Subset
    <3>4. Max(S) \in S
      BY <3>1, <3>3, MaxOf
    <3>5. Max(S) \in Int
      BY <3>1, <3>4
    <3> QED BY <3>5 DEF S
  <2> HIDE DEF P
  <2> TAKE j \in 1 .. N
  <2> DEFINE X == Max({0} \cup {i \in DOMAIN old : P(i) < j})
  <2>4. X \in Int /\ j \in Int /\ AddedPlace(old, new, j) = j + X
    BY <2>1, <2>3
  <2> HIDE DEF X
  <2> QED BY <2>4
<1>5. \A j \in 1 .. N : AddedPlace(old, new, j) = j + Q(j)
  BY <1>4
<1>6. \A i \in 1 .. M : OldPlace(old, new, i) = i + P(i)
  BY DEF OldPlace
<1> HIDE DEF P, Q, M, N
<1>7. ASSUME NEW i \in 1 .. M, NEW k \in 1 .. M, i < k
      PROVE  OldPlace(old, new, i) < OldPlace(old, new, k)
  <2>1. i \in 1 .. k
    BY <1>7
  <2>2. P(i) <= P(k) /\ P(i) \in Int /\ P(k) \in Int
    BY <1>1, <1>2, <2>1
  <2> QED BY <1>1, <1>6, <1>7, <2>2
<1>8. ASSUME NEW j \in 1 .. N, NEW l \in 1 .. N, j < l
      PROVE  AddedPlace(old, new, j) < AddedPlace(old, new, l)
  <2>1. Q(j) <= Q(l)
    <3>1. CASE Q(j) = 0
      BY <1>1, <1>3, <3>1
    <3>2. CASE Q(j) # 0
      <4>1. Q(j) \in 1 .. M
        BY <1>1, <1>3, <3>2
      <4>2. P(Q(j)) < j /\ P(Q(j)) \in Int
        BY <1>1, <1>2, <1>3, <4>1
      <4>3. P(Q(j)) < l
        BY <1>1, <1>8, <4>2
      <4> QED BY <1>3, <4>1, <4>3
    <3> QED BY <3>1, <3>2
  <2>2. Q(j) \in Int /\ Q(l) \in Int
    BY <1>1, <1>3
  <2> QED BY <1>1, <1>5, <1>8, <2>1, <2>2
<1>9. ASSUME NEW i \in 1 .. M, NEW j \in 1 .. N
      PROVE  /\ P(i) < j => OldPlace(old, new, i) < AddedPlace(old, new, j)
             /\ P(i) > j => AddedPlace(old, new, j) < OldPlace(old, new, i)
  <2>1. P(i) \in Int /\ Q(j) \in Int
    BY <1>1, <1>2, <1>3
  <2>2. (i <= Q(j)) <=> (P(i) < j)
    BY <1>3
  <2>3. CASE P(i) < j
    BY <1>1, <1>5, <1>6, <2>1, <2>2, <2>3
  <2>4. CASE P(i) > j
    <3>1. Q(j) < i
      BY <1>1, <2>1, <2>2, <2>4
    <3> QED BY <1>1, <1>5, <1>6, <2>1, <2>4, <3>1
  <2> QED BY <1>1, <2>1, <2>3, <2>4
<1>10. \A i \in 1 .. M : OldPlace(old, new, i) \in Int
  BY <1>1, <1>2, <1>6
<1> QED BY <1>1, <1>4, <1>7, <1>8, <1>9, <1>10 DEF P

(* What is printed of a line, and what git prints of the files' names. *)
Plainly == {Same, Removed, Added}
OldNames == {OldName, NoOldFile}
NewNames == {NewName, NoNewFile}

LEMMA TypesApart ==
  /\ Same \notin {Removed, Added} /\ Removed # Added
  /\ Plainly \cap OldNames = {} /\ Plainly \cap NewNames = {} /\ OldNames \cap NewNames = {}
  /\ OldTypes = {Same, Removed} \cup OldNames /\ NewTypes = {Same, Added} \cup NewNames
<1>1. /\ Same # Removed /\ Same # Added /\ Same # OldName /\ Same # NewName
      /\ Same # NoOldFile /\ Same # NoNewFile
  BY Zenon DEF Same, Removed, Added, OldName, NewName, NoOldFile, NoNewFile
<1>2. /\ Removed # Added /\ Removed # OldName /\ Removed # NewName
      /\ Removed # NoOldFile /\ Removed # NoNewFile
  BY Zenon DEF Removed, Added, OldName, NewName, NoOldFile, NoNewFile
<1>3. Added # OldName /\ Added # NewName /\ Added # NoOldFile /\ Added # NoNewFile
  BY Zenon DEF Added, OldName, NewName, NoOldFile, NoNewFile
<1>4. /\ OldName # NewName /\ OldName # NoNewFile /\ NoOldFile # NewName
      /\ NoOldFile # NoNewFile
  BY Zenon DEF OldName, NewName, NoOldFile, NoNewFile
<1> QED BY <1>1, <1>2, <1>3, <1>4 DEF Plainly, OldNames, NewNames, OldTypes, NewTypes

LEMMA PlainTypes ==
  \A x \in Plainly : /\ x \in OldTypes <=> x \in {Same, Removed}
                     /\ x \in NewTypes <=> x \in {Same, Added}
BY TypesApart DEF Plainly

(* Which positions of a script hold the lines of one version, in order. *)
Embeds(S, f, types, s) ==
    /\ s \in [DOMAIN f -> DOMAIN S]
    /\ Rising(s)
    /\ \A n \in DOMAIN S : S[n] \in types <=> \E i \in DOMAIN f : s[i] = n

(* A line that is removed, or added, prints as a name. *)
NamedOld(old, new) == \E i \in DOMAIN old : old[i] \in Dashes /\ old[i] \notin ToSet(new)
NamedNew(old, new) == \E j \in DOMAIN new : new[j] \in Pluses /\ new[j] \notin ToSet(old)

Merges(S, old, new, s, r) ==
    /\ Embeds(S, old, OldTypes, s) /\ Embeds(S, new, NewTypes, r)
    /\ \A i \in DOMAIN old, j \in DOMAIN new : old[i] = new[j] => s[i] = r[j]
    /\ \A i \in DOMAIN old : S[s[i]] = Same <=> old[i] \in ToSet(new)
    /\ \A n \in DOMAIN S : /\ S[n] \in OldTypes \cup NewTypes
                           /\ S[n] \in OldNames => NamedOld(old, new)
                           /\ S[n] \in NewNames => NamedNew(old, new)

LEMMA ScriptIs ==
  ASSUME NEW old, NEW new, Versions(old, new)
  PROVE  /\ \E n \in Nat : Script(old, new) \in [1 .. n -> OldTypes \cup NewTypes]
         /\ \E s, r : Merges(Script(old, new), old, new, s, r)
<1> DEFINE M == Len(old)
           N == Len(new)
           O(i) == OldPlace(old, new, i)
           A(j) == AddedPlace(old, new, j)
           Old(ids) == {O(i) : i \in {k \in DOMAIN old : old[k] \in ids}}
           kept == Old(ToSet(new))
           New(ids) == {A(j) : j \in {k \in DOMAIN new : new[k] \in ids \ ToSet(old)}}
           added == New(ToSet(new))
           K == Old(ToSet(old)) \cup added
           order == Ascending(K)
           named == Old(Dashes) \cup New(Pluses)
           null == Old(Nulls) \cup New(Nulls)
           Named(x, line, name, nothing) ==
               IF x \notin named THEN line ELSE IF x \in null THEN nothing ELSE name
           Typed(x) == IF x \in added THEN Named(x, Added, NewName, NoNewFile)
                       ELSE IF x \in kept THEN Same
                       ELSE Named(x, Removed, OldName, NoOldFile)
           S == [n \in DOMAIN order |-> Typed(order[n])]
           Place(j) == IF new[j] \in ToSet(old) THEN O(CHOOSE i \in DOMAIN old : old[i] = new[j])
                       ELSE A(j)
           s == [i \in DOMAIN old |-> Rank(K, O(i))]
           r == [j \in DOMAIN new |-> Rank(K, Place(j))]
<1>1. Script(old, new) = S
  BY DEF Script
<1>2. M \in Nat /\ DOMAIN old = 1 .. M /\ N \in Nat /\ DOMAIN new = 1 .. N
  BY DEF Versions, IsFile
<1>3. /\ \A i \in DOMAIN old : O(i) \in Int
      /\ \A i, k \in DOMAIN old : i < k => O(i) < O(k)
      /\ \A j \in DOMAIN new : A(j) \in Int
      /\ \A j, l \in DOMAIN new : j < l => A(j) < A(l)
      /\ \A i \in DOMAIN old, j \in DOMAIN new :
            /\ Passed(old, new, i) < j => O(i) < A(j)
            /\ Passed(old, new, i) > j => A(j) < O(i)
  BY PlacesRise
<1>4. \A i \in DOMAIN old, j \in DOMAIN new : new[j] \notin ToSet(old) => O(i) # A(j)
  <2> SUFFICES ASSUME NEW i \in DOMAIN old, NEW j \in DOMAIN new, new[j] \notin ToSet(old)
               PROVE  O(i) # A(j)
    OBVIOUS
  <2> DEFINE P == Passed(old, new, i)
  <2>1. P \in 0 .. N /\ (P \in DOMAIN new => new[P] \in ToSet(old))
    BY PassedIs
  <2>2. P # j
    BY <2>1
  <2>3. O(i) \in Int /\ A(j) \in Int /\ (P < j => O(i) < A(j)) /\ (P > j => A(j) < O(i))
    BY <1>3
  <2> HIDE DEF P, O, A
  <2> QED BY <1>2, <2>1, <2>2, <2>3
<1>5. \A i, k \in DOMAIN old : O(i) = O(k) => i = k
  <2> SUFFICES ASSUME NEW i \in DOMAIN old, NEW k \in DOMAIN old, O(i) = O(k), i # k PROVE FALSE
    OBVIOUS
  <2>1. i < k \/ k < i
    BY <1>2
  <2>2. O(i) \in Int
    BY <1>3
  <2> HIDE DEF O
  <2> QED BY <1>3, <2>1, <2>2
<1>6. /\ \A i \in DOMAIN old : O(i) \in K /\ O(i) \notin added
      /\ \A i \in DOMAIN old : O(i) \in kept <=> old[i] \in ToSet(new)
      /\ \A x : x \in named /\ x \in added => NamedNew(old, new)
      /\ \A x : x \in named /\ x \notin kept /\ x \notin added => NamedOld(old, new)
      /\ \A j \in DOMAIN new : new[j] \notin ToSet(old) => A(j) \in K /\ A(j) \in added
      /\ \A x \in K : (\E i \in DOMAIN old : x = O(i)) \/ x \in added
      /\ \A x \in added : \E j \in DOMAIN new : new[j] \notin ToSet(old) /\ x = A(j)
  <2>1. /\ \A i \in DOMAIN old : old[i] \in ToSet(old)
        /\ \A j \in DOMAIN new : new[j] \in ToSet(new)
    BY DEF ToSet
  <2>2. \A j, l \in DOMAIN new : A(j) = A(l) => j = l
    <3> SUFFICES ASSUME NEW j \in DOMAIN new, NEW l \in DOMAIN new, A(j) = A(l), j # l
                 PROVE  FALSE
      OBVIOUS
    <3>1. j < l \/ l < j
      BY <1>2
    <3>2. A(j) \in Int
      BY <1>3
    <3> HIDE DEF A
    <3> QED BY <1>3, <3>1, <3>2
  <2> HIDE DEF O, A
  <2>3. ASSUME NEW x, x \in named, x \in added PROVE NamedNew(old, new)
    <3>1. PICK j \in DOMAIN new : new[j] \notin ToSet(old) /\ x = A(j)
      BY <2>3
    <3>2. CASE x \in Old(Dashes)
      BY <1>4, <3>1, <3>2
    <3>3. CASE x \in New(Pluses)
      BY <3>3 DEF NamedNew
    <3> QED BY <2>3, <3>2, <3>3
  <2>4. ASSUME NEW x, x \in named, x \notin kept, x \notin added PROVE NamedOld(old, new)
    <3>1. CASE x \in Old(Dashes)
      <4>1. PICK i \in DOMAIN old : old[i] \in Dashes /\ x = O(i)
        BY <3>1
      <4>2. old[i] \notin ToSet(new)
        BY <2>4, <4>1
      <4> QED BY <4>1, <4>2 DEF NamedOld
    <3>2. CASE x \in New(Pluses)
      BY <2>1, <2>4, <3>2
    <3> QED BY <2>4, <3>1, <3>2
  <2>5. /\ \A i \in DOMAIN old : O(i) \in K /\ O(i) \notin added
        /\ \A i \in DOMAIN old : O(i) \in kept <=> old[i] \in ToSet(new)
        /\ \A j \in DOMAIN new : new[j] \notin ToSet(old) => A(j) \in K /\ A(j) \in added
        /\ \A x \in K : (\E i \in DOMAIN old : x = O(i)) \/ x \in added
        /\ \A x \in added : \E j \in DOMAIN new : new[j] \notin ToSet(old) /\ x = A(j)
    BY <1>4, <1>5, <2>1, <2>2
  <2> QED BY <2>3, <2>4, <2>5
<1>7. K \in SUBSET Int /\ IsFiniteSet(K)
  <2>1. K \in SUBSET Int
    <3> HIDE DEF O, A
    <3> QED BY <1>3
  <2>2. IsFiniteSet(1 .. M) /\ IsFiniteSet(1 .. N)
    BY <1>2, FS_Interval
  <2>3. IsFiniteSet({O(i) : i \in DOMAIN old}) /\ IsFiniteSet({A(j) : j \in DOMAIN new})
    <3>1. [i \in DOMAIN old |-> O(i)] \in Surjection(DOMAIN old, {O(i) : i \in DOMAIN old})
      <4> HIDE DEF O
      <4> QED BY DEF Surjection
    <3>2. [j \in DOMAIN new |-> A(j)] \in Surjection(DOMAIN new, {A(j) : j \in DOMAIN new})
      <4> HIDE DEF A
      <4> QED BY DEF Surjection
    <3> HIDE DEF O, A
    <3> QED BY <1>2, <2>2, <3>1, <3>2, FS_Surjection
  <2>4. K \in SUBSET ({O(i) : i \in DOMAIN old} \cup {A(j) : j \in DOMAIN new})
    <3> HIDE DEF O, A
    <3> QED OBVIOUS
  <2> HIDE DEF K, O, A
  <2> QED BY <2>1, <2>3, <2>4, FS_Union, FS_Subset
<1>8. /\ Cardinality(K) \in Nat
      /\ order \in [1 .. Cardinality(K) -> K]
      /\ \A x \in K : Rank(K, x) \in 1 .. Cardinality(K) /\ order[Rank(K, x)] = x
      /\ \A n \in 1 .. Cardinality(K) : Rank(K, order[n]) = n
  <2> HIDE DEF K
  <2> QED BY <1>7, AscendingIs
<1>9. \A x, y \in K : x < y => Rank(K, x) < Rank(K, y)
  <2> HIDE DEF K
  <2> QED BY <1>7, RankRises
<1>10. \A j \in DOMAIN new :
          /\ Place(j) \in K
          /\ \A i \in DOMAIN old : old[i] = new[j] => Place(j) = O(i)
          /\ new[j] \in ToSet(old) => \E i \in DOMAIN old : old[i] = new[j] /\ Place(j) = O(i)
  <2> TAKE j \in DOMAIN new
  <2>1. CASE new[j] \in ToSet(old)
    <3> DEFINE c == CHOOSE i \in DOMAIN old : old[i] = new[j]
    <3>1. c \in DOMAIN old /\ old[c] = new[j]
      BY <2>1 DEF ToSet
    <3>2. Place(j) = O(c)
      BY <2>1
    <3> HIDE DEF c, Place, O, K, added
    <3>3. \A i \in DOMAIN old : old[i] = new[j] => i = c
      BY <3>1 DEF Versions, IsFile, Distinct
    <3> QED BY <1>6, <3>1, <3>2, <3>3
  <2>2. CASE new[j] \notin ToSet(old)
    <3>1. Place(j) = A(j)
      BY <2>2
    <3>2. \A i \in DOMAIN old : old[i] # new[j]
      BY <2>2 DEF ToSet
    <3> HIDE DEF Place, A, K, O, added
    <3> QED BY <1>6, <2>2, <3>1, <3>2
  <2> QED BY <2>1, <2>2
<1>11. \A j, l \in DOMAIN new : j < l => Place(j) < Place(l)
  <2> SUFFICES ASSUME NEW j \in DOMAIN new, NEW l \in DOMAIN new, j < l
               PROVE  Place(j) < Place(l)
    OBVIOUS
  <2>0. \A i \in DOMAIN old, h \in DOMAIN new : old[i] = new[h] => Passed(old, new, i) = h
    BY PassedIs
  <2>a. j \in Int /\ l \in Int
    BY <1>2
  <2>1. CASE new[j] \in ToSet(old)
    <3>1. PICK i \in DOMAIN old : old[i] = new[j] /\ Place(j) = O(i)
      BY <1>10, <2>1
    <3>2. CASE new[l] \in ToSet(old)
      <4>1. PICK k \in DOMAIN old : old[k] = new[l] /\ Place(l) = O(k)
        BY <1>10, <3>2
      <4> HIDE DEF Place, O
      <4>2. ~(k < i) /\ k # i
        <5>1. SameOrder(old, new) /\ Distinct(new)
          BY DEF Versions, IsFile
        <5>2. k < i => l < j
          BY <3>1, <4>1, <5>1 DEF SameOrder
        <5>3. k = i => l = j
          BY <3>1, <4>1, <5>1 DEF Distinct
        <5> QED BY <2>a, <5>2, <5>3
      <4>3. i < k
        BY <1>2, <4>2
      <4> QED BY <1>3, <3>1, <4>1, <4>3
    <3>3. CASE new[l] \notin ToSet(old)
      <4>1. Place(l) = A(l)
        BY <3>3
      <4>2. Passed(old, new, i) < l
        BY <2>0, <3>1
      <4> HIDE DEF Place, O, A
      <4> QED BY <1>3, <3>1, <4>1, <4>2
    <3> QED BY <3>2, <3>3
  <2>2. CASE new[j] \notin ToSet(old)
    <3>1. Place(j) = A(j)
      BY <2>2
    <3>2. CASE new[l] \in ToSet(old)
      <4>1. PICK k \in DOMAIN old : old[k] = new[l] /\ Place(l) = O(k)
        BY <1>10, <3>2
      <4>2. Passed(old, new, k) > j
        <5>1. Passed(old, new, k) = l
          BY <2>0, <4>1
        <5> QED BY <2>a, <5>1
      <4> HIDE DEF Place, O, A
      <4> QED BY <1>3, <3>1, <4>1, <4>2
    <3>3. CASE new[l] \notin ToSet(old)
      <4>1. Place(l) = A(l)
        BY <3>3
      <4> HIDE DEF Place, O, A
      <4> QED BY <1>3, <3>1, <4>1
    <3> QED BY <3>2, <3>3
  <2> QED BY <2>1, <2>2
<1>12. DOMAIN order = 1 .. Cardinality(K)
  <2> HIDE DEF order, K
  <2> QED BY <1>8
<1>13. /\ DOMAIN S = 1 .. Cardinality(K)
       /\ \A n \in DOMAIN S : S[n] = Typed(order[n]) /\ order[n] \in K
  <2> HIDE DEF order, K, Typed
  <2> QED BY <1>8, <1>12
<1> HIDE DEF K
<1>14. /\ DOMAIN s = DOMAIN old /\ DOMAIN r = DOMAIN new
       /\ \A i \in DOMAIN old : s[i] = Rank(K, O(i)) /\ s[i] \in DOMAIN S /\ order[s[i]] = O(i)
       /\ \A j \in DOMAIN new : r[j] = Rank(K, Place(j)) /\ r[j] \in DOMAIN S
                                /\ order[r[j]] = Place(j)
  <2> HIDE DEF S, order, O, Place
  <2> QED BY <1>6, <1>8, <1>10, <1>13
<1>15. \A x : /\ Typed(x) \in OldTypes \cup NewTypes
              /\ Typed(x) \in OldTypes <=> x \notin added
              /\ Typed(x) = Same <=> x \in kept /\ x \notin added
              /\ Typed(x) \in OldNames => x \in named /\ x \notin kept /\ x \notin added
              /\ Typed(x) \in NewNames => x \in named /\ x \in added
              /\ Typed(x) \in NewTypes <=> x \in added \/ x \in kept
  <2> TAKE x
  <2> HIDE DEF added, kept, named, null
  <2>1. CASE x \in added
    <3>1. Typed(x) \in {Added, NewName, NoNewFile} /\ (x \notin named => Typed(x) = Added)
      BY <2>1
    <3> HIDE DEF Typed
    <3> QED BY <2>1, <3>1, TypesApart DEF Plainly, OldNames, NewNames
  <2>2. CASE x \notin added /\ x \in kept
    <3>1. Typed(x) = Same
      BY <2>2
    <3> HIDE DEF Typed
    <3> QED BY <2>2, <3>1, TypesApart DEF Plainly, OldNames, NewNames
  <2>3. CASE x \notin added /\ x \notin kept
    <3>1. Typed(x) \in {Removed, OldName, NoOldFile} /\ (x \notin named => Typed(x) = Removed)
      BY <2>3
    <3> HIDE DEF Typed
    <3> QED BY <2>3, <3>1, TypesApart DEF Plainly, OldNames, NewNames
  <2> QED BY <2>1, <2>2, <2>3
<1> HIDE DEF S, order, s, r, Typed, O, A
<1>16. Embeds(S, old, OldTypes, s)
  <2>1. s \in [DOMAIN old -> DOMAIN S]
    <3>1. s = [i \in DOMAIN old |-> s[i]]
      BY <1>14 DEF s
    <3> QED BY <1>14, <3>1
  <2>2. Rising(s)
    <3> SUFFICES ASSUME NEW i \in DOMAIN old, NEW k \in DOMAIN old, i < k PROVE s[i] < s[k]
      BY <1>14 DEF Rising
    <3>1. O(i) < O(k) /\ O(i) \in K /\ O(k) \in K
      BY <1>3, <1>6
    <3> QED BY <1>9, <1>14, <3>1
  <2>3. ASSUME NEW n \in DOMAIN S, S[n] \in OldTypes PROVE \E i \in DOMAIN old : s[i] = n
    <3>1. order[n] \in K /\ order[n] \notin added
      BY <1>13, <1>15, <2>3
    <3>2. PICK i \in DOMAIN old : order[n] = O(i)
      BY <1>6, <3>1
    <3>3. s[i] = Rank(K, order[n])
      BY <1>14, <3>2
    <3> QED BY <1>8, <1>13, <3>3
  <2>4. ASSUME NEW i \in DOMAIN old PROVE S[s[i]] \in OldTypes
    <3>1. S[s[i]] = Typed(O(i))
      BY <1>13, <1>14
    <3> QED BY <1>6, <1>15, <3>1
  <2> QED BY <2>1, <2>2, <2>3, <2>4 DEF Embeds
<1> HIDE DEF Place
<1>17. \A j \in DOMAIN new : S[r[j]] \in NewTypes
  <2> TAKE j \in DOMAIN new
  <2>1. S[r[j]] = Typed(Place(j))
    BY <1>13, <1>14
  <2>2. CASE new[j] \in ToSet(old)
    <3>1. PICK i \in DOMAIN old : old[i] = new[j] /\ Place(j) = O(i)
      BY <1>10, <2>2
    <3>2. old[i] \in ToSet(new)
      BY <3>1 DEF ToSet
    <3>3. Place(j) \in kept
      <4> HIDE DEF kept
      <4> QED BY <1>6, <3>1, <3>2
    <3> HIDE DEF kept, added
    <3> QED BY <1>15, <2>1, <3>3
  <2>3. CASE new[j] \notin ToSet(old)
    <3>1. Place(j) = A(j)
      BY <2>3 DEF Place
    <3> HIDE DEF kept, added
    <3> QED BY <1>6, <1>15, <2>1, <2>3, <3>1
  <2> QED BY <2>2, <2>3
<1>18. ASSUME NEW n \in DOMAIN S, S[n] \in NewTypes PROVE \E j \in DOMAIN new : r[j] = n
  <2>1. order[n] \in added \/ order[n] \in kept
    <3> HIDE DEF kept, added
    <3> QED BY <1>13, <1>15, <1>18
  <2>2. \E j \in DOMAIN new : order[n] = Place(j)
    <3>1. CASE order[n] \in added
      <4>1. PICK j \in DOMAIN new : new[j] \notin ToSet(old) /\ order[n] = A(j)
        BY <1>6, <3>1
      <4> QED BY <4>1 DEF Place
    <3>2. CASE order[n] \in kept
      <4>1. PICK i \in DOMAIN old : old[i] \in ToSet(new) /\ order[n] = O(i)
        BY <3>2
      <4>2. PICK j \in DOMAIN new : new[j] = old[i]
        BY <4>1 DEF ToSet
      <4> QED BY <1>10, <4>1, <4>2
    <3> QED BY <2>1, <3>1, <3>2
  <2>3. PICK j \in DOMAIN new : order[n] = Place(j)
    BY <2>2
  <2>4. r[j] = Rank(K, order[n])
    BY <1>14, <2>3
  <2> QED BY <1>8, <1>13, <2>4
<1>19. Embeds(S, new, NewTypes, r)
  <2>1. r \in [DOMAIN new -> DOMAIN S]
    <3>1. r = [j \in DOMAIN new |-> r[j]]
      BY <1>14 DEF r
    <3> QED BY <1>14, <3>1
  <2>2. Rising(r)
    <3> SUFFICES ASSUME NEW j \in DOMAIN new, NEW l \in DOMAIN new, j < l PROVE r[j] < r[l]
      BY <1>14 DEF Rising
    <3>1. Place(j) < Place(l) /\ Place(j) \in K /\ Place(l) \in K
      BY <1>10, <1>11
    <3> QED BY <1>9, <1>14, <3>1
  <2> QED BY <1>17, <1>18, <2>1, <2>2 DEF Embeds
<1>20. \A i \in DOMAIN old, j \in DOMAIN new : old[i] = new[j] => s[i] = r[j]
  BY <1>10, <1>14
<1>21. \A i \in DOMAIN old : S[s[i]] = Same <=> old[i] \in ToSet(new)
  <2> TAKE i \in DOMAIN old
  <2>1. S[s[i]] = Typed(O(i))
    BY <1>13, <1>14
  <2> HIDE DEF kept, added
  <2> QED BY <1>6, <1>15, <2>1
<1>22. ASSUME NEW n \in DOMAIN S
       PROVE  /\ S[n] \in OldTypes \cup NewTypes
              /\ S[n] \in OldNames => NamedOld(old, new)
              /\ S[n] \in NewNames => NamedNew(old, new)
  <2>1. S[n] \in OldTypes \cup NewTypes
    BY <1>13, <1>15
  <2>2. S[n] = Typed(order[n])
    BY <1>13
  <2>3. /\ Typed(order[n]) \in OldNames =>
              order[n] \in named /\ order[n] \notin kept /\ order[n] \notin added
        /\ Typed(order[n]) \in NewNames => order[n] \in named /\ order[n] \in added
    <3> HIDE DEF kept, added, named
    <3> QED BY <1>15
  <2>4. /\ order[n] \in named /\ order[n] \in added => NamedNew(old, new)
        /\ order[n] \in named /\ order[n] \notin kept /\ order[n] \notin added =>
              NamedOld(old, new)
    <3> HIDE DEF kept, added, named
    <3> QED BY <1>6
  <2> HIDE DEF kept, added, named
  <2> QED BY <2>1, <2>2, <2>3, <2>4
<1>23. Merges(S, old, new, s, r)
  BY <1>16, <1>19, <1>20, <1>21, <1>22 DEF Merges
<1>24. S \in [1 .. Cardinality(K) -> OldTypes \cup NewTypes]
  <2>1. S = [n \in DOMAIN S |-> S[n]]
    BY DEF S
  <2> QED BY <1>13, <1>22, <2>1
<1> QED BY <1>1, <1>8, <1>23, <1>24

-----------------------------------------------------------------------------
(* Counting the lines of a script.                                         *)

LEMMA CountStep ==
  ASSUME NEW S, NEW a \in Int, NEW b \in Int, a <= b + 1, NEW types
  PROVE  /\ Count(S, a, b, types) \in Nat
         /\ Count(S, a, b + 1, types) =
                Count(S, a, b, types) + IF S[b + 1] \in types THEN 1 ELSE 0
         /\ Count(S, a, a - 1, types) = 0
<1> DEFINE C(l) == {n \in a .. l : S[n] \in types}
<1>1. \A l \in Int : IsFiniteSet(C(l)) /\ Cardinality(C(l)) \in Nat
  <2> TAKE l \in Int
  <2>1. IsFiniteSet(a .. l) /\ C(l) \in SUBSET (a .. l)
    BY FS_Interval
  <2> HIDE DEF C
  <2> QED BY <2>1, FS_Subset, FS_CardinalityType
<1>2. C(a - 1) = {}
  OBVIOUS
<1>3. b + 1 \notin C(b)
  OBVIOUS
<1>4. CASE S[b + 1] \in types
  <2>1. C(b + 1) = C(b) \cup {b + 1}
    BY <1>4
  <2> HIDE DEF C
  <2>2. Cardinality(C(b + 1)) = Cardinality(C(b)) + 1
    BY <1>1, <1>3, <2>1, FS_AddElement
  <2> QED BY <1>1, <1>2, <1>4, <2>2, FS_EmptySet DEF Count, C
<1>5. CASE S[b + 1] \notin types
  <2>1. C(b + 1) = C(b)
    BY <1>5
  <2> HIDE DEF C
  <2>2. Cardinality(C(b + 1)) = Cardinality(C(b)) + 0
    BY <1>1, <2>1
  <2> QED BY <1>1, <1>2, <1>5, <2>2, FS_EmptySet DEF Count, C
<1> QED BY <1>4, <1>5

LEMMA CountNone ==
  ASSUME NEW S, NEW a \in Int, NEW b \in Int, b < a, NEW types
  PROVE  Count(S, a, b, types) = 0
<1>1. {n \in a .. b : S[n] \in types} = {}
  OBVIOUS
<1> QED BY <1>1, FS_EmptySet DEF Count

LEMMA CountAll ==
  ASSUME NEW S, NEW a \in Int, NEW b \in Int, a <= b + 1, NEW types,
         \A n \in a .. b : S[n] \in types
  PROVE  Count(S, a, b, types) = b - a + 1
<1>1. {n \in a .. b : S[n] \in types} = a .. b
  OBVIOUS
<1>2. Cardinality(a .. b) = b - a + 1
  <2>1. Cardinality(a .. b) = IF a > b THEN 0 ELSE b - a + 1
    BY FS_Interval
  <2>2. a > b => b - a + 1 = 0
    OBVIOUS
  <2> QED BY <2>1, <2>2
<1> QED BY <1>1, <1>2 DEF Count

LEMMA CountSplit ==
  ASSUME NEW S, NEW a \in Int, NEW b \in Int, NEW c \in Int, a <= b + 1, b <= c, NEW types
  PROVE  /\ Count(S, a, c, types) = Count(S, a, b, types) + Count(S, b + 1, c, types)
         /\ Count(S, a, b, types) \in Nat /\ Count(S, b + 1, c, types) \in Nat
         /\ Count(S, a, c, types) \in Nat
<1> DEFINE C(l, h) == {n \in l .. h : S[n] \in types}
<1>1. \A l, h \in Int : IsFiniteSet(C(l, h)) /\ Cardinality(C(l, h)) \in Nat
  <2> TAKE l, h \in Int
  <2>1. IsFiniteSet(l .. h) /\ C(l, h) \in SUBSET (l .. h)
    BY FS_Interval
  <2> HIDE DEF C
  <2> QED BY <2>1, FS_Subset, FS_CardinalityType
<1>2. C(a, c) = C(a, b) \cup C(b + 1, c) /\ C(a, b) \cap C(b + 1, c) = {}
  OBVIOUS
<1>3. \A l, h : Count(S, l, h, types) = Cardinality(C(l, h))
  BY DEF Count
<1>4. b + 1 \in Int
  OBVIOUS
<1> HIDE DEF C
<1>5. Cardinality(C(a, b) \cap C(b + 1, c)) = 0
  BY <1>2, FS_EmptySet
<1>6. Cardinality(C(a, c)) = Cardinality(C(a, b)) + Cardinality(C(b + 1, c)) - 0
  <2>1. IsFiniteSet(C(a, b)) /\ IsFiniteSet(C(b + 1, c))
    BY <1>1, <1>4
  <2>2. Cardinality(C(a, b) \cup C(b + 1, c))
          = Cardinality(C(a, b)) + Cardinality(C(b + 1, c)) - Cardinality(C(a, b) \cap C(b + 1, c))
    BY ONLY <2>1, FS_Union, Zenon
  <2> QED BY <1>2, <1>5, <2>2
<1> QED BY <1>1, <1>3, <1>4, <1>6

(* The lines of a hunk are those of a stretch of the script. *)
Mirrors(H, other, S, types, a, n) ==
    \A k \in 1 .. n : H[k] \in other <=> S[a + k - 1] \in types

LEMMA CountShift ==
  ASSUME NEW S, NEW H, NEW a \in Int, NEW n \in Nat, NEW types, NEW other,
         Mirrors(H, other, S, types, a, n)
  PROVE  \A k \in 0 .. n : Count(H, 1, k, other) = Count(S, a, a + k - 1, types)
<1> DEFINE W == {k \in 0 .. n : Count(H, 1, k, other) = Count(S, a, a + k - 1, types)}
<1>1. 0 \in W
  <2>1. Count(H, 1, 0, other) = 0
    BY CountNone
  <2>3. a + 0 - 1 \in Int /\ a + 0 - 1 < a
    OBVIOUS
  <2>2. Count(S, a, a + 0 - 1, types) = 0
    BY <2>3, CountNone
  <2> QED BY <2>1, <2>2, <2>3
<1>2. ASSUME NEW k \in 0 .. n - 1, k \in W PROVE k + 1 \in W
  <2>1. k \in Int /\ 1 <= k + 1 /\ a + k - 1 \in Int /\ a <= (a + k - 1) + 1
    OBVIOUS
  <2>2. Count(H, 1, k + 1, other) = Count(H, 1, k, other) + IF H[k + 1] \in other THEN 1 ELSE 0
    BY <2>1, CountStep
  <2>3. Count(S, a, (a + k - 1) + 1, types) =
            Count(S, a, a + k - 1, types) + IF S[(a + k - 1) + 1] \in types THEN 1 ELSE 0
    <3> DEFINE b == a + k - 1
    <3>1. b \in Int /\ a <= b + 1
      OBVIOUS
    <3> HIDE DEF b
    <3>2. Count(S, a, b + 1, types) = Count(S, a, b, types) + IF S[b + 1] \in types THEN 1 ELSE 0
      BY <3>1, CountStep
    <3> QED BY <3>2 DEF b
  <2>4. (a + k - 1) + 1 = a + (k + 1) - 1 /\ k + 1 \in 1 .. n /\ k + 1 \in 0 .. n
    OBVIOUS
  <2>5. H[k + 1] \in other <=> S[a + (k + 1) - 1] \in types
    BY <2>4 DEF Mirrors
  <2> QED BY <1>2, <2>2, <2>3, <2>4, <2>5
<1> HIDE DEF W
<1>3. \A k \in 0 .. n : k \in W
  BY <1>1, <1>2, UpTo
<1> QED BY <1>3 DEF W

(* The line at a place is the n-th of its version if n lines are up to it. *)
LEMMA CountPlace ==
  ASSUME NEW S, NEW N \in Nat, DOMAIN S = 1 .. N, NEW f, IsFile(f), NEW types, NEW s,
         Embeds(S, f, types, s)
  PROVE  /\ \A i \in DOMAIN f : /\ s[i] \in 1 .. N
                                /\ Count(S, 1, s[i], types) = i
                                /\ Count(S, 1, s[i] - 1, types) = i - 1
         /\ Count(S, 1, N, types) = Len(f)
<1> DEFINE M == Len(f)
<1>1. M \in Nat /\ DOMAIN f = 1 .. M
  BY DEF IsFile
<1>2. /\ \A i \in 1 .. M : s[i] \in 1 .. N /\ S[s[i]] \in types
      /\ \A i, k \in 1 .. M : i < k => s[i] < s[k]
      /\ \A n \in 1 .. N : S[n] \in types => \E i \in 1 .. M : s[i] = n
  BY <1>1 DEF Embeds, Rising
<1>3. ASSUME NEW i \in 0 .. M, NEW c \in 0 .. N, \A k \in 1 .. i : s[k] <= c,
             \A k \in i + 1 .. M : s[k] > c
      PROVE  Count(S, 1, c, types) = i
  <2> DEFINE g == [k \in 1 .. i |-> s[k]]
             C == {n \in 1 .. c : S[n] \in types}
  <2>1. \A k \in 1 .. i : k \in 1 .. M /\ s[k] \in Int
    BY <1>1, <1>2
  <2>2. g \in [1 .. i -> Int] /\ Rising(g)
    BY <1>2, <2>1 DEF Rising
  <2>3. {g[k] : k \in 1 .. i} = C
    <3>1. ASSUME NEW k \in 1 .. i PROVE s[k] \in C
      BY <1>2, <1>3, <2>1
    <3>2. ASSUME NEW n \in C PROVE \E k \in 1 .. i : s[k] = n
      <4>1. n \in 1 .. N /\ S[n] \in types /\ n <= c
        BY <1>1
      <4>2. PICK k \in 1 .. M : s[k] = n
        BY <1>2, <4>1
      <4>3. k \in 1 .. i
        <5>1. ~(s[k] > c)
          BY <4>1, <4>2
        <5>2. k \notin i + 1 .. M
          BY <1>3, <5>1
        <5> QED BY <1>1, <5>2
      <4> QED BY <4>2, <4>3
    <3>3. \A k \in 1 .. i : g[k] = s[k]
      OBVIOUS
    <3> HIDE DEF C, g
    <3> QED BY <3>1, <3>2, <3>3
  <2>4. i \in Nat
    BY <1>1
  <2> HIDE DEF g, C
  <2>5. Cardinality({g[k] : k \in 1 .. i}) = i
    BY <2>2, <2>4, RisingCount
  <2>6. Cardinality(C) = i
    BY <2>3, <2>5
  <2> QED BY <2>6 DEF C, Count
<1> HIDE DEF M
<1>4. ASSUME NEW i \in 1 .. M
      PROVE  /\ Count(S, 1, s[i], types) = i
             /\ Count(S, 1, s[i] - 1, types) = i - 1
  <2> DEFINE c == s[i]
  <2>1. /\ c \in 0 .. N /\ c - 1 \in 0 .. N
        /\ \A k \in 1 .. i - 1 : s[k] < c
        /\ \A k \in i + 1 .. M : s[k] > c
    <3>1. c \in 1 .. N
      BY <1>2
    <3>2. ASSUME NEW k \in 1 .. i - 1 PROVE s[k] < c
      <4>1. k \in 1 .. M /\ k < i
        BY <1>1
      <4> QED BY <1>2, <4>1
    <3>3. ASSUME NEW k \in i + 1 .. M PROVE s[k] > c
      <4>1. k \in 1 .. M /\ i < k
        BY <1>1
      <4>2. s[i] < s[k] /\ s[i] \in Int /\ s[k] \in Int
        BY <1>2, <4>1
      <4> QED BY <4>2
    <3> HIDE DEF c
    <3> QED BY <3>1, <3>2, <3>3
  <2>2. \A k \in 1 .. M : s[k] \in Int
    BY <1>2
  <2>3. c = s[i]
    OBVIOUS
  <2> HIDE DEF c
  <2>4. /\ i \in 0 .. M /\ i - 1 \in 0 .. M
        /\ \A k \in 1 .. i : s[k] <= c
        /\ \A k \in 1 .. i - 1 : s[k] <= c - 1
        /\ \A k \in (i - 1) + 1 .. M : s[k] > c - 1
    <3>1. i \in 0 .. M /\ i - 1 \in 0 .. M
      BY <1>1
    <3>2. ASSUME NEW k \in 1 .. i PROVE s[k] <= c
      <4>1. k \in 1 .. M
        BY <1>1
      <4>2. CASE k = i
        BY <2>1, <2>3, <4>2
      <4>3. CASE k # i
        <5>1. k \in 1 .. i - 1
          BY <1>1, <4>3
        <5> QED BY <2>1, <2>2, <4>1, <5>1
      <4> QED BY <4>2, <4>3
    <3>3. ASSUME NEW k \in 1 .. i - 1 PROVE s[k] <= c - 1
      <4>1. k \in 1 .. M
        BY <1>1
      <4> QED BY <2>1, <2>2, <4>1
    <3>4. ASSUME NEW k \in (i - 1) + 1 .. M PROVE s[k] > c - 1
      <4>1. k \in 1 .. M
        BY <1>1
      <4>2. CASE k = i
        BY <2>1, <2>3, <4>2
      <4>3. CASE k # i
        <5>1. k \in i + 1 .. M
          BY <1>1, <4>3
        <5> QED BY <2>1, <2>2, <4>1, <5>1
      <4> QED BY <4>2, <4>3
    <3> QED BY <3>1, <3>2, <3>3, <3>4
  <2>5. Count(S, 1, c, types) = i
    BY <1>3, <2>1, <2>4
  <2>6. Count(S, 1, c - 1, types) = i - 1
    BY <1>3, <2>1, <2>4
  <2> QED BY <2>3, <2>5, <2>6
<1>5. Count(S, 1, N, types) = M
  <2>1. M \in 0 .. M /\ N \in 0 .. N /\ (\A k \in 1 .. M : s[k] <= N)
        /\ \A k \in M + 1 .. M : s[k] > N
    BY <1>1, <1>2
  <2> QED BY <1>3, <2>1
<1> QED BY <1>1, <1>2, <1>4, <1>5 DEF M

-----------------------------------------------------------------------------
(* Diffs in one hunk.                                                      *)

LEMMA LenIs ==
  ASSUME NEW n \in Nat, NEW T, NEW f \in [1 .. n -> T]
  PROVE  Len(f) = n /\ DOMAIN f = 1 .. n /\ f \in Seq(T)
OBVIOUS

LEMMA SpansAre ==
  ASSUME NEW N \in Nat, NEW S, DOMAIN S = 1 .. N
  PROVE  /\ Cardinality(Starts(S)) \in Nat
         /\ Starts(S) \in SUBSET Int /\ IsFiniteSet(Starts(S))
         /\ Len(Spans(S)) = Cardinality(Starts(S))
         /\ DOMAIN Spans(S) = 1 .. Cardinality(Starts(S))
         /\ \A k \in DOMAIN Spans(S) :
                Spans(S)[k] = <<Ascending(Starts(S))[k],
                                Min({p \in Shown(S) : p >= Ascending(Starts(S))[k]
                                                      /\ p + 1 \notin Shown(S)})>>
<1> DEFINE first == Ascending(Starts(S))
           EndOf(n) == Min({p \in Shown(S) : p >= n /\ p + 1 \notin Shown(S)})
           n == Cardinality(Starts(S))
           spans == [k \in DOMAIN first |-> <<first[k], EndOf(first[k])>>]
           T == {<<first[k], EndOf(first[k])>> : k \in 1 .. n}
<1>1. Starts(S) \in SUBSET Int /\ IsFiniteSet(Starts(S))
  <2>1. Starts(S) \in SUBSET (1 .. N)
    BY DEF Starts, Shown
  <2>2. IsFiniteSet(1 .. N)
    BY FS_Interval
  <2> QED BY <2>1, <2>2, FS_Subset
<1>2. n \in Nat /\ first \in [1 .. n -> Starts(S)]
  BY <1>1, AscendingIs
<1>3. Spans(S) = spans
  BY DEF Spans
<1>4. DOMAIN first = 1 .. n
  <2> HIDE DEF first
  <2> QED BY <1>2
<1>5. spans \in [1 .. n -> T]
  <2> HIDE DEF first, EndOf, n
  <2> QED BY <1>4
<1>6. Len(spans) = n /\ DOMAIN spans = 1 .. n
  <2> HIDE DEF spans, n, T
  <2> QED BY <1>2, <1>5, LenIs
<1>7. \A k \in DOMAIN spans : spans[k] = <<first[k], EndOf(first[k])>>
  <2> HIDE DEF first, EndOf
  <2> QED OBVIOUS
<1> QED BY <1>1, <1>2, <1>3, <1>6, <1>7

OneStretch(S, a, b) ==
    /\ a \in DOMAIN S /\ b \in DOMAIN S /\ a <= b
    /\ DOMAIN Spans(S) = 1 .. 1 /\ Spans(S)[1] = <<a, b>>
    /\ \A n \in DOMAIN S : n < a \/ n > b => S[n] = Same
    /\ S[a] # Same => a = 1
    /\ S[b] # Same => b + 1 \notin DOMAIN S

LEMMA OneSpan ==
  ASSUME NEW N \in Nat, NEW S, DOMAIN S = 1 .. N, Context \in Nat \ {0}, Len(Spans(S)) <= 1
  PROVE  \/ DOMAIN Spans(S) = 1 .. 0 /\ \A n \in DOMAIN S : S[n] = Same
         \/ \E a, b \in Nat : OneStretch(S, a, b)
<1> DEFINE shown == Shown(S)
<1>1. shown \in SUBSET (1 .. N) /\ IsFiniteSet(shown)
  <2>1. shown \in SUBSET (1 .. N)
    BY DEF Shown
  <2>2. IsFiniteSet(1 .. N)
    BY FS_Interval
  <2> HIDE DEF shown
  <2> QED BY <2>1, <2>2, FS_Subset
<1>2. \A n \in 1 .. N : S[n] # Same => n \in shown
  <2>1. \A n \in 1 .. N : n - n \in -Context .. Context
    OBVIOUS
  <2> QED BY <2>1 DEF Shown
<1>3. \A p, n \in 1 .. N : S[p] # Same /\ p - n \in {-1, 1} => n \in shown
  <2>1. -1 \in -Context .. Context /\ 1 \in -Context .. Context
    OBVIOUS
  <2> QED BY <2>1 DEF Shown
<1>4. Starts(S) = {n \in shown : n - 1 \notin shown}
  BY DEF Starts
<1> HIDE DEF shown
<1>5. ASSUME NEW p \in shown PROVE \E a \in Starts(S) : a <= p /\ \A n \in a .. p : n \in shown
  <2> DEFINE R == {m \in 1 .. p : \A n \in m .. p : n \in shown}
  <2>1. p \in 1 .. N /\ p \in R
    BY <1>1
  <2>2. R \in SUBSET (1 .. p) /\ R \in SUBSET Int /\ R # {}
    <3>1. R \in SUBSET (1 .. p) /\ R # {}
      BY <2>1
    <3>2. 1 .. p \in SUBSET Int
      BY <2>1
    <3> HIDE DEF R
    <3> QED BY <3>1, <3>2
  <2>3. IsFiniteSet(1 .. p)
    BY <2>1, FS_Interval
  <2>4. Min(R) \in R /\ \A x \in R : Min(R) <= x
    <3> HIDE DEF R
    <3>1. IsFiniteSet(R)
      BY <2>2, <2>3, FS_Subset
    <3> QED BY <2>2, <3>1, MinOf
  <2>5. PICK a : a \in R /\ \A x \in R : a <= x
    BY <2>4
  <2>6. a \in 1 .. p /\ \A n \in a .. p : n \in shown
    BY <2>5
  <2>7. a - 1 \notin shown
    <3> SUFFICES ASSUME a - 1 \in shown PROVE FALSE
      OBVIOUS
    <3>1. a - 1 \in 1 .. p
      BY <1>1, <2>1, <2>6
    <3>2. \A n \in a - 1 .. p : n \in shown
      BY <2>1, <2>6
    <3>3. a - 1 \in R
      BY <3>1, <3>2
    <3> QED BY <2>1, <2>5, <2>6, <3>3
  <2>8. a \in shown
    BY <2>1, <2>6
  <2> QED BY <1>4, <2>1, <2>6, <2>7, <2>8
<1>6. Cardinality(Starts(S)) \in Nat /\ Cardinality(Starts(S)) <= 1
      /\ DOMAIN Spans(S) = 1 .. Cardinality(Starts(S))
  BY SpansAre
<1>7. CASE Cardinality(Starts(S)) = 0
  <2>1. Starts(S) = {}
    BY <1>7, SpansAre, FS_EmptySet
  <2>2. shown = {}
    BY <1>5, <2>1
  <2> QED BY <1>2, <1>6, <1>7, <2>2
<1>8. CASE Cardinality(Starts(S)) = 1
  <2>1. PICK a : Starts(S) = {a}
    BY <1>8, SpansAre, FS_Singleton
  <2>2. a \in shown /\ a - 1 \notin shown /\ a \in 1 .. N
    BY <1>1, <1>4, <2>1
  <2>3. \A p \in shown : a <= p /\ \A n \in a .. p : n \in shown
    BY <1>5, <2>1
  <2> DEFINE E == {p \in shown : p >= a /\ p + 1 \notin shown}
             b == Min(E)
  <2>4. E \in SUBSET Int /\ IsFiniteSet(E) /\ E # {}
    <3>1. E \in SUBSET shown /\ shown \in SUBSET Int /\ shown # {}
      BY <1>1, <2>2
    <3>2. Max(shown) \in shown /\ \A x \in shown : x <= Max(shown)
      BY <1>1, <3>1, MaxOf
    <3> DEFINE m == Max(shown)
    <3>3. m \in shown /\ \A x \in shown : x <= m
      BY <3>2
    <3> HIDE DEF m
    <3>4. m \in 1 .. N /\ m + 1 \notin shown
      BY <1>1, <3>3
    <3>5. m \in E
      BY <2>2, <2>3, <3>3, <3>4
    <3> HIDE DEF E
    <3> QED BY <1>1, <3>1, <3>5, FS_Subset
  <2>5. b \in E
    <3> HIDE DEF E
    <3> QED BY <2>4, MinOf
  <2> HIDE DEF b
  <2>6. b \in 1 .. N /\ b \in shown /\ a <= b /\ b + 1 \notin shown
    BY <1>1, <2>2, <2>5
  <2>7. \A p \in shown : p <= b
    <3> SUFFICES ASSUME NEW p \in shown, p > b PROVE FALSE
      BY <1>1, <2>6
    <3>1. b + 1 \in a .. p
      BY <1>1, <2>2, <2>6
    <3> QED BY <2>3, <2>6, <3>1
  <2>8. Spans(S)[1] = <<a, b>>
    <3>1. 1 \in DOMAIN Spans(S)
      BY <1>6, <1>8
    <3>2. Ascending(Starts(S))[1] = a
      <4>1. Ascending(Starts(S)) \in [1 .. 1 -> Starts(S)]
        BY <1>8, SpansAre, AscendingIs
      <4> QED BY <2>1, <4>1
    <3> QED BY <3>1, <3>2, SpansAre DEF b, shown
  <2>9. \A n \in 1 .. N : n < a \/ n > b => S[n] = Same
    <3> SUFFICES ASSUME NEW n \in 1 .. N, n < a \/ n > b, S[n] # Same PROVE FALSE
      OBVIOUS
    <3>1. n \in shown
      BY <1>2
    <3> QED BY <2>2, <2>3, <2>6, <2>7, <3>1
  <2>10. S[a] # Same => a = 1
    <3> SUFFICES ASSUME S[a] # Same, a # 1 PROVE FALSE
      OBVIOUS
    <3>1. a - 1 \in 1 .. N /\ a - (a - 1) = 1
      BY <2>2
    <3> QED BY <1>3, <2>2, <3>1
  <2>11. S[b] # Same => b + 1 \notin DOMAIN S
    <3> SUFFICES ASSUME S[b] # Same, b + 1 \in 1 .. N PROVE FALSE
      OBVIOUS
    <3>1. b - (b + 1) = -1
      BY <2>6
    <3> QED BY <1>3, <2>6, <3>1
  <2>12. a \in Nat /\ b \in Nat /\ a \in DOMAIN S /\ b \in DOMAIN S
    BY <2>2, <2>6
  <2>13. OneStretch(S, a, b)
    BY <1>6, <1>8, <2>6, <2>8, <2>9, <2>10, <2>11, <2>12 DEF OneStretch
  <2> QED BY <2>12, <2>13
<1> QED BY <1>6, <1>7, <1>8

(* Without lines that print as names a hunk is parsed as it was printed. *)
LEMMA ParsedIs ==
  ASSUME NEW n \in Nat, NEW h, DOMAIN h.Lines = 1 .. n, \A k \in 1 .. n : h.Lines[k] \in Plainly,
         h = [OldStart |-> h.OldStart, OldCount |-> h.OldCount, NewStart |-> h.NewStart,
              NewCount |-> h.NewCount, Lines |-> h.Lines]
  PROVE  /\ ParsedHunk(h).OldStart = h.OldStart /\ ParsedHunk(h).OldCount = h.OldCount
         /\ ParsedHunk(h).NewStart = h.NewStart /\ ParsedHunk(h).NewCount = h.NewCount
         /\ DOMAIN ParsedHunk(h).Lines = 1 .. n
         /\ \A k \in 1 .. n : ParsedHunk(h).Lines[k] = h.Lines[k]
<1> DEFINE K == {k \in DOMAIN h.Lines : h.Lines[k] \in {Same, Removed, Added}}
           read == Ascending(K)
           lines == [k \in DOMAIN read |-> h.Lines[read[k]]]
<1>1. K = 1 .. n
  BY DEF Plainly
<1>2. IsFiniteSet(1 .. n) /\ Cardinality(1 .. n) = n
  BY FS_Interval
<1>3. \A x \in 1 .. n : Rank(1 .. n, x) = x
  <2> TAKE x \in 1 .. n
  <2>1. {j \in 1 .. n : j <= x} = 1 .. x
    OBVIOUS
  <2>2. Cardinality(1 .. x) = x
    BY FS_Interval
  <2> QED BY <2>1, <2>2 DEF Rank
<1>4. read \in [1 .. n -> 1 .. n] /\ \A x \in 1 .. n : read[x] = x
  <2> DEFINE I == 1 .. n
  <2>1. I \in SUBSET Int /\ IsFiniteSet(I) /\ Cardinality(I) = n
    BY <1>2
  <2>2. read = Ascending(I)
    BY <1>1
  <2>3. \A x \in I : Rank(I, x) = x
    BY <1>3
  <2> HIDE DEF I, read
  <2>4. read \in [1 .. n -> I] /\ \A x \in I : read[x] = x
    BY <2>1, <2>2, <2>3, AscendingIs
  <2> QED BY <2>4 DEF I
<1>5. ParsedHunk(h) = [h EXCEPT !.Lines = lines]
  BY DEF ParsedHunk
<1> HIDE DEF read
<1>6. DOMAIN lines = 1 .. n /\ \A k \in 1 .. n : lines[k] = h.Lines[k]
  BY <1>4
<1> HIDE DEF lines
<1> QED BY <1>5, <1>6

-----------------------------------------------------------------------------
(* A line through one hunk.                                                *)

LEMMA OffsetsAre ==
  ASSUME NEW hunks, NEW n \in {0, 1}, Len(hunks) = n, n = 1 => Grown(hunks[1]) \in Int
  PROVE  OffsetAfter(hunks)[0] = 0 /\ (n = 1 => OffsetAfter(hunks)[1] = Grown(hunks[1]))
<1> DEFINE f == [i \in 0 .. n |-> IF i = 0 THEN 0 ELSE Grown(hunks[1])]
           Is(g) == g = [i \in 0 .. Len(hunks) |->
                            IF i = 0 THEN 0 ELSE g[i - 1] + Grown(hunks[i])]
           o == CHOOSE g : Is(g)
<1>1. Is(f)
  <2>1. ASSUME NEW i \in 0 .. n
        PROVE  f[i] = IF i = 0 THEN 0 ELSE f[i - 1] + Grown(hunks[i])
    <3>1. CASE i = 0
      BY <3>1
    <3>2. CASE i # 0
      <4>1. i = 1 /\ n = 1 /\ f[0] = 0 /\ f[1] = Grown(hunks[1])
        BY <3>2
      <4> HIDE DEF f
      <4> QED BY <4>1
    <3> QED BY <3>1, <3>2
  <2>2. f = [i \in 0 .. n |-> f[i]]
    OBVIOUS
  <2> HIDE DEF f
  <2> QED BY <2>1, <2>2
<1>2. Is(o)
  <2> HIDE DEF f, Is
  <2> QED BY <1>1
<1>3. OffsetAfter(hunks) = o
  BY DEF OffsetAfter
<1> HIDE DEF o
<1>4. o[0] = 0
  BY <1>2
<1>5. n = 1 => o[1] = o[0] + Grown(hunks[1])
  <2> SUFFICES ASSUME n = 1 PROVE o[1] = o[0] + Grown(hunks[1])
    OBVIOUS
  <2>1. 1 \in 0 .. Len(hunks) /\ 1 - 1 = 0 /\ 1 # 0
    OBVIOUS
  <2>2. o[1] = IF 1 = 0 THEN 0 ELSE o[1 - 1] + Grown(hunks[1])
    BY <1>2, <2>1
  <2> QED BY <2>1, <2>2
<1> QED BY <1>3, <1>4, <1>5

LEMMA ApplyNone ==
  ASSUME NEW hunks, DOMAIN hunks = 1 .. 0, Len(hunks) = 0, NEW line \in Int
  PROVE  ApplyHunks(line, hunks) = line
<1> DEFINE reached == {i \in DOMAIN hunks : line < hunks[i].OldStart + hunks[i].OldCount}
<1>1. reached = {}
  OBVIOUS
<1>2. OffsetAfter(hunks)[0] = 0
  BY OffsetsAre
<1>3. ApplyHunks(line, hunks) = line + OffsetAfter(hunks)[Len(hunks) + 1 - 1]
  <2> HIDE DEF reached
  <2> QED BY <1>1 DEF ApplyHunks, reached
<1> QED BY <1>2, <1>3

LEMMA ApplyOne ==
  ASSUME NEW hunks, DOMAIN hunks = 1 .. 1, Len(hunks) = 1, NEW h, hunks[1] = h,
         NEW line \in Int, h.OldStart \in Int, h.OldCount \in Nat, Grown(h) \in Int
  PROVE  ApplyHunks(line, hunks) =
            IF line < h.OldStart THEN line
            ELSE IF line < h.OldStart + h.OldCount THEN WithinHunk(h, line, 0)
            ELSE line + Grown(h)
<1> DEFINE reached == {i \in DOMAIN hunks : line < hunks[i].OldStart + hunks[i].OldCount}
<1>1. OffsetAfter(hunks)[0] = 0 /\ OffsetAfter(hunks)[1] = Grown(h)
  BY OffsetsAre
<1>2. CASE line < h.OldStart + h.OldCount
  <2>1. reached = {1}
    BY <1>2
  <2>2. Min({1}) = 1
    BY DEF Min
  <2>3. ApplyHunks(line, hunks) =
            IF line < hunks[1].OldStart THEN line + OffsetAfter(hunks)[1 - 1]
            ELSE WithinHunk(hunks[1], line, OffsetAfter(hunks)[1 - 1])
    <3> HIDE DEF reached
    <3> QED BY <2>1, <2>2 DEF ApplyHunks, reached
  <2> QED BY <1>1, <1>2, <2>3
<1>3. CASE ~(line < h.OldStart + h.OldCount)
  <2>1. reached = {}
    BY <1>3
  <2>2. ApplyHunks(line, hunks) = line + OffsetAfter(hunks)[Len(hunks) + 1 - 1]
    <3> HIDE DEF reached
    <3> QED BY <2>1 DEF ApplyHunks, reached
  <2>3. ~(line < h.OldStart)
    BY <1>3
  <2> QED BY <1>1, <1>3, <2>2, <2>3
<1> QED BY <1>2, <1>3

(* O[n] is how many of the script's first n lines are of these types. *)
Counts(O, S, N, types) ==
    /\ O \in [0 .. N -> Nat] /\ O[0] = 0
    /\ \A n \in 0 .. N : O[n] = Count(S, 1, n, types)
    /\ \A n \in 1 .. N : O[n] = O[n - 1] + IF S[n] \in types THEN 1 ELSE 0
    /\ \A m \in 0 .. N : \A n \in 0 .. m :
            /\ O[n] <= O[m] /\ Count(S, n + 1, m, types) = O[m] - O[n]
            /\ (\A k \in n + 1 .. m : S[k] \in types) => O[m] - O[n] = m - n

LEMMA CountsOfScript ==
  ASSUME NEW S, NEW N \in Nat, NEW types
  PROVE  \E O : Counts(O, S, N, types)
<1> DEFINE O == [n \in 0 .. N |-> Count(S, 1, n, types)]
<1>1. \A n \in 0 .. N : O[n] = Count(S, 1, n, types)
  OBVIOUS
<1>2. \A n \in 0 .. N : Count(S, 1, n, types) \in Nat
  <2> TAKE n \in 0 .. N
  <2>1. n \in Int /\ 1 \in Int /\ 1 <= n + 1
    OBVIOUS
  <2> QED BY <2>1, CountStep
<1>3. O \in [0 .. N -> Nat]
  BY <1>2
<1> HIDE DEF O
<1>4. O[0] = 0
  <2>1. {n \in 1 .. 0 : S[n] \in types} = {}
    OBVIOUS
  <2>2. Count(S, 1, 0, types) = 0
    BY <2>1, FS_EmptySet DEF Count
  <2> QED BY <1>1, <2>2
<1>5. ASSUME NEW n \in 1 .. N PROVE O[n] = O[n - 1] + IF S[n] \in types THEN 1 ELSE 0
  <2> DEFINE m == n - 1
  <2>1. m \in Int /\ 1 \in Int /\ 1 <= m + 1 /\ m + 1 = n /\ m \in 0 .. N /\ n \in 0 .. N
    OBVIOUS
  <2> HIDE DEF m
  <2>2. Count(S, 1, m + 1, types) = Count(S, 1, m, types) + IF S[m + 1] \in types THEN 1 ELSE 0
    BY <2>1, CountStep
  <2>3. O[n] = O[m] + IF S[n] \in types THEN 1 ELSE 0
    BY <1>1, <2>1, <2>2
  <2> QED BY <2>3 DEF m
<1>6. ASSUME NEW m \in 0 .. N, NEW n \in 0 .. m
      PROVE  /\ O[n] <= O[m] /\ Count(S, n + 1, m, types) = O[m] - O[n]
             /\ (\A k \in n + 1 .. m : S[k] \in types) => O[m] - O[n] = m - n
  <2>1. /\ m \in Int /\ n \in Int /\ 1 \in Int /\ 1 <= n + 1 /\ n <= m /\ n + 1 \in Int
        /\ n + 1 <= m + 1 /\ n \in 0 .. N
    OBVIOUS
  <2>2. /\ Count(S, 1, m, types) = Count(S, 1, n, types) + Count(S, n + 1, m, types)
        /\ Count(S, n + 1, m, types) \in Nat
    <3> DEFINE one == 1
    <3>1. one \in Int /\ n \in Int /\ m \in Int /\ one <= n + 1 /\ n <= m
      BY <2>1
    <3> HIDE DEF one
    <3>2. /\ Count(S, one, m, types) = Count(S, one, n, types) + Count(S, n + 1, m, types)
          /\ Count(S, n + 1, m, types) \in Nat
      BY SMTT(30), <3>1, CountSplit
    <3> QED BY <3>2 DEF one
  <2>3. ASSUME \A k \in n + 1 .. m : S[k] \in types
        PROVE  Count(S, n + 1, m, types) = m - (n + 1) + 1
    <3> DEFINE a == n + 1
    <3>1. a \in Int /\ a <= m + 1 /\ \A k \in a .. m : S[k] \in types
      BY <2>1, <2>3
    <3> HIDE DEF a
    <3>2. Count(S, a, m, types) = m - a + 1
      BY <2>1, <3>1, CountAll
    <3> QED BY <3>2 DEF a
  <2> DEFINE C == Count(S, n + 1, m, types)
  <2>4. O[m] = O[n] + C /\ O[n] \in Nat /\ O[m] \in Nat /\ C \in Nat
    BY <1>1, <1>3, <2>1, <2>2
  <2>5. (\A k \in n + 1 .. m : S[k] \in types) => C = m - (n + 1) + 1
    BY <2>3
  <2> HIDE DEF C
  <2> DEFINE x == O[n]
             y == O[m]
  <2>6. O[n] <= O[m] /\ C = O[m] - O[n] /\ (C = m - (n + 1) + 1 => O[m] - O[n] = m - n)
    <3>1. y = x + C /\ x \in Nat /\ y \in Nat /\ C \in Nat
      BY <2>4
    <3> HIDE DEF x, y
    <3>2. x <= y /\ C = y - x /\ (C = m - (n + 1) + 1 => y - x = m - n)
      BY <2>1, <3>1
    <3> QED BY <3>2 DEF x, y
  <2> QED BY <2>5, <2>6 DEF C
<1>7. \A m \in 0 .. N : \A n \in 0 .. m :
          /\ O[n] <= O[m] /\ Count(S, n + 1, m, types) = O[m] - O[n]
          /\ (\A k \in n + 1 .. m : S[k] \in types) => O[m] - O[n] = m - n
  BY <1>6
<1> QED BY <1>1, <1>3, <1>4, <1>5, <1>7 DEF Counts

(* A script without lines that print as names, and a stretch of it.        *)
Readable(S, N) == \A n \in 1 .. N : S[n] \in Plainly

Stretch(lines, S, a, b) ==
    DOMAIN lines = 1 .. b - a + 1 /\ \A k \in 1 .. b - a + 1 : lines[k] = S[a + k - 1]

LEMMA HunkIs ==
  ASSUME NEW S, NEW N \in Nat, NEW a \in Int, NEW b \in Int, 1 <= a, a <= b, b <= N,
         Readable(S, N), NEW O, Counts(O, S, N, OldTypes), NEW W, Counts(W, S, N, NewTypes)
  PROVE  \E h : /\ h = ParsedHunk(PrintedHunk(S, <<a, b>>))
                /\ h.OldCount = O[b] - O[a - 1] /\ h.NewCount = W[b] - W[a - 1]
                /\ h.OldStart = O[a - 1] + IF h.OldCount = 0 THEN 0 ELSE 1
                /\ h.NewStart = W[a - 1] + IF h.NewCount = 0 THEN 0 ELSE 1
                /\ Stretch(h.Lines, S, a, b)
<1> DEFINE p == PrintedHunk(S, <<a, b>>)
           L == b - a + 1
           oldCount == Count(S, a, b, OldTypes)
           newCount == Count(S, a, b, NewTypes)
           lines == [n \in 1 .. L |-> S[a + n - 1]]
           oldStart == Count(S, 1, a - 1, OldTypes) + (IF oldCount = 0 THEN 0 ELSE 1)
           newStart == Count(S, 1, a - 1, NewTypes) + (IF newCount = 0 THEN 0 ELSE 1)
           q == [OldStart |-> oldStart, OldCount |-> oldCount, NewStart |-> newStart,
                 NewCount |-> newCount, Lines |-> lines]
<1>1. p = q
  BY DEF PrintedHunk
<1>2. /\ oldCount = O[b] - O[a - 1] /\ newCount = W[b] - W[a - 1]
      /\ Count(S, 1, a - 1, OldTypes) = O[a - 1] /\ Count(S, 1, a - 1, NewTypes) = W[a - 1]
  <2> DEFINE c == a - 1
  <2>1. c \in 0 .. N /\ b \in 0 .. N /\ c \in 0 .. b /\ c + 1 = a
    OBVIOUS
  <2> HIDE DEF c, oldCount, newCount
  <2>a. Count(S, c + 1, b, OldTypes) = O[b] - O[c] /\ Count(S, 1, c, OldTypes) = O[c]
    <3>1. /\ \A n \in 0 .. N : O[n] = Count(S, 1, n, OldTypes)
          /\ \A m \in 0 .. N : \A n \in 0 .. m : Count(S, n + 1, m, OldTypes) = O[m] - O[n]
      BY DEF Counts
    <3> QED BY <2>1, <3>1
  <2>b. Count(S, c + 1, b, NewTypes) = W[b] - W[c] /\ Count(S, 1, c, NewTypes) = W[c]
    <3>1. /\ \A n \in 0 .. N : W[n] = Count(S, 1, n, NewTypes)
          /\ \A m \in 0 .. N : \A n \in 0 .. m : Count(S, n + 1, m, NewTypes) = W[m] - W[n]
      BY DEF Counts
    <3> QED BY <2>1, <3>1
  <2>2. /\ Count(S, c + 1, b, OldTypes) = O[b] - O[c] /\ Count(S, c + 1, b, NewTypes) = W[b] - W[c]
        /\ Count(S, 1, c, OldTypes) = O[c] /\ Count(S, 1, c, NewTypes) = W[c]
    BY <2>a, <2>b
  <2>3. /\ oldCount = O[b] - O[c] /\ newCount = W[b] - W[c]
    BY <2>1, <2>2 DEF oldCount, newCount
  <2> QED BY <2>2, <2>3 DEF c
<1>3. L \in Nat /\ DOMAIN lines = 1 .. L /\ \A k \in 1 .. L : a + k - 1 \in 1 .. N
  OBVIOUS
<1>4. \A k \in 1 .. L : lines[k] = S[a + k - 1]
  OBVIOUS
<1> HIDE DEF oldCount, newCount, lines, L, oldStart, newStart
<1>5. /\ q.OldStart = oldStart /\ q.OldCount = oldCount /\ q.NewStart = newStart
      /\ q.NewCount = newCount /\ q.Lines = lines
  OBVIOUS
<1>6. q = [OldStart |-> q.OldStart, OldCount |-> q.OldCount, NewStart |-> q.NewStart,
           NewCount |-> q.NewCount, Lines |-> q.Lines]
  OBVIOUS
<1>7. /\ oldStart = O[a - 1] + (IF oldCount = 0 THEN 0 ELSE 1)
      /\ newStart = W[a - 1] + (IF newCount = 0 THEN 0 ELSE 1)
  BY <1>2 DEF oldStart, newStart
<1> HIDE DEF q, p
<1>8. DOMAIN q.Lines = 1 .. L /\ \A k \in 1 .. L : q.Lines[k] \in Plainly
  BY <1>3, <1>4, <1>5 DEF Readable
<1> DEFINE h == ParsedHunk(q)
<1>9. /\ h.OldStart = q.OldStart /\ h.OldCount = q.OldCount /\ h.NewStart = q.NewStart
      /\ h.NewCount = q.NewCount /\ DOMAIN h.Lines = 1 .. L
      /\ \A k \in 1 .. L : h.Lines[k] = q.Lines[k]
  <2>1. L \in Nat
    BY <1>3
  <2>2. /\ h.OldStart = q.OldStart /\ h.OldCount = q.OldCount /\ h.NewStart = q.NewStart
        /\ h.NewCount = q.NewCount /\ DOMAIN h.Lines = 1 .. L
        /\ \A k \in 1 .. L : h.Lines[k] = q.Lines[k]
    BY <1>6, <1>8, <2>1, ParsedIs, Zenon
  <2> QED BY <2>2
<1>10. h = ParsedHunk(PrintedHunk(S, <<a, b>>))
  BY <1>1 DEF p
<1> HIDE DEF h
<1>11. /\ h.OldCount = O[b] - O[a - 1] /\ h.NewCount = W[b] - W[a - 1]
       /\ h.OldStart = O[a - 1] + (IF h.OldCount = 0 THEN 0 ELSE 1)
       /\ h.NewStart = W[a - 1] + (IF h.NewCount = 0 THEN 0 ELSE 1)
       /\ DOMAIN h.Lines = 1 .. L
       /\ \A k \in 1 .. L : h.Lines[k] = S[a + k - 1]
  BY <1>2, <1>4, <1>5, <1>7, <1>9
<1> QED BY <1>10, <1>11 DEF L, Stretch

(* The line of a hunk that stands for the old line with number O[p]. *)
LEMMA InHunk ==
  ASSUME NEW S, NEW N \in Nat, NEW a \in Int, NEW b \in Int, 1 <= a, a <= b, b <= N,
         Readable(S, N), NEW O, Counts(O, S, N, OldTypes), NEW W, Counts(W, S, N, NewTypes),
         NEW h, Stretch(h.Lines, S, a, b),
         h.OldStart = O[a - 1] + 1, h.NewStart \in Int,
         NEW p \in Int, a <= p, p <= b, S[p] \in OldTypes
  PROVE  WithinHunk(h, O[p], 0) =
            IF S[p] = Same THEN h.NewStart + (W[p - 1] - W[a - 1]) ELSE 0
<1> DEFINE H == h.Lines
           L == b - a + 1
           i == O[p]
           Before(k, types) == Count(H, 1, k - 1, types)
           hits == {k \in DOMAIN H : /\ H[k] \in {Same, Removed}
                                     /\ h.OldStart + Before(k, {Same, Removed}) = i}
           k0 == p - a + 1
<1>1. L \in Nat /\ DOMAIN H = 1 .. L /\ \A k \in 1 .. L : H[k] = S[a + k - 1] /\ a + k - 1 \in 1 .. N
  BY DEF Stretch
<1>2. k0 \in 1 .. L /\ a + k0 - 1 = p /\ p \in 1 .. N
  OBVIOUS
<1>3. O \in [0 .. N -> Nat] /\ W \in [0 .. N -> Nat]
  BY DEF Counts
<1>b. \A n \in 1 .. N : S[n] \in OldTypes => O[n] = O[n - 1] + 1
  <2>1. \A n \in 1 .. N : O[n] = O[n - 1] + IF S[n] \in OldTypes THEN 1 ELSE 0
    BY DEF Counts
  <2> QED BY <2>1
<1>d. \A n \in 0 .. N : O[n] \in Nat
  BY <1>3
<1>c. \A m \in 0 .. N : \A n \in 0 .. m : O[n] <= O[m]
  BY DEF Counts
<1>4. \A k \in 1 .. L : /\ Before(k, {Same, Removed}) = O[a + k - 2] - O[a - 1]
                        /\ Before(k, {Same, Added}) = W[a + k - 2] - W[a - 1]
  <2> TAKE k \in 1 .. L
  <2> DEFINE m == a + k - 2
             c == a - 1
  <2>1. \A l \in 1 .. L : /\ H[l] \in {Same, Removed} <=> S[a + l - 1] \in OldTypes
                          /\ H[l] \in {Same, Added} <=> S[a + l - 1] \in NewTypes
    <3>1. \A l \in 1 .. L : H[l] = S[a + l - 1] /\ H[l] \in Plainly
      BY <1>1 DEF Readable
    <3> HIDE DEF H, L
    <3> QED BY <3>1, PlainTypes
  <2>2. k - 1 \in 0 .. L /\ a + (k - 1) - 1 = m /\ c + 1 = a /\ m \in 0 .. N /\ c \in 0 .. m
    OBVIOUS
  <2> HIDE DEF H, L, m, c
  <2>3. \A l \in 0 .. L : Count(H, 1, l, {Same, Removed}) = Count(S, a, a + l - 1, OldTypes)
    <3> DEFINE T == {Same, Removed}
    <3>1. Mirrors(H, T, S, OldTypes, a, L)
      BY <2>1 DEF Mirrors
    <3>2. L \in Nat /\ a \in Int
      BY <1>1
    <3> HIDE DEF T
    <3>3. \A l \in 0 .. L : Count(H, 1, l, T) = Count(S, a, a + l - 1, OldTypes)
      BY <3>1, <3>2, CountShift
    <3> QED BY <3>3 DEF T
  <2>4. \A l \in 0 .. L : Count(H, 1, l, {Same, Added}) = Count(S, a, a + l - 1, NewTypes)
    <3> DEFINE T == {Same, Added}
    <3>1. Mirrors(H, T, S, NewTypes, a, L)
      BY <2>1 DEF Mirrors
    <3>2. L \in Nat /\ a \in Int
      BY <1>1
    <3> HIDE DEF T
    <3>3. \A l \in 0 .. L : Count(H, 1, l, T) = Count(S, a, a + l - 1, NewTypes)
      BY <3>1, <3>2, CountShift
    <3> QED BY <3>3 DEF T
  <2>5. Count(S, c + 1, m, OldTypes) = O[m] - O[c]
    BY <2>2 DEF Counts
  <2>6. Count(S, c + 1, m, NewTypes) = W[m] - W[c]
    BY <2>2 DEF Counts
  <2>7. /\ Before(k, {Same, Removed}) = O[m] - O[c]
        /\ Before(k, {Same, Added}) = W[m] - W[c]
    BY <2>2, <2>3, <2>4, <2>5, <2>6
  <2> QED BY <2>7 DEF m, c
<1> HIDE DEF Before, H
<1>5. ASSUME NEW k \in 1 .. L
      PROVE  (H[k] \in {Same, Removed} /\ h.OldStart + Before(k, {Same, Removed}) = i) <=> k = k0
  <2> DEFINE n == a + k - 1
  <2>1. n \in 1 .. N /\ H[k] = S[n] /\ n - 1 = a + k - 2 /\ n - 1 \in 0 .. N /\ a - 1 \in 0 .. N
    BY <1>1
  <2>2. H[k] \in {Same, Removed} <=> S[n] \in OldTypes
    BY <2>1, PlainTypes DEF Readable
  <2>3. Before(k, {Same, Removed}) = O[n - 1] - O[a - 1]
    BY <1>4, <2>1
  <2>4. (k = k0) <=> (n = p)
    BY SMTT(30), <1>1
  <2> HIDE DEF n, k0
  <2>5. S[n] \in OldTypes => h.OldStart + Before(k, {Same, Removed}) = O[n]
    <3>1. S[n] \in OldTypes => O[n] = O[n - 1] + 1
      BY <1>b, <2>1
    <3>2. O[n - 1] \in Int /\ O[a - 1] \in Int
      BY <1>3, <2>1
    <3> DEFINE x == O[n - 1]
               y == O[a - 1]
    <3> HIDE DEF x, y
    <3>3. h.OldStart = y + 1 /\ Before(k, {Same, Removed}) = x - y /\ x \in Int /\ y \in Int
          /\ (S[n] \in OldTypes => O[n] = x + 1)
      BY <2>3, <3>1, <3>2 DEF x, y
    <3> QED BY <3>3
  <2>6. S[n] \in OldTypes /\ O[n] = O[p] => n = p
    <3> SUFFICES ASSUME S[n] \in OldTypes, O[n] = O[p], n # p PROVE FALSE
      OBVIOUS
    <3>a. S[n] \in OldTypes /\ O[n] = O[p]
      OBVIOUS
    <3>1. CASE n < p
      <4>1. p - 1 \in 0 .. N /\ n \in 0 .. p - 1
        BY <1>2, <2>1, <3>1
      <4>2. O[n] <= O[p - 1]
        BY <1>c, <4>1
      <4>3. O[p] = O[p - 1] + 1
        BY <1>2, <1>b
      <4>5. n \in 0 .. N /\ p \in 0 .. N
        BY <1>2, <2>1
      <4>4. O[p - 1] \in Nat /\ O[n] \in Nat
        BY <1>d, <4>1, <4>5
      <4> QED BY <3>a, <4>2, <4>3, <4>4
    <3>2. CASE p < n
      <4>1. n - 1 \in 0 .. N /\ p \in 0 .. n - 1
        BY <1>2, <2>1, <3>2
      <4>2. O[p] <= O[n - 1]
        BY <1>c, <4>1
      <4>3. O[n] = O[n - 1] + 1
        BY <1>b, <2>1, <3>a
      <4>5. n \in 0 .. N /\ p \in 0 .. N
        BY <1>2, <2>1
      <4>4. O[n - 1] \in Nat /\ O[p] \in Nat
        BY <1>d, <4>1, <4>5
      <4> QED BY <3>a, <4>2, <4>3, <4>4
    <3> QED BY <1>2, <2>1, <3>1, <3>2
  <2> QED BY <2>2, <2>4, <2>5, <2>6
<1>6. hits = {k0}
  <2> HIDE DEF k0, L, i
  <2> QED BY <1>1, <1>2, <1>5
<1>7. WithinHunk(h, i, 0) =
          IF H[k0] = Removed THEN 0 ELSE h.NewStart + Before(k0, {Same, Added}) + 0
  <2>1. (CHOOSE hit \in {k0} : TRUE) = k0
    OBVIOUS
  <2>2. hits # {} /\ (CHOOSE hit \in hits : TRUE) = k0
    <3> HIDE DEF hits, k0
    <3> QED BY <1>6, <2>1
  <2>3. WithinHunk(h, i, 0) =
          IF hits = {} THEN i + 0 + Grown(h)
          ELSE IF h.Lines[CHOOSE hit \in hits : TRUE] = Removed THEN 0
          ELSE h.NewStart + Before(CHOOSE hit \in hits : TRUE, {Same, Added}) + 0
    BY DEF WithinHunk, H, Before
  <2> HIDE DEF hits, k0, i
  <2> QED BY <2>2, <2>3 DEF H
<1>8. H[k0] = S[p] /\ Before(k0, {Same, Added}) = W[p - 1] - W[a - 1]
  <2>1. a + k0 - 2 = p - 1
    BY <1>2
  <2> HIDE DEF k0, L
  <2> QED BY <1>1, <1>2, <1>4, <2>1
<1>9. S[p] = Same \/ S[p] = Removed
  BY <1>2, PlainTypes DEF Readable
<1>10. W[p - 1] \in Int /\ W[a - 1] \in Int
  BY <1>2, <1>3
<1> HIDE DEF k0, i
<1>11. WithinHunk(h, i, 0) = IF S[p] = Same THEN h.NewStart + (W[p - 1] - W[a - 1]) ELSE 0
  BY <1>7, <1>8, <1>9, <1>10, TypesApart
<1> QED BY <1>11 DEF i

(* A diff in one hunk moves the line at place p of its script to the new   *)
(* number of that place, or removes it.                                    *)
LEMMA HunkMoves ==
  ASSUME NEW S, NEW N \in Nat,
         Readable(S, N), NEW O, Counts(O, S, N, OldTypes), NEW W, Counts(W, S, N, NewTypes), O[N] # 0,
         NEW a \in Int, NEW b \in Int, 1 <= a, a <= b, b <= N,
         \A n \in 1 .. N : n < a \/ n > b => S[n] = Same,
         S[a] # Same => a = 1, S[b] # Same => b = N,
         NEW hunks, DOMAIN hunks = 1 .. 1, Len(hunks) = 1,
         hunks[1] = ParsedHunk(PrintedHunk(S, <<a, b>>)),
         NEW p \in 1 .. N, S[p] \in OldTypes
  PROVE  ApplyHunks(O[p], hunks) = IF S[p] = Same THEN W[p] ELSE 0
<1>1. PICK h : /\ h = ParsedHunk(PrintedHunk(S, <<a, b>>))
               /\ h.OldCount = O[b] - O[a - 1] /\ h.NewCount = W[b] - W[a - 1]
               /\ h.OldStart = O[a - 1] + IF h.OldCount = 0 THEN 0 ELSE 1
               /\ h.NewStart = W[a - 1] + IF h.NewCount = 0 THEN 0 ELSE 1
               /\ Stretch(h.Lines, S, a, b)
  BY HunkIs
<1>2. \A n \in 0 .. N : O[n] \in Nat /\ W[n] \in Nat
  BY DEF Counts
<1>3. O[0] = 0 /\ W[0] = 0
  BY DEF Counts
<1>4. \A n \in 1 .. N : /\ S[n] \in OldTypes => O[n] = O[n - 1] + 1
                        /\ S[n] \in NewTypes => W[n] = W[n - 1] + 1
  <2>1. \A n \in 1 .. N : O[n] = O[n - 1] + IF S[n] \in OldTypes THEN 1 ELSE 0
    BY DEF Counts
  <2>2. \A n \in 1 .. N : W[n] = W[n - 1] + IF S[n] \in NewTypes THEN 1 ELSE 0
    BY DEF Counts
  <2> QED BY <2>1, <2>2
<1>5. \A m \in 0 .. N : \A n \in 0 .. m : O[n] <= O[m] /\ W[n] <= W[m]
  <2>1. \A m \in 0 .. N : \A n \in 0 .. m : O[n] <= O[m]
    BY DEF Counts
  <2>2. \A m \in 0 .. N : \A n \in 0 .. m : W[n] <= W[m]
    BY DEF Counts
  <2> QED BY <2>1, <2>2
<1>6. \A m \in 0 .. N : \A n \in 0 .. m :
          (\A k \in n + 1 .. m : S[k] = Same) => O[m] - O[n] = m - n /\ W[m] - W[n] = m - n
  <2>1. \A m \in 0 .. N : \A n \in 0 .. m :
            (\A k \in n + 1 .. m : S[k] \in OldTypes) => O[m] - O[n] = m - n
    BY DEF Counts
  <2>2. \A m \in 0 .. N : \A n \in 0 .. m :
            (\A k \in n + 1 .. m : S[k] \in NewTypes) => W[m] - W[n] = m - n
    BY DEF Counts
  <2>3. Same \in OldTypes /\ Same \in NewTypes
    BY DEF OldTypes, NewTypes
  <2> SUFFICES ASSUME NEW m \in 0 .. N, NEW n \in 0 .. m, \A k \in n + 1 .. m : S[k] = Same
               PROVE  O[m] - O[n] = m - n /\ W[m] - W[n] = m - n
    OBVIOUS
  <2>4. \A k \in n + 1 .. m : S[k] \in OldTypes /\ S[k] \in NewTypes
    BY <2>3
  <2>5. O[m] - O[n] = m - n
    BY <2>1, <2>4
  <2>6. W[m] - W[n] = m - n
    BY <2>2, <2>4
  <2> QED BY <2>5, <2>6
<1> DEFINE c == a - 1
<1>7. c \in 0 .. N /\ b \in 0 .. N /\ p \in 0 .. N /\ p \in Int /\ N \in 0 .. N /\ 0 \in 0 .. c
      /\ c \in 0 .. b /\ c + 1 = a
  OBVIOUS
<1>8. O[c] = c /\ W[c] = c
  <2>1. \A k \in 0 + 1 .. c : S[k] = Same
    OBVIOUS
  <2> HIDE DEF c
  <2>2. O[c] - O[0] = c - 0 /\ W[c] - W[0] = c - 0
    BY <1>6, <1>7, <2>1
  <2>3. O[c] \in Nat /\ W[c] \in Nat /\ c \in Int
    BY <1>2, <1>7
  <2> QED BY <1>3, <2>2, <2>3
<1>9. h.OldCount = O[b] - c /\ h.NewCount = W[b] - c
      /\ h.OldStart = c + (IF h.OldCount = 0 THEN 0 ELSE 1)
      /\ h.NewStart = c + (IF h.NewCount = 0 THEN 0 ELSE 1)
  BY <1>1, <1>8
<1>10. c <= O[b] /\ c <= W[b] /\ O[b] \in Nat /\ W[b] \in Nat
  <2> HIDE DEF c
  <2>1. O[c] <= O[b] /\ W[c] <= W[b]
    BY <1>5, <1>7
  <2>2. O[b] \in Nat /\ W[b] \in Nat
    BY <1>2, <1>7
  <2> QED BY <1>8, <2>1, <2>2
<1> HIDE DEF c
<1>11. O[b] # c
  <2> SUFFICES ASSUME O[b] = c PROVE FALSE
    OBVIOUS
  <2>1. ASSUME NEW n \in a .. b PROVE S[n] \notin OldTypes
    <3> DEFINE m == n - 1
    <3>1. n \in 1 .. N /\ n \in 0 .. N /\ m \in 0 .. N /\ c \in 0 .. m /\ n \in 0 .. b
      BY <1>7
    <3> HIDE DEF m
    <3>2. c <= O[m] /\ O[n] <= c
      BY <1>5, <1>7, <1>8, <3>1
    <3>3. O[m] \in Nat /\ O[n] \in Nat /\ c \in Int
      BY <1>2, <1>7, <3>1
    <3>4. S[n] \in OldTypes => O[n] = O[m] + 1
      BY <1>4, <3>1 DEF m
    <3> QED BY <3>2, <3>3, <3>4
  <2>2. S[a] # Same /\ S[b] # Same
    <3>1. Same \in OldTypes
      BY DEF OldTypes
    <3>2. a \in a .. b /\ b \in a .. b
      OBVIOUS
    <3> QED BY <2>1, <3>1, <3>2
  <2>3. c = 0 /\ b = N
    BY <1>7, <2>2
  <2> QED BY <2>3
<1>12. /\ h.OldStart = a /\ h.OldStart + h.OldCount = O[b] + 1
       /\ Grown(h) = W[b] - O[b]
       /\ h.OldCount \in Nat /\ h.NewCount \in Nat
  <2>1. h.OldCount # 0 /\ h.OldCount \in Nat /\ h.NewCount \in Nat
    BY <1>7, <1>9, <1>10, <1>11
  <2>2. h.OldStart = a
    BY <1>7, <1>9, <2>1
  <2>3. h.OldStart + h.OldCount = O[b] + 1
    BY <1>7, <1>9, <1>10, <2>2
  <2>4. Grown(h) = W[b] - O[b]
    BY <1>7, <1>9, <1>10 DEF Grown
  <2> QED BY <2>1, <2>2, <2>3, <2>4
<1> DEFINE i == O[p]
<1>13. i \in Nat /\ W[p] \in Nat
  BY <1>2, <1>7
<1>14. ApplyHunks(i, hunks) =
            IF i < a THEN i
            ELSE IF i < O[b] + 1 THEN WithinHunk(h, i, 0)
            ELSE i + (W[b] - O[b])
  <2>1. hunks[1] = h
    BY <1>1
  <2>2. Grown(h) \in Int /\ h.OldStart \in Int /\ i \in Int /\ h.OldCount \in Nat
    BY <1>10, <1>12, <1>13
  <2> HIDE DEF i
  <2>3. ApplyHunks(i, hunks) =
            IF i < h.OldStart THEN i
            ELSE IF i < h.OldStart + h.OldCount THEN WithinHunk(h, i, 0)
            ELSE i + Grown(h)
    BY <2>1, <2>2, ApplyOne
  <2> QED BY <1>12, <2>3
<1>15. CASE p < a
  <2>1. S[p] = Same
    BY <1>15
  <2>2. p \in 0 .. N /\ 0 \in 0 .. p /\ \A k \in 0 + 1 .. p : S[k] = Same
    BY <1>7, <1>15
  <2>3. O[p] - O[0] = p - 0 /\ W[p] - W[0] = p - 0
    BY <1>6, <2>2
  <2>4. O[p] = p /\ W[p] = p
    BY <1>3, <1>7, <1>13, <2>3
  <2>5. ApplyHunks(i, hunks) = W[p]
    BY <1>14, <1>15, <2>4
  <2> QED BY <2>1, <2>5
<1>16. CASE p > b
  <2>1. S[p] = Same
    BY <1>16
  <2>2. b \in 0 .. p /\ \A k \in b + 1 .. p : S[k] = Same
    BY <1>7, <1>16
  <2>3. O[p] - O[b] = p - b /\ W[p] - W[b] = p - b
    BY <1>6, <1>7, <2>2
  <2>4. i = O[b] + (p - b) /\ W[p] = W[b] + (p - b)
    BY <1>7, <1>10, <1>13, <2>3
  <2>5. ~(i < O[b] + 1) /\ ~(i < a) /\ i + (W[b] - O[b]) = W[p]
    <3>1. p - b >= 1 /\ p - b \in Int
      BY <1>7, <1>16
    <3> HIDE DEF i
    <3> QED BY <1>7, <1>10, <2>4, <3>1
  <2>6. ApplyHunks(i, hunks) = W[p]
    BY <1>14, <2>5
  <2> QED BY <2>1, <2>6
<1>17. CASE a <= p /\ p <= b
  <2> DEFINE m == p - 1
  <2>1. m \in 0 .. N /\ c \in 0 .. m /\ p \in 0 .. b
    BY <1>7, <1>17
  <2>2. O[p] = O[m] + 1
    BY <1>4
  <2>3. S[p] = Same => W[p] = W[m] + 1
    <3>1. Same \in NewTypes
      BY DEF NewTypes
    <3> QED BY <1>4, <3>1
  <2> HIDE DEF m
  <2>4. c <= O[m] /\ O[p] <= O[b] /\ c <= W[m] /\ W[p] <= W[b] /\ O[m] \in Nat /\ W[m] \in Nat
    BY <1>2, <1>5, <1>7, <1>8, <2>1
  <2>5. ~(i < a) /\ i < O[b] + 1
    BY <1>7, <1>10, <1>13, <2>2, <2>4
  <2>6. ApplyHunks(i, hunks) = WithinHunk(h, i, 0)
    BY <1>14, <2>5
  <2>7. WithinHunk(h, i, 0) = IF S[p] = Same THEN h.NewStart + (W[m] - W[c]) ELSE 0
    <3>1. a <= p /\ p <= b /\ p \in Int
      BY <1>17
    <3>2. Stretch(h.Lines, S, a, b)
      BY <1>1
    <3>3. h.OldStart = O[a - 1] + 1 /\ h.NewStart \in Int
      <4>1. O[a - 1] = c /\ c + 1 = a
        BY <1>7, <1>8 DEF c
      <4>2. h.NewStart \in Int
        BY <1>7, <1>9
      <4> QED BY <1>12, <4>1, <4>2
    <3>4. WithinHunk(h, O[p], 0) = IF S[p] = Same THEN h.NewStart + (W[p - 1] - W[a - 1]) ELSE 0
      BY <3>1, <3>2, <3>3, InHunk
    <3> QED BY <3>4 DEF m, c
  <2>8. S[p] = Same => h.NewStart + (W[m] - W[c]) = W[p]
    <3> SUFFICES ASSUME S[p] = Same PROVE h.NewStart + (W[m] - W[c]) = W[p]
      OBVIOUS
    <3>1. W[p] = W[m] + 1 /\ W[c] = c
      BY <1>8, <2>3
    <3>2. h.NewCount # 0
      BY <1>7, <1>9, <1>10, <1>13, <2>4, <3>1
    <3>3. h.NewStart = c + 1
      BY <1>9, <3>2
    <3> QED BY <1>7, <1>13, <2>4, <3>1, <3>3
  <2> QED BY <2>6, <2>7, <2>8
<1> QED BY <1>7, <1>15, <1>16, <1>17

-----------------------------------------------------------------------------
(* A line through the diff of two versions.                                *)

(* The hunks that are read from the diff. *)
HunksOf(old, new) ==
    LET script == Script(old, new)
        spans == Spans(script)
    IN  [k \in DOMAIN spans |-> ParsedHunk(PrintedHunk(script, spans[k]))]

LEMMA SpansLie ==
  ASSUME NEW N \in Nat, NEW S, DOMAIN S = 1 .. N, NEW k \in DOMAIN Spans(S)
  PROVE  \E a, b \in 1 .. N : Spans(S)[k] = <<a, b>>
<1> DEFINE a == Ascending(Starts(S))[k]
           E == {p \in Shown(S) : p >= a /\ p + 1 \notin Shown(S)}
<1>1. Spans(S)[k] = <<a, Min(E)>>
  BY SpansAre
<1>2. a \in Starts(S)
  <2>1. /\ Cardinality(Starts(S)) \in Nat /\ k \in 1 .. Cardinality(Starts(S))
        /\ Starts(S) \in SUBSET Int /\ IsFiniteSet(Starts(S))
    BY SpansAre
  <2>2. Ascending(Starts(S)) \in [1 .. Cardinality(Starts(S)) -> Starts(S)]
    BY <2>1, AscendingIs
  <2> QED BY <2>1, <2>2
<1>3. a \in Shown(S) /\ Shown(S) \in SUBSET (1 .. N)
  BY <1>2 DEF Starts, Shown
<1> DEFINE shown == Shown(S)
<1> HIDE DEF a, shown
<1>4. IsFiniteSet(shown) /\ shown \in SUBSET Int /\ shown # {}
  <2>1. IsFiniteSet(1 .. N)
    BY FS_Interval
  <2>2. 1 .. N \in SUBSET Int
    OBVIOUS
  <2> QED BY <1>3, <2>1, <2>2, FS_Subset DEF shown
<1>5. E # {}
  <2> DEFINE m == Max(shown)
  <2>1. m \in shown /\ \A x \in shown : x <= m
    BY <1>4, MaxOf
  <2> HIDE DEF m
  <2>2. m \in Int /\ m + 1 \notin shown /\ m >= a
    BY <1>3, <1>4, <2>1 DEF shown
  <2> QED BY <2>1, <2>2 DEF shown
<1>6. Min(E) \in E
  <2>1. E \in SUBSET shown
    BY DEF shown
  <2> HIDE DEF E
  <2> QED BY <1>4, <1>5, <2>1, FS_Subset, MinOf
<1> QED BY <1>1, <1>3, <1>6

(* What a diff prints is in the script. *)
LEMMA PrintsIs ==
  ASSUME NEW old, NEW new, Versions(old, new), NEW type, Prints(PrintedDiff(old, new), type)
  PROVE  /\ type \in OldNames => NamedOld(old, new)
         /\ type \in NewNames => NamedNew(old, new)
<1> DEFINE S == Script(old, new)
           spans == Spans(S)
<1>1. PICK N \in Nat : S \in [1 .. N -> OldTypes \cup NewTypes]
  BY ScriptIs
<1>2. PICK s, r : Merges(S, old, new, s, r)
  BY ScriptIs
<1>3. PrintedDiff(old, new).Hunks = [k \in DOMAIN spans |-> PrintedHunk(S, spans[k])]
  BY DEF PrintedDiff
<1> HIDE DEF S, spans
<1>4. PICK k \in DOMAIN spans : type \in ToSet(PrintedHunk(S, spans[k]).Lines)
  BY <1>3 DEF Prints
<1>5. DOMAIN S = 1 .. N
  BY <1>1
<1>6. PICK a \in 1 .. N, b \in 1 .. N : spans[k] = <<a, b>>
  BY <1>4, <1>5, SpansLie DEF spans
<1> DEFINE lines == [n \in 1 .. b - a + 1 |-> S[a + n - 1]]
<1>7. PrintedHunk(S, spans[k]).Lines = lines
  BY <1>6 DEF PrintedHunk
<1>8. PICK n \in 1 .. b - a + 1 : S[a + n - 1] = type
  <2>1. \E n \in DOMAIN lines : lines[n] = type
    <3> HIDE DEF lines
    <3> QED BY <1>4, <1>7 DEF ToSet
  <2> QED BY <2>1
<1>9. a + n - 1 \in DOMAIN S
  BY <1>5, <1>8
<1> QED BY <1>2, <1>8, <1>9 DEF Merges

(* What is parsed of a diff; only names are taken for names where no line  *)
(* prints as one.                                                          *)
LEMMA ParseIs ==
  ASSUME NEW output, NEW i \in DOMAIN output, NEW old, NEW new, Versions(old, new),
         output[i] = PrintedDiff(old, new)
  PROVE  /\ ParseDiffs(output)[i].Hunks = HunksOf(old, new)
         /\ new = <<>> => ParseDiffs(output)[i].Deleted
         /\ old # <<>> /\ NoPlusAdded(old, new) => ParseDiffs(output)[i].Renamed = FALSE
         /\ old # <<>> /\ new # <<>> /\ NoDashRemoved(old, new) /\ NoPlusAdded(old, new) =>
                ~ParseDiffs(output)[i].Created /\ ~ParseDiffs(output)[i].Deleted
<1> DEFINE script == Script(old, new)
           spans == Spans(script)
           printed == [k \in DOMAIN spans |-> PrintedHunk(script, spans[k])]
           parsed == [k \in DOMAIN printed |-> ParsedHunk(printed[k])]
           q == [Created |-> old = <<>>, Deleted |-> new = <<>>, Hunks |-> printed]
           e == [Created |-> q.Created \/ Prints(q, NoOldFile),
                 Deleted |-> q.Deleted \/ Prints(q, NoNewFile),
                 Renamed |-> Prints(q, NewName),
                 Hunks |-> [k \in DOMAIN q.Hunks |-> ParsedHunk(q.Hunks[k])]]
<1>1. q = PrintedDiff(old, new)
  BY DEF PrintedDiff
<1>2. ParseDiffs(output)[i] = e
  <2>1. output[i] = q
    BY <1>1
  <2> HIDE DEF q
  <2> QED BY <2>1 DEF ParseDiffs
<1>3. parsed = HunksOf(old, new)
  <2>1. DOMAIN printed = DOMAIN spans /\ \A k \in DOMAIN spans : printed[k] = PrintedHunk(script, spans[k])
    <3> HIDE DEF spans, script
    <3> QED OBVIOUS
  <2>2. parsed = [k \in DOMAIN spans |-> ParsedHunk(PrintedHunk(script, spans[k]))]
    <3> HIDE DEF spans, script, printed
    <3> QED BY <2>1
  <2> QED BY <2>2, Zenon DEF HunksOf
<1>4. q.Created = (old = <<>>) /\ q.Deleted = (new = <<>>) /\ q.Hunks = printed
  <2> HIDE DEF printed
  <2> QED OBVIOUS
<1>5. old # <<>> /\ NoPlusAdded(old, new) => ~NamedNew(old, new)
  <2>1. \A j \in DOMAIN new : new[j] \in ToSet(new)
    BY DEF ToSet
  <2> QED BY <2>1 DEF NoPlusAdded, NamedNew
<1>6. new # <<>> /\ NoDashRemoved(old, new) => ~NamedOld(old, new)
  <2>1. \A k \in DOMAIN old : old[k] \in ToSet(old)
    BY DEF ToSet
  <2> QED BY <2>1 DEF NoDashRemoved, NamedOld
<1>7. /\ Prints(q, NoOldFile) => NamedOld(old, new)
      /\ Prints(q, NoNewFile) => NamedNew(old, new)
      /\ Prints(q, NewName) => NamedNew(old, new)
  <2>1. NoOldFile \in OldNames /\ NoNewFile \in NewNames /\ NewName \in NewNames
    BY DEF OldNames, NewNames
  <2> HIDE DEF q
  <2> QED BY <1>1, <2>1, PrintsIs
<1> HIDE DEF q
<1>8. /\ e.Created = (q.Created \/ Prints(q, NoOldFile))
      /\ e.Deleted = (q.Deleted \/ Prints(q, NoNewFile))
      /\ e.Renamed = Prints(q, NewName)
      /\ e.Hunks = [k \in DOMAIN q.Hunks |-> ParsedHunk(q.Hunks[k])]
  OBVIOUS
<1>9. e.Hunks = parsed
  <2> DEFINE x == q.Hunks
             y == printed
  <2>1. x = y /\ e.Hunks = [k \in DOMAIN x |-> ParsedHunk(x[k])]
    BY <1>4, <1>8
  <2> HIDE DEF e, x, y
  <2>2. e.Hunks = [k \in DOMAIN y |-> ParsedHunk(y[k])]
    BY <2>1
  <2> QED BY <2>2 DEF y
<1> HIDE DEF e, parsed, printed, script, spans
<1>10. /\ e.Created = (old = <<>> \/ Prints(q, NoOldFile))
       /\ e.Deleted = (new = <<>> \/ Prints(q, NoNewFile))
  BY <1>4, <1>8
<1>11. /\ new = <<>> => e.Deleted
       /\ old # <<>> /\ NoPlusAdded(old, new) => e.Renamed = FALSE
       /\ old # <<>> /\ new # <<>> /\ NoDashRemoved(old, new) /\ NoPlusAdded(old, new) =>
              ~e.Created /\ ~e.Deleted
  <2>1. Prints(q, NewName) \in BOOLEAN
    BY DEF Prints
  <2> QED BY <1>5, <1>6, <1>7, <1>8, <1>10, <2>1
<1> QED BY <1>2, <1>3, <1>9, <1>11

(* A plain diff carries every kept line to its place and drops the others. *)
LEMMA DiffMoves ==
  ASSUME NEW old, NEW new, Versions(old, new), Plain(old, new), new # <<>>,
         Context \in Nat, NEW i \in DOMAIN old
  PROVE  LET next == ApplyHunks(i, HunksOf(old, new))
         IN  /\ \A j \in DOMAIN new : old[i] = new[j] => next = j
             /\ old[i] \notin ToSet(new) => next = 0
<1> DEFINE S == Script(old, new)
           hunks == HunksOf(old, new)
           spans == Spans(S)
<1>1. PICK N \in Nat : S \in [1 .. N -> OldTypes \cup NewTypes]
  BY ScriptIs
<1>2. PICK s, r : Merges(S, old, new, s, r)
  BY ScriptIs
<1>3. /\ Context \in Nat \ {0} /\ Len(Spans(S)) <= 1
      /\ NoDashRemoved(old, new) /\ NoPlusAdded(old, new)
  BY DEF Plain
<1>4. hunks = [k \in DOMAIN spans |-> ParsedHunk(PrintedHunk(S, spans[k]))]
  BY DEF HunksOf
<1>5. DOMAIN spans = 1 .. Cardinality(Starts(S)) /\ Len(spans) = Cardinality(Starts(S))
      /\ Cardinality(Starts(S)) \in Nat
  <2> HIDE DEF S
  <2>1. DOMAIN S = 1 .. N
    BY <1>1
  <2> QED BY <2>1, SpansAre
<1> HIDE DEF S, hunks, spans
<1>6. /\ DOMAIN hunks = DOMAIN spans /\ Len(hunks) = Len(spans)
      /\ \A k \in DOMAIN spans : hunks[k] = ParsedHunk(PrintedHunk(S, spans[k]))
  <2> DEFINE n == Cardinality(Starts(S))
             T == {hunks[k] : k \in 1 .. n}
  <2>1. DOMAIN hunks = 1 .. n /\ hunks \in [1 .. n -> T]
    <3> HIDE DEF n
    <3>1. DOMAIN hunks = 1 .. n
      BY <1>4, <1>5 DEF n
    <3>2. hunks = [k \in 1 .. n |-> hunks[k]]
      BY <1>4, <3>1
    <3> QED BY <3>1, <3>2
  <2>2. n \in Nat
    BY <1>5
  <2> HIDE DEF n, T
  <2>3. Len(hunks) = n
    BY <2>1, <2>2, LenIs
  <2> QED BY <1>4, <1>5, <2>1, <2>3 DEF n
<1>7. Embeds(S, old, OldTypes, s) /\ Embeds(S, new, NewTypes, r) /\ IsFile(old) /\ IsFile(new)
  BY <1>2 DEF Merges, Versions
<1>8. PICK O : Counts(O, S, N, OldTypes)
  BY CountsOfScript
<1>9. PICK W : Counts(W, S, N, NewTypes)
  BY CountsOfScript
<1>a. DOMAIN S = 1 .. N
  BY <1>1
<1>10. /\ \A k \in DOMAIN old : s[k] \in 1 .. N /\ O[s[k]] = k
       /\ O[N] = Len(old)
  <2>1. /\ \A k \in DOMAIN old : s[k] \in 1 .. N /\ Count(S, 1, s[k], OldTypes) = k
        /\ Count(S, 1, N, OldTypes) = Len(old)
    BY <1>7, <1>a, CountPlace
  <2>2. \A n \in 0 .. N : O[n] = Count(S, 1, n, OldTypes)
    BY <1>8 DEF Counts
  <2> QED BY <2>1, <2>2
<1>11. \A j \in DOMAIN new : r[j] \in 1 .. N /\ W[r[j]] = j
  <2>1. \A k \in DOMAIN new : r[k] \in 1 .. N /\ Count(S, 1, r[k], NewTypes) = k
    BY <1>7, <1>a, CountPlace
  <2>2. \A n \in 0 .. N : W[n] = Count(S, 1, n, NewTypes)
    BY <1>9 DEF Counts
  <2> QED BY <2>1, <2>2
<1> DEFINE p == s[i]
<1>12. p \in 1 .. N /\ O[p] = i /\ S[p] \in OldTypes /\ (S[p] = Same <=> old[i] \in ToSet(new))
  <2>1. S[s[i]] \in OldTypes
    <3>1. s[i] \in DOMAIN S
      BY <1>10, <1>a
    <3> QED BY <1>7, <3>1 DEF Embeds
  <2>2. S[s[i]] = Same <=> old[i] \in ToSet(new)
    BY <1>2 DEF Merges
  <2> QED BY <1>10, <2>1, <2>2
<1> HIDE DEF p
<1>13. Readable(S, N)
  <2>1. ToSet(old) \cap Dashes \subseteq ToSet(new)
    BY <1>3 DEF NoDashRemoved
  <2>2. ToSet(new) \cap Pluses \subseteq ToSet(old)
    BY <1>3 DEF NoPlusAdded
  <2>3. /\ \A k \in DOMAIN old : old[k] \in ToSet(old)
        /\ \A j \in DOMAIN new : new[j] \in ToSet(new)
    BY DEF ToSet
  <2>4. ~NamedOld(old, new) /\ ~NamedNew(old, new)
    BY <2>1, <2>2, <2>3 DEF NamedOld, NamedNew
  <2>5. \A n \in DOMAIN S : /\ S[n] \in OldTypes \cup NewTypes
                            /\ S[n] \notin OldNames /\ S[n] \notin NewNames
    BY <1>2, <2>4 DEF Merges
  <2> QED BY <1>a, <2>5, TypesApart DEF Readable, Plainly
<1>14. ApplyHunks(O[p], hunks) = IF S[p] = Same THEN W[p] ELSE 0
  <2>1. CASE DOMAIN spans = 1 .. 0 /\ \A n \in DOMAIN S : S[n] = Same
    <3>1. DOMAIN hunks = 1 .. 0 /\ Len(hunks) = 0
      <4>1. Len(hunks) = Cardinality(Starts(S)) /\ 1 .. Cardinality(Starts(S)) = 1 .. 0
        BY <1>5, <1>6, <2>1
      <4>2. Cardinality(Starts(S)) = 0
        BY <1>5, <4>1
      <4> QED BY <1>6, <2>1, <4>1, <4>2
    <3>2. O[p] \in Int
      BY <1>7, <1>12 DEF IsFile
    <3>3. ApplyHunks(O[p], hunks) = O[p]
      BY <3>1, <3>2, ApplyNone
    <3>4. S[p] = Same
      BY <1>12, <1>a, <2>1
    <3>5. O[p] = p /\ W[p] = p
      <4>1. Same \in OldTypes /\ Same \in NewTypes
        BY DEF OldTypes, NewTypes
      <4>2. p \in 0 .. N /\ 0 \in 0 .. p /\ p \in Int
            /\ \A k \in 0 + 1 .. p : S[k] \in OldTypes /\ S[k] \in NewTypes
        BY <1>12, <1>a, <2>1, <4>1
      <4>3. O[p] - O[0] = p - 0 /\ O[0] = 0 /\ O[p] \in Nat
        BY <1>8, <4>2 DEF Counts
      <4>4. W[p] - W[0] = p - 0 /\ W[0] = 0 /\ W[p] \in Nat
        BY <1>9, <4>2 DEF Counts
      <4> QED BY <4>2, <4>3, <4>4
    <3> QED BY <3>3, <3>4, <3>5
  <2>2. ASSUME NEW a \in Nat, NEW b \in Nat, OneStretch(S, a, b)
        PROVE  ApplyHunks(O[p], hunks) = IF S[p] = Same THEN W[p] ELSE 0
    <3>1. /\ 1 <= a /\ a <= b /\ b <= N /\ a \in Int /\ b \in Int
          /\ \A n \in 1 .. N : n < a \/ n > b => S[n] = Same
          /\ S[a] # Same => a = 1
          /\ S[b] # Same => b = N
      BY <1>a, <2>2 DEF OneStretch
    <3>2. DOMAIN spans = 1 .. 1 /\ spans[1] = <<a, b>>
      BY <2>2 DEF OneStretch, spans
    <3>3. DOMAIN hunks = 1 .. 1 /\ Len(hunks) = 1 /\ hunks[1] = ParsedHunk(PrintedHunk(S, <<a, b>>))
      <4>1. 1 .. Cardinality(Starts(S)) = 1 .. 1 /\ Len(hunks) = Cardinality(Starts(S))
        BY <1>5, <1>6, <3>2
      <4>2. Cardinality(Starts(S)) = 1
        BY <1>5, <4>1
      <4>3. 1 \in DOMAIN spans
        BY <3>2
      <4> QED BY <1>6, <3>2, <4>1, <4>2, <4>3
    <3>4. O[N] # 0
      BY <1>7, <1>10 DEF IsFile
    <3> QED BY <1>8, <1>9, <1>12, <1>13, <3>1, <3>3, <3>4, HunkMoves
  <2>3. \/ DOMAIN spans = 1 .. 0 /\ \A n \in DOMAIN S : S[n] = Same
        \/ \E a, b \in Nat : OneStretch(S, a, b)
    BY <1>3, <1>a, OneSpan DEF spans
  <2> QED BY <2>1, <2>2, <2>3
<1>15. ASSUME NEW j \in DOMAIN new, old[i] = new[j] PROVE ApplyHunks(i, hunks) = j
  <2>1. old[i] \in ToSet(new)
    BY <1>15 DEF ToSet
  <2>2. p = r[j]
    BY <1>2, <1>15 DEF Merges, p
  <2> QED BY <1>11, <1>12, <1>14, <2>1, <2>2
<1>16. old[i] \notin ToSet(new) => ApplyHunks(i, hunks) = 0
  BY <1>12, <1>14
<1> QED BY <1>15, <1>16 DEF hunks

-----------------------------------------------------------------------------
(* A line through the diffs of several versions.                           *)

(* Induction over data again: what is computed stays in the sets J[i].     *)
Closed(J, n, T, base, F) ==
    /\ J \in [0 .. n -> SUBSET T] /\ base \in J[0] /\ DOMAIN F = (1 .. n) \X T
    /\ \A i \in 1 .. n : \A x \in J[i - 1] : F[<<i, x>>] \in J[i]

LEMMA Walk ==
  ASSUME NEW n \in Nat, NEW T, NEW J, NEW base, NEW F, Closed(J, n, T, base, F)
  PROVE  \E f : Computes(f, n, T, base, F) /\ \A i \in 0 .. n : f[i] \in J[i]
<1> DEFINE G == [p \in (1 .. n) \X T |-> IF F[p] \in T THEN F[p] ELSE base]
<1>1. \A i \in 0 .. n : J[i] \subseteq T
  BY DEF Closed
<1>2. base \in T
  BY <1>1 DEF Closed
<1>3. G \in [(1 .. n) \X T -> T]
  BY <1>2
<1>4. \A i \in 1 .. n, x \in T :
          G[<<i, x>>] = IF F[<<i, x>>] \in T THEN F[<<i, x>>] ELSE base
  OBVIOUS
<1> HIDE DEF G
<1>e. PICK f : Computes(f, n, T, base, G)
  BY <1>2, <1>3, Recursion
<1>5. f \in [0 .. n -> T] /\ f[0] = base /\ \A i \in 1 .. n : f[i] = G[<<i, f[i - 1]>>]
  BY <1>e DEF Computes
<1> DEFINE W == {i \in 0 .. n : f[i] \in J[i]}
<1>6. 0 \in W
  BY <1>5 DEF Closed
<1>7. ASSUME NEW i \in 1 .. n, f[i - 1] \in J[i - 1]
      PROVE  f[i] = F[<<i, f[i - 1]>>] /\ f[i] \in J[i]
  <2> DEFINE x == f[i - 1]
  <2>1. x \in J[i - 1] /\ x \in T /\ f[i] = G[<<i, x>>]
    BY <1>1, <1>5, <1>7
  <2> HIDE DEF x
  <2>2. F[<<i, x>>] \in J[i] /\ F[<<i, x>>] \in T
    BY <1>1, <2>1 DEF Closed
  <2>3. f[i] = F[<<i, x>>]
    BY <1>4, <2>1, <2>2
  <2> QED BY <2>2, <2>3 DEF x
<1>8. ASSUME NEW i \in 0 .. n - 1, i \in W PROVE i + 1 \in W
  <2>1. i + 1 \in 1 .. n /\ (i + 1) - 1 = i /\ f[i] \in J[i]
    BY <1>8
  <2>2. f[i + 1] \in J[i + 1]
    BY <1>7, <2>1
  <2> QED BY <2>1, <2>2
<1> HIDE DEF W
<1>9. \A i \in 0 .. n : i \in W
  BY <1>6, <1>8, UpTo
<1>10. \A i \in 0 .. n : f[i] \in J[i]
  BY <1>9 DEF W
<1>11. \A i \in 1 .. n : f[i] = F[<<i, f[i - 1]>>]
  <2> TAKE i \in 1 .. n
  <2>1. i - 1 \in 0 .. n
    OBVIOUS
  <2> QED BY <1>7, <1>10, <2>1
<1> QED BY <1>5, <1>10, <1>11 DEF Computes

(* The diffs lead from version to version, and x, once gone, stays away.   *)
LeadsFrom(d, old, new, x) ==
    /\ Versions(old, new)
    /\ new = <<>> => d.Deleted
    /\ old # <<>> /\ new # <<>> => ~d.Created /\ ~d.Deleted /\ d.Renamed = FALSE
    /\ d.Hunks = HunksOf(old, new)
    /\ Plain(old, new) \/ new = <<>>
    /\ x \in ToSet(new) => x \in ToSet(old)

(* Where an anchor stands when the line x was followed to a version. *)
Right(at, lines, x) ==
    /\ ~at.stray
    /\ IF x \in ToSet(lines) THEN ~at.gone /\ at.line \in DOMAIN lines /\ lines[at.line] = x
       ELSE at.gone

Places == [line : Int, gone : BOOLEAN, stray : BOOLEAN]

FollowStep(start, at, d) ==
    LET next == ApplyHunks(at.line, d.Hunks)
        Gone(line) == [line |-> line, gone |-> TRUE, stray |-> at.stray]
    IN  IF at.gone THEN at
        ELSE IF d.Deleted THEN Gone(at.line)
        ELSE IF d.Created THEN Gone(start)
        ELSE [line |-> IF next = 0 THEN start ELSE next, gone |-> next = 0,
              stray |-> d.Renamed]

LEMMA FollowOne ==
  ASSUME Context \in Nat, NEW old, NEW new, NEW x, NEW d, LeadsFrom(d, old, new, x),
         NEW start \in Int, NEW at \in Places, Right(at, old, x)
  PROVE  FollowStep(start, at, d) \in Places /\ Right(FollowStep(start, at, d), new, x)
<1> DEFINE next == ApplyHunks(at.line, d.Hunks)
<1>1. /\ Versions(old, new) /\ IsFile(old) /\ IsFile(new)
      /\ new = <<>> => d.Deleted
      /\ old # <<>> /\ new # <<>> => ~d.Created /\ ~d.Deleted /\ d.Renamed = FALSE
      /\ d.Hunks = HunksOf(old, new)
      /\ Plain(old, new) \/ new = <<>>
      /\ x \in ToSet(new) => x \in ToSet(old)
  BY DEF LeadsFrom, Versions
<1>2. at.line \in Int /\ at.gone \in BOOLEAN /\ at.stray = FALSE
  BY DEF Places, Right
<1>3. FollowStep(start, at, d) =
          IF at.gone THEN at
          ELSE IF d.Deleted THEN [line |-> at.line, gone |-> TRUE, stray |-> FALSE]
          ELSE IF d.Created THEN [line |-> start, gone |-> TRUE, stray |-> FALSE]
          ELSE [line |-> IF next = 0 THEN start ELSE next, gone |-> next = 0,
                stray |-> d.Renamed]
  BY <1>2 DEF FollowStep
<1> HIDE DEF next
<1>4. CASE at.gone
  <2>1. x \notin ToSet(new)
    BY <1>1, <1>4 DEF Right
  <2> QED BY <1>3, <1>4, <2>1 DEF Right
<1>5. CASE ~at.gone /\ new = <<>>
  <2>1. FollowStep(start, at, d) = [line |-> at.line, gone |-> TRUE, stray |-> FALSE]
    BY <1>1, <1>3, <1>5
  <2>2. x \notin ToSet(new)
    BY <1>5 DEF ToSet
  <2> QED BY <1>2, <2>1, <2>2 DEF Right, Places
<1>6. CASE ~at.gone /\ new # <<>>
  <2>1. at.line \in DOMAIN old /\ old[at.line] = x
    BY <1>6 DEF Right
  <2>2. old # <<>>
    BY <2>1
  <2>3. FollowStep(start, at, d) =
            IF next = 0 THEN [line |-> start, gone |-> TRUE, stray |-> FALSE]
            ELSE [line |-> next, gone |-> FALSE, stray |-> FALSE]
    <3>1. ~d.Created /\ ~d.Deleted /\ d.Renamed = FALSE
      BY <1>1, <1>6, <2>2
    <3> QED BY <1>3, <1>6, <3>1
  <2>4. /\ \A j \in DOMAIN new : x = new[j] => next = j
        /\ x \notin ToSet(new) => next = 0
    <3>1. Plain(old, new)
      BY <1>1, <1>6
    <3>2. /\ \A j \in DOMAIN new : old[at.line] = new[j] => ApplyHunks(at.line, HunksOf(old, new)) = j
          /\ old[at.line] \notin ToSet(new) => ApplyHunks(at.line, HunksOf(old, new)) = 0
      BY <1>1, <1>6, <2>1, <3>1, DiffMoves
    <3> QED BY <1>1, <2>1, <3>2 DEF next
  <2>5. CASE x \in ToSet(new)
    <3>1. PICK j \in DOMAIN new : new[j] = x
      BY <2>5 DEF ToSet
    <3>2. next = j /\ j \in Int /\ j # 0
      BY <1>1, <2>4, <3>1 DEF IsFile
    <3>3. FollowStep(start, at, d) = [line |-> j, gone |-> FALSE, stray |-> FALSE]
      BY <2>3, <3>2
    <3> QED BY <2>5, <3>1, <3>2, <3>3 DEF Right, Places
  <2>6. CASE x \notin ToSet(new)
    <3>1. FollowStep(start, at, d) = [line |-> start, gone |-> TRUE, stray |-> FALSE]
      BY <2>3, <2>4, <2>6
    <3> QED BY <2>6, <3>1 DEF Right, Places
  <2> QED BY <2>5, <2>6
<1> QED BY <1>4, <1>5, <1>6

LEMMA FollowIs ==
  ASSUME Context \in Nat, NEW n \in Nat, NEW diffs, Len(diffs) = n, NEW V, NEW x,
         \A i \in 1 .. n : LeadsFrom(diffs[i], V[i - 1], V[i], x),
         NEW start \in Int, start \in DOMAIN V[0], V[0][start] = x
  PROVE  Follow(start, diffs) \in Places /\ Right(Follow(start, diffs), V[n], x)
<1> DEFINE T == Places
           base == [line |-> start, gone |-> FALSE, stray |-> FALSE]
           J == [i \in 0 .. n |-> {at \in T : Right(at, V[i], x)}]
           F == [p \in (1 .. n) \X T |-> FollowStep(start, p[2], diffs[p[1]])]
           Is(g) == g = [i \in 0 .. Len(diffs) |->
                            IF i = 0 THEN base ELSE FollowStep(start, g[i - 1], diffs[i])]
           at == CHOOSE g : Is(g)
<1>1. J \in [0 .. n -> SUBSET T]
  OBVIOUS
<1>2. base \in J[0]
  <2>1. x \in ToSet(V[0])
    BY DEF ToSet
  <2>2. base \in Places /\ Right(base, V[0], x)
    BY <2>1 DEF Places, Right
  <2> HIDE DEF base
  <2> QED BY <2>2
<1>3. DOMAIN F = (1 .. n) \X T
  OBVIOUS
<1>4. \A i \in 1 .. n, y \in T : F[<<i, y>>] = FollowStep(start, y, diffs[i])
  <2> HIDE DEF T
  <2> QED OBVIOUS
<1>5. \A i \in 0 .. n : J[i] = {y \in T : Right(y, V[i], x)}
  OBVIOUS
<1> HIDE DEF J, F, base, T
<1>6. ASSUME NEW i \in 1 .. n, NEW y \in J[i - 1] PROVE F[<<i, y>>] \in J[i]
  <2>1. i \in 0 .. n /\ i - 1 \in 0 .. n
    OBVIOUS
  <2>2. y \in T /\ Right(y, V[i - 1], x)
    BY <1>5, <2>1
  <2>3. LeadsFrom(diffs[i], V[i - 1], V[i], x)
    OBVIOUS
  <2>4. FollowStep(start, y, diffs[i]) \in T /\ Right(FollowStep(start, y, diffs[i]), V[i], x)
    BY <2>2, <2>3, FollowOne DEF T
  <2> QED BY <1>4, <1>5, <2>1, <2>2, <2>4
<1>e. PICK f : Computes(f, n, T, base, F) /\ \A i \in 0 .. n : f[i] \in J[i]
  <2>1. Closed(J, n, T, base, F)
    BY <1>1, <1>2, <1>3, <1>6 DEF Closed
  <2> QED BY <2>1, Walk
<1>7. /\ f \in [0 .. n -> T] /\ f[0] = base
      /\ \A i \in 1 .. n : f[i] = F[<<i, f[i - 1]>>]
      /\ \A i \in 0 .. n : f[i] \in J[i]
  BY <1>e DEF Computes
<1>8. Is(f)
  <2>1. ASSUME NEW i \in 0 .. n
        PROVE  f[i] = IF i = 0 THEN base ELSE FollowStep(start, f[i - 1], diffs[i])
    <3>1. CASE i = 0
      BY <1>7, <3>1
    <3>2. CASE i # 0
      <4>1. i \in 1 .. n /\ i - 1 \in 0 .. n
        BY <3>2
      <4>2. f[i - 1] \in T
        BY <1>7, <4>1
      <4> QED BY <1>4, <1>7, <3>2, <4>1, <4>2
    <3> QED BY <3>1, <3>2
  <2>2. f = [i \in 0 .. n |-> f[i]]
    BY <1>7
  <2> QED BY <2>1, <2>2
<1>9. Is(at)
  <2> HIDE DEF Is
  <2> QED BY <1>8
<1>10. Follow(start, diffs) = at[Len(diffs)]
  BY DEF Follow, FollowStep, base
<1> HIDE DEF at
<1> DEFINE W == {i \in 0 .. n : at[i] = f[i]}
<1>11. 0 \in W
  BY <1>7, <1>9
<1>12. ASSUME NEW i \in 0 .. n - 1, i \in W PROVE i + 1 \in W
  <2>1. i + 1 \in 0 .. n /\ i + 1 # 0 /\ (i + 1) - 1 = i /\ at[i] = f[i] /\ i + 1 \in 0 .. Len(diffs)
    BY <1>12
  <2>2. at[i + 1] = FollowStep(start, at[i], diffs[i + 1])
    BY <1>9, <2>1
  <2>3. f[i + 1] = FollowStep(start, f[i], diffs[i + 1])
    BY <1>8, <2>1
  <2> QED BY <2>1, <2>2, <2>3
<1> HIDE DEF W
<1>13. \A i \in 0 .. n : i \in W
  BY <1>11, <1>12, UpTo
<1>14. at[n] = f[n] /\ f[n] \in J[n] /\ n \in 0 .. n
  BY <1>7, <1>13 DEF W
<1> QED BY <1>5, <1>10, <1>14 DEF T

IsSeq(s) == s \in Seq({s[i] : i \in DOMAIN s})

(* An anchor lies on a commit that is there; its content hash, if it has   *)
(* one, is of the line the thread was opened on, and so is the anchor.     *)
Good(a) ==
    /\ a.commit \in DOMAIN commits
    /\ a.hash \in {NoHash, home}
    /\ a.hash # NoHash => OnHome(a)

HashInv ==
    /\ IsSeq(commits)
    /\ head \in DOMAIN commits
    /\ IsSeq(anchors)
    /\ anchors # <<>>
    /\ \A i \in DOMAIN anchors : Good(anchors[i])

LEMMA AppendIs ==
  ASSUME NEW s, IsSeq(s), NEW e
  PROVE  /\ IsSeq(Append(s, e)) /\ Append(s, e) # <<>>
         /\ DOMAIN s = 1 .. Len(s) /\ Len(s) \in Nat
         /\ DOMAIN Append(s, e) = 1 .. Len(s) + 1
         /\ \A i \in DOMAIN s : i \in DOMAIN Append(s, e) /\ Append(s, e)[i] = s[i]
         /\ \A i \in DOMAIN Append(s, e) : i \in DOMAIN s \/ i = Len(s) + 1
         /\ Append(s, e)[Len(s) + 1] = e
<1> DEFINE T == {s[i] : i \in DOMAIN s} \cup {e}
           t == Append(s, e)
<1>1. s \in Seq({s[i] : i \in DOMAIN s})
  BY DEF IsSeq
<1>2. s \in Seq(T)
  <2> DEFINE U == {s[i] : i \in DOMAIN s}
  <2>1. s \in Seq(U) /\ U \subseteq T
    BY <1>1
  <2> HIDE DEF U, T
  <2> QED BY <2>1
<1>3. e \in T
  OBVIOUS
<1> HIDE DEF T
<1>4. /\ t \in Seq(T) /\ t # <<>> /\ DOMAIN t = 1 .. Len(s) + 1
      /\ DOMAIN s = 1 .. Len(s) /\ Len(s) \in Nat
      /\ \A i \in DOMAIN s : t[i] = s[i]
      /\ t[Len(s) + 1] = e /\ Len(t) = Len(s) + 1
  BY <1>2, <1>3
<1>5. t \in Seq({t[i] : i \in DOMAIN t})
  <2> DEFINE U == {t[i] : i \in DOMAIN t}
  <2>1. \A i \in 1 .. Len(t) : t[i] \in U
    BY <1>4
  <2> HIDE DEF U, t
  <2> QED BY <1>4, <2>1
<1> HIDE DEF t
<1>6. \A i \in DOMAIN s : i \in DOMAIN t
  BY <1>4
<1>7. \A i \in DOMAIN t : i \in DOMAIN s \/ i = Len(s) + 1
  BY <1>4
<1> QED BY <1>4, <1>5, <1>6, <1>7 DEF t, IsSeq

(* Tracing drops a hash or compares it with the line it finds.             *)
LEMMA TraceDiffsGood ==
  ASSUME NEW a, a.hash \in {NoHash, home}, head \in DOMAIN commits, NEW diffs
  PROVE  Good(TraceDiffs(a, head, commits[head].lines, diffs))
<1> DEFINE at == Follow(a.line, IF a.stray THEN <<>> ELSE diffs)
           lines == commits[head].lines
           stray == a.stray \/ at.stray
           read == IF stray THEN <<>> ELSE lines
           outdated == at.gone \/ Mismatch(a, read, at.line)
           new == TraceDiffs(a, head, lines, diffs)
<1>1. /\ new.commit = head /\ new.line = at.line /\ new.stray = stray
      /\ new.hash = IF outdated \/ a.hash = NoHash THEN NoHash ELSE HashAt(read, at.line)
  BY DEF TraceDiffs
<1> HIDE DEF at, new
<1>2. ASSUME outdated \/ a.hash = NoHash PROVE Good(new)
  <2>1. new.hash = NoHash
    BY <1>1, <1>2
  <2> QED BY <1>1, <2>1 DEF Good
<1>3. ASSUME ~(outdated \/ a.hash = NoHash) PROVE Good(new)
  <2>1. new.hash = HashAt(read, at.line) /\ a.hash = home
    BY <1>1, <1>3
  <2>2. read = <<>> \/ HashAt(read, at.line) = a.hash
    BY <1>3 DEF Mismatch
  <2>3. HashAt(<<>>, at.line) = NoHash
    BY DEF HashAt
  <2>4. CASE read = <<>>
    <3>1. new.hash = NoHash
      BY <2>1, <2>3, <2>4
    <3> QED BY <1>1, <3>1 DEF Good
  <2>5. CASE read # <<>>
    <3>1. ~stray /\ read = lines
      BY <2>5
    <3>2. OnHome(new) /\ new.hash = home
      BY <1>1, <2>1, <2>2, <2>5, <3>1 DEF OnHome
    <3> QED BY <1>1, <3>2 DEF Good
  <2> QED BY <2>4, <2>5
<1> QED BY <1>2, <1>3 DEF new

LEMMA AnchorsAre ==
  ASSUME HashInv
  PROVE  /\ DOMAIN anchors = 1 .. Len(anchors) /\ Len(anchors) \in Nat \ {0}
         /\ Len(anchors) \in DOMAIN anchors /\ Last(anchors) = anchors[Len(anchors)]
         /\ Good(Last(anchors))
<1>1. anchors \in Seq({anchors[i] : i \in DOMAIN anchors}) /\ anchors # <<>>
  BY DEF HashInv, IsSeq
<1>2. DOMAIN anchors = 1 .. Len(anchors) /\ Len(anchors) \in Nat \ {0}
  <2> DEFINE U == {anchors[i] : i \in DOMAIN anchors}
  <2>1. anchors \in Seq(U)
    BY <1>1
  <2> HIDE DEF U
  <2> QED BY <1>1, <2>1
<1>3. Len(anchors) \in DOMAIN anchors
  BY <1>2
<1> QED BY <1>2, <1>3 DEF HashInv, Last

LEMMA TraceAnchorGood ==
  ASSUME NEW a, Good(a), head \in DOMAIN commits
  PROVE  Good(TraceAnchor(a, head).anchor)
<1>1. a.hash \in {NoHash, home}
  BY DEF Good
<1>2. CASE a.commit = head \/ IsAncestorOf(head, a.commit)
  BY <1>2 DEF TraceAnchor
<1>3. CASE ~(a.commit = head \/ IsAncestorOf(head, a.commit))
  <2>1. TraceAnchor(a, head).anchor
            = TraceDiffs(a, head, commits[head].lines, GetDiffs(a.commit, head))
    BY <1>3 DEF TraceAnchor, Traced
  <2> QED BY <1>1, <2>1, TraceDiffsGood
<1> QED BY <1>2, <1>3

LEMMA BacktrackGood ==
  ASSUME HashInv
  PROVE  Good(TraceWithBacktrack(head).anchor)
<1> DEFINE current == Last(anchors)
           usable == {i \in DOMAIN anchors : IsAncestorOf(anchors[i].commit, head)}
           dropped == [commit |-> head, line |-> current.line, stray |-> current.stray,
                       outdated |-> TRUE, hash |-> NoHash]
<1>1. head \in DOMAIN commits
  BY DEF HashInv
<1>2. CASE current.commit = head
  <2>1. TraceWithBacktrack(head).anchor = current
    BY <1>2 DEF TraceWithBacktrack
  <2> QED BY <2>1, AnchorsAre
<1>3. CASE current.commit # head /\ usable # {}
  <2>1. TraceWithBacktrack(head).anchor = TraceAnchor(anchors[Max(usable)], head).anchor
    BY <1>3 DEF TraceWithBacktrack
  <2>2. Max(usable) \in usable
    <3>1. usable \subseteq 1 .. Len(anchors) /\ usable \in SUBSET Int /\ Len(anchors) \in Nat
      BY AnchorsAre
    <3>2. IsFiniteSet(1 .. Len(anchors))
      BY <3>1, FS_Interval
    <3> HIDE DEF usable
    <3>3. IsFiniteSet(usable)
      BY <3>1, <3>2, FS_Subset
    <3> QED BY <1>3, <3>1, <3>3, MaxOf
  <2>3. Good(anchors[Max(usable)])
    BY <2>2 DEF HashInv
  <2> QED BY <1>1, <2>1, <2>3, TraceAnchorGood
<1>4. CASE current.commit # head /\ usable = {}
  <2>1. TraceWithBacktrack(head).anchor = dropped
    BY <1>4 DEF TraceWithBacktrack, Traced
  <2> QED BY <1>1, <2>1 DEF Good
<1> QED BY <1>2, <1>3, <1>4

(* A new anchor behind the old ones. *)
LEMMA AnchorAdded ==
  ASSUME HashInv, NEW a, Good(a), anchors' = anchors \/ anchors' = Append(anchors, a),
         UNCHANGED <<commits, head, home>>
  PROVE  HashInv'
<1>1. Good(a)' <=> Good(a)
  BY DEF Good, OnHome
<1>2. \A i \in DOMAIN anchors : Good(anchors[i])
  BY DEF HashInv
<1>3. CASE anchors' = anchors
  BY <1>3 DEF HashInv, Good, OnHome
<1>4. CASE anchors' = Append(anchors, a)
  <2>1. IsSeq(anchors') /\ anchors' # <<>>
    BY <1>4, AppendIs DEF HashInv
  <2>2. ASSUME NEW i \in DOMAIN anchors' PROVE Good(anchors'[i])
    <3>1. CASE i \in DOMAIN anchors
      BY <1>2, <1>4, <3>1, AppendIs DEF HashInv
    <3>2. CASE i = Len(anchors) + 1
      BY <1>4, <3>2, AppendIs DEF HashInv
    <3> QED BY <1>4, <2>2, <3>1, <3>2, AppendIs DEF HashInv
  <2>3. IsSeq(commits)' /\ head' \in DOMAIN commits'
    BY DEF HashInv, IsSeq
  <2>4. IsSeq(anchors)'
    BY <2>1 DEF IsSeq
  <2>5. ASSUME NEW i \in DOMAIN anchors' PROVE Good(anchors[i])'
    BY <2>2 DEF Good, OnHome
  <2> QED BY <2>1, <2>3, <2>4, <2>5 DEF HashInv
<1> QED BY <1>3, <1>4

-----------------------------------------------------------------------------
(* What the history and the files of its commits are like.                 *)

Follows(c, p) ==
    /\ History(c) = History(p) \cup {c}
    /\ commits[c].patch = PrintedDiff(commits[p].lines, commits[c].lines)
    /\ commits[c].plain = Plain(commits[p].lines, commits[c].lines)
    /\ home \in ToSet(commits[c].lines) => home \in ToSet(commits[p].lines)

HistoryInv ==
    \A c \in DOMAIN commits :
        /\ History(c) \subseteq 1 .. c /\ c \in History(c) /\ 1 \in History(c)
        /\ \A b \in History(c) : History(b) = History(c) \cap 1 .. b
        /\ c = 1 \/ \E p \in 1 .. c - 1 : Follows(c, p)

(* The lines of a file were typed before the n-th commit. *)
Older(f, n) == \A i \in DOMAIN f : f[i][1] \in 0 .. n - 1

FilesInv ==
    /\ \A c \in DOMAIN commits :
            /\ IsFile(commits[c].lines) /\ Older(commits[c].lines, Len(commits))
            /\ SameOrder(commits[c].lines, tree)
            /\ \A d \in DOMAIN commits : SameOrder(commits[c].lines, commits[d].lines)
    /\ IsFile(tree) /\ Older(tree, Len(commits) + 1)
    /\ home[1] = 0 /\ home # NoHash
    /\ home \in ToSet(tree) => home \in ToSet(commits[head].lines)

LEMMA CommitsAre ==
  ASSUME HashInv
  PROVE  DOMAIN commits = 1 .. Len(commits) /\ Len(commits) \in Nat \ {0} /\ head \in DOMAIN commits
<1> DEFINE U == {commits[i] : i \in DOMAIN commits}
<1>1. commits \in Seq(U) /\ head \in DOMAIN commits
  BY DEF HashInv, IsSeq
<1> HIDE DEF U
<1>2. DOMAIN commits = 1 .. Len(commits) /\ Len(commits) \in Nat
  BY <1>1
<1> QED BY <1>1, <1>2

(* The commits from an ancestor on: each follows the one before it.        *)
LEMMA PathIs ==
  ASSUME HashInv, HistoryInv, NEW to \in DOMAIN commits, NEW from \in History(to), from # to
  PROVE  LET K == History(to) \ History(from)
             r == Ascending(K)
             n == Cardinality(K)
         IN  /\ n \in Nat \ {0} /\ r \in [1 .. n -> DOMAIN commits] /\ r[n] = to
             /\ Follows(r[1], from)
             /\ \A i \in 2 .. n : Follows(r[i], r[i - 1])
<1> DEFINE K == History(to) \ History(from)
           r == Ascending(K)
           n == Cardinality(K)
<1>1. DOMAIN commits = 1 .. Len(commits) /\ Len(commits) \in Nat
  BY CommitsAre
<1>2. /\ \A c \in DOMAIN commits : History(c) \subseteq 1 .. c /\ c \in History(c) /\ 1 \in History(c)
      /\ \A c \in DOMAIN commits : \A b \in History(c) : History(b) = History(c) \cap 1 .. b
      /\ \A c \in DOMAIN commits : c = 1 \/ \E p \in 1 .. c - 1 : Follows(c, p)
  BY DEF HistoryInv
<1>3. /\ from \in DOMAIN commits /\ from \in 1 .. to
      /\ \A b \in History(to) : b \in DOMAIN commits /\ b \in 1 .. to
  BY <1>1, <1>2
<1>4. K \in SUBSET Int /\ IsFiniteSet(K) /\ K \in SUBSET DOMAIN commits
  <2>1. K \in SUBSET (1 .. to)
    BY <1>3
  <2>2. IsFiniteSet(1 .. to) /\ to \in Int
    BY <1>1, FS_Interval
  <2>3. K \in SUBSET Int /\ K \in SUBSET DOMAIN commits
    BY <1>1, <1>3, <2>1
  <2> HIDE DEF K
  <2> QED BY <2>1, <2>2, <2>3, FS_Subset
<1>5. to \in K
  <2>1. to \notin History(from)
    <3>1. History(from) \subseteq 1 .. from
      BY <1>2, <1>3
    <3> QED BY <1>1, <1>3, <3>1
  <2> QED BY <1>2, <2>1
<1>6. \A c \in K : c \in History(to) /\ c \notin History(from)
  OBVIOUS
<1>7. \A c \in History(to) : c \notin History(from) => c \in K
  OBVIOUS
<1> HIDE DEF K
<1>8. /\ n \in Nat /\ r \in [1 .. n -> K] /\ Rising(r)
      /\ \A x \in K : Rank(K, x) \in 1 .. n /\ r[Rank(K, x)] = x
      /\ \A i \in 1 .. n : Rank(K, r[i]) = i
  BY <1>4, AscendingIs
<1>9. \A x, y \in K : x < y => Rank(K, x) < Rank(K, y)
  BY <1>4, RankRises
<1> HIDE DEF r, n
<1>10. \A i \in 1 .. n : r[i] \in K /\ r[i] \in Int /\ r[i] \in DOMAIN commits
  BY <1>1, <1>4, <1>8
<1>11. n \in Nat \ {0}
  BY <1>5, <1>8
<1>12. \A i, j \in 1 .. n : i < j => r[i] < r[j]
  <2>1. DOMAIN r = 1 .. n
    BY <1>8
  <2> QED BY <1>8, <2>1 DEF Rising
<1>13. r[n] = to
  <2>1. r[n] \in K /\ r[n] \in Int
    BY <1>10, <1>11
  <2>2. r[n] <= to
    BY <1>1, <1>3, <1>6, <2>1
  <2>3. ~(r[n] < to)
    <3> SUFFICES ASSUME r[n] < to PROVE FALSE
      OBVIOUS
    <3>1. Rank(K, r[n]) < Rank(K, to)
      BY <1>5, <1>9, <2>1
    <3>2. Rank(K, r[n]) = n /\ Rank(K, to) \in 1 .. n
      BY <1>5, <1>8, <1>11
    <3> QED BY <1>11, <3>1, <3>2
  <2> QED BY <1>1, <2>1, <2>2, <2>3
<1>14. ASSUME NEW c \in K
       PROVE  \E p \in DOMAIN commits :
                 /\ Follows(c, p) /\ p < c /\ p \in History(to)
                 /\ \A x \in History(to) : x < c => x \in History(p)
  <2>1. c \in DOMAIN commits /\ c \in History(to) /\ c \in Int /\ c # 1
    <3>1. 1 \in History(from)
      BY <1>2, <1>3
    <3> QED BY <1>1, <1>3, <1>6, <3>1
  <2>2. PICK p \in 1 .. c - 1 : Follows(c, p)
    BY <1>2, <2>1
  <2>3. p \in DOMAIN commits /\ p < c /\ p \in Int
    BY <1>1, <2>1
  <2>4. History(c) = History(p) \cup {c} /\ History(c) = History(to) \cap 1 .. c
    BY <1>2, <2>1, <2>2 DEF Follows
  <2>5. p \in History(to)
    <3>1. p \in History(p)
      BY <1>2, <2>3
    <3> QED BY <2>4, <3>1
  <2>6. ASSUME NEW x \in History(to), x < c PROVE x \in History(p)
    <3>1. x \in 1 .. c /\ x # c
      BY <1>1, <1>3, <2>1, <2>6
    <3> QED BY <2>4, <3>1
  <2> QED BY <2>2, <2>3, <2>5, <2>6
<1>15. Follows(r[1], from)
  <2>1. r[1] \in K /\ 1 \in 1 .. n
    BY <1>10, <1>11
  <2>2. PICK p \in DOMAIN commits :
                 /\ Follows(r[1], p) /\ p < r[1] /\ p \in History(to)
                 /\ \A x \in History(to) : x < r[1] => x \in History(p)
    BY <1>14, <2>1
  <2>3. p \notin K
    <3> SUFFICES ASSUME p \in K PROVE FALSE
      OBVIOUS
    <3>1. Rank(K, p) < Rank(K, r[1])
      BY <1>9, <2>1, <2>2
    <3>2. Rank(K, r[1]) = 1 /\ Rank(K, p) \in 1 .. n
      BY <1>8, <2>1
    <3> QED BY <1>11, <3>1, <3>2
  <2>4. p \in History(from)
    BY <1>7, <2>2, <2>3
  <2>5. p <= from /\ p \in Int /\ from \in Int
    BY <1>1, <1>2, <1>3, <2>4
  <2>6. from < r[1]
    <3> SUFFICES ASSUME ~(from < r[1]) PROVE FALSE
      OBVIOUS
    <3>1. r[1] \in 1 .. from
      BY <1>1, <1>10, <2>1, <2>5
    <3>2. History(from) = History(to) \cap 1 .. from
      BY <1>2
    <3> QED BY <1>6, <2>1, <3>1, <3>2
  <2>7. from \in History(p)
    BY <2>2, <2>6
  <2>8. from <= p
    BY <1>1, <1>2, <2>5, <2>7
  <2>9. p = from
    BY <2>5, <2>8
  <2> QED BY <2>2, <2>9
<1>16. ASSUME NEW i \in 2 .. n PROVE Follows(r[i], r[i - 1])
  <2> DEFINE j == i - 1
  <2>1. r[i] \in K /\ i \in 1 .. n /\ j \in 1 .. n /\ r[j] \in K /\ r[j] < r[i] /\ i \in Int
    <3>1. i \in 1 .. n /\ j \in 1 .. n /\ j < i
      BY <1>11
    <3> HIDE DEF j
    <3> QED BY <1>10, <1>12, <3>1
  <2> HIDE DEF j
  <2>2. PICK p \in DOMAIN commits :
                 /\ Follows(r[i], p) /\ p < r[i] /\ p \in History(to)
                 /\ \A x \in History(to) : x < r[i] => x \in History(p)
    BY <1>14, <2>1
  <2>3. r[j] \in History(p)
    BY <1>6, <2>1, <2>2
  <2>4. r[j] <= p /\ p \in Int /\ r[j] \in Int
    BY <1>1, <1>2, <1>10, <2>1, <2>2, <2>3
  <2>5. p \in K
    <3> SUFFICES ASSUME p \in History(from) PROVE FALSE
      BY <1>7, <2>2
    <3>1. History(p) = History(from) \cap 1 .. p
      BY <1>2, <1>3
    <3> QED BY <1>6, <2>1, <2>3, <3>1
  <2>6. Rank(K, p) \in 1 .. n /\ r[Rank(K, p)] = p
    BY <1>8, <2>5
  <2>7. Rank(K, p) < i
    <3>1. Rank(K, p) < Rank(K, r[i])
      BY <1>9, <2>1, <2>2, <2>5
    <3> QED BY <1>8, <2>1, <3>1
  <2>8. p <= r[j]
    <3> DEFINE k == Rank(K, p)
    <3>1. k \in 1 .. n /\ r[k] = p /\ k < i
      BY <2>6, <2>7
    <3> HIDE DEF k
    <3>2. k < j \/ k = j
      BY <1>11, <2>1, <3>1 DEF j
    <3>3. k < j => r[k] < r[j]
      BY <1>12, <2>1, <3>1
    <3> QED BY <2>4, <3>1, <3>2, <3>3
  <2>9. p = r[j]
    BY <2>4, <2>8
  <2> QED BY <2>2, <2>9 DEF j
<1>17. r \in [1 .. n -> DOMAIN commits]
  BY <1>4, <1>8
<1> QED BY <1>11, <1>13, <1>15, <1>16, <1>17 DEF r, n, K

-----------------------------------------------------------------------------
(* An anchor through the diffs.                                            *)

(* Diffs that lead a line through versions of a file. *)
(* What is read of a diff that is plain, or that ends in no file. *)
ReadAs(d, old, new) ==
    /\ new = <<>> => d.Deleted
    /\ old # <<>> /\ new # <<>> => ~d.Created /\ ~d.Deleted /\ d.Renamed = FALSE
    /\ d.Hunks = HunksOf(old, new)

LEMMA ParsedAs ==
  ASSUME NEW output, NEW i \in DOMAIN output, NEW old, NEW new, Versions(old, new),
         output[i] = PrintedDiff(old, new), Plain(old, new) \/ new = <<>>
  PROVE  ReadAs(ParseDiffs(output)[i], old, new)
<1> DEFINE d == ParseDiffs(output)[i]
<1>1. /\ d.Hunks = HunksOf(old, new)
      /\ new = <<>> => d.Deleted
      /\ old # <<>> /\ NoPlusAdded(old, new) => d.Renamed = FALSE
      /\ old # <<>> /\ new # <<>> /\ NoDashRemoved(old, new) /\ NoPlusAdded(old, new) =>
             ~d.Created /\ ~d.Deleted
  BY ParseIs
<1> HIDE DEF d
<1>2. new # <<>> => NoDashRemoved(old, new) /\ NoPlusAdded(old, new)
  BY DEF Plain
<1>3. ReadAs(d, old, new)
  BY <1>1, <1>2 DEF ReadAs
<1> QED BY <1>3 DEF d

Leads(diffs, V, n) == \A i \in 1 .. n : LeadsFrom(diffs[i], V[i - 1], V[i], home)

LEMMA RangeLeads ==
  ASSUME HashInv, HistoryInv, FilesInv, PlainHistory,
         NEW to \in DOMAIN commits, NEW from \in History(to), from # to
  PROVE  \E n, V :
            /\ n \in Nat /\ Len(GetDiffs(from, to)) = n
            /\ V[0] = commits[from].lines /\ V[n] = commits[to].lines
            /\ Leads(GetDiffs(from, to), V, n)
<1> DEFINE K == History(to) \ History(from)
           r == Ascending(K)
           n == Cardinality(K)
           output == [i \in DOMAIN r |-> commits[r[i]].patch]
           diffs == ParseDiffs(output)
           V == [i \in 0 .. n |-> commits[IF i = 0 THEN from ELSE r[i]].lines]
<1>1. GetDiffs(from, to) = diffs
  BY DEF GetDiffs
<1>2. /\ n \in Nat \ {0} /\ r \in [1 .. n -> DOMAIN commits] /\ r[n] = to
      /\ Follows(r[1], from)
      /\ \A i \in 2 .. n : Follows(r[i], r[i - 1])
  BY PathIs
<1>3. from \in DOMAIN commits
  <2>1. from \in 1 .. to
    BY DEF HistoryInv
  <2> QED BY <2>1, CommitsAre
<1> HIDE DEF r, n
<1>4. /\ V[0] = commits[from].lines
      /\ \A i \in 1 .. n : V[i] = commits[r[i]].lines
  BY <1>2
<1>5. DOMAIN output = 1 .. n /\ \A i \in 1 .. n : output[i] = commits[r[i]].patch
  BY <1>2
<1> HIDE DEF V, output
<1>6. Len(diffs) = n
  <2> DEFINE T == {diffs[i] : i \in 1 .. n}
  <2>1. DOMAIN diffs = 1 .. n
    BY <1>5 DEF ParseDiffs
  <2>2. diffs = [i \in 1 .. n |-> diffs[i]]
    BY <1>5 DEF ParseDiffs
  <2> HIDE DEF diffs
  <2>3. diffs \in [1 .. n -> T]
    BY <2>1, <2>2
  <2> HIDE DEF T
  <2> QED BY <1>2, <2>3, LenIs
<1>7. ASSUME NEW i \in 1 .. n PROVE LeadsFrom(diffs[i], V[i - 1], V[i], home)
  <2> DEFINE p == IF i = 1 THEN from ELSE r[i - 1]
             c == r[i]
  <2>1. c \in DOMAIN commits /\ p \in DOMAIN commits /\ V[i] = commits[c].lines
        /\ V[i - 1] = commits[p].lines /\ Follows(c, p)
    <3>1. CASE i = 1
      BY <1>2, <1>3, <1>4, <3>1
    <3>2. CASE i # 1
      <4>1. i - 1 \in 1 .. n /\ i \in 2 .. n /\ p = r[i - 1]
        BY <1>2, <3>2
      <4> HIDE DEF p
      <4> QED BY <1>2, <1>4, <4>1
    <3> QED BY <3>1, <3>2
  <2>a. output[i] = commits[c].patch /\ i \in DOMAIN output
    BY <1>5
  <2> HIDE DEF p, c, diffs
  <2> DEFINE old == commits[p].lines
             new == commits[c].lines
  <2>2. Versions(old, new)
    BY <2>1 DEF FilesInv, Versions
  <2>3. Plain(old, new)
    <3>1. commits[c].plain
      BY <2>1 DEF PlainHistory
    <3> QED BY <2>1, <3>1 DEF Follows
  <2>4. output[i] = PrintedDiff(old, new) /\ (home \in ToSet(new) => home \in ToSet(old))
    BY <2>1, <2>a DEF Follows
  <2> HIDE DEF old, new
  <2>5. ReadAs(diffs[i], old, new)
    <3>1. output[i] = PrintedDiff(old, new) /\ i \in DOMAIN output
      BY <2>4, <2>a
    <3>2. ReadAs(ParseDiffs(output)[i], old, new)
      BY <2>2, <2>3, <3>1, ParsedAs
    <3> QED BY <3>2, Zenon DEF diffs
  <2>6. LeadsFrom(diffs[i], old, new, home)
    BY <2>2, <2>3, <2>4, <2>5 DEF LeadsFrom, ReadAs
  <2> QED BY <2>1, <2>6 DEF old, new
<1>8. Leads(diffs, V, n)
  <2> HIDE DEF diffs
  <2> QED BY <1>7 DEF Leads
<1> QED BY <1>1, <1>2, <1>4, <1>6, <1>8

Carried(new, target, lines) ==
    /\ new.commit = target
    /\ IF home \in ToSet(lines)
       THEN ~new.outdated /\ ~new.stray /\ HashAt(lines, new.line) = home ELSE new.outdated

(* Such diffs carry an anchor that is on its line to where the line is, or *)
(* give it up.                                                             *)
LEMMA TraceDiffsRight ==
  ASSUME HistoryAssumption, NEW a, a.hash = NoHash \/ a.hash = home, ~a.stray,
         NEW n \in Nat, NEW V, NEW diffs, Len(diffs) = n, Leads(diffs, V, n),
         IsFile(V[0]), HashAt(V[0], a.line) = home, home # NoHash, NEW target
  PROVE  Carried(TraceDiffs(a, target, V[n], diffs), target, V[n])
<1> DEFINE at == Follow(a.line, diffs)
           new == TraceDiffs(a, target, V[n], diffs)
           read == IF at.stray THEN <<>> ELSE V[n]
           outdated == at.gone \/ Mismatch(a, read, at.line)
<1>1. /\ new.commit = target /\ new.line = at.line /\ new.outdated = outdated
      /\ new.stray = (a.stray \/ at.stray)
  BY DEF TraceDiffs
<1>2. Context \in Nat
  BY DEF HistoryAssumption
<1>3. a.line \in DOMAIN V[0] /\ V[0][a.line] = home
  BY DEF HashAt
<1>4. a.line \in Int
  BY <1>3 DEF IsFile
<1> HIDE DEF new
<1>5. at \in Places /\ Right(at, V[n], home)
  BY <1>2, <1>3, <1>4, FollowIs DEF Leads
<1> HIDE DEF at
<1>b. ~at.stray /\ read = V[n]
  BY <1>5 DEF Right
<1> HIDE DEF read
<1>6. CASE home \in ToSet(V[n])
  <2>1. ~at.gone /\ at.line \in DOMAIN V[n] /\ V[n][at.line] = home
    BY <1>5, <1>6 DEF Right
  <2>2. HashAt(V[n], at.line) = home
    BY <2>1 DEF HashAt
  <2>3. ~Mismatch(a, read, at.line)
    BY <1>b, <2>2 DEF Mismatch
  <2> QED BY <1>1, <1>b, <1>6, <2>1, <2>2, <2>3 DEF new, Carried
<1>7. CASE home \notin ToSet(V[n])
  <2>1. at.gone
    BY <1>5, <1>7 DEF Right
  <2> QED BY <1>1, <1>7, <2>1 DEF new, Carried
<1> QED BY <1>6, <1>7 DEF new

-----------------------------------------------------------------------------
(* The anchors.                                                            *)

OnItsLine(a) ==
    IF a.outdated THEN home \notin ToSet(commits[a.commit].lines) ELSE OnHome(a)

(* Only the last anchor may be given up; the first one is on the first     *)
(* commit, so that there is always one on the way to HEAD.                 *)
RightInv ==
    /\ \A i \in DOMAIN anchors : i + 1 \in DOMAIN anchors => ~anchors[i].outdated
    /\ anchors[1].commit = 1
    /\ IsSeq(comment) /\ \A i \in DOMAIN comment : i = 1 /\ Good(comment[i])
    /\ PlainHistory /\ ~askew =>
            /\ \A i \in DOMAIN anchors : OnItsLine(anchors[i])
            /\ \A i \in DOMAIN comment : comment[i].outdated \/ OnHome(comment[i])

TraceInv == HashInv /\ HistoryInv /\ FilesInv /\ RightInv

(* One diff that names no other file leads to none. *)
KeepsName(diffs) == Len(diffs) \in {0, 1} /\ (Len(diffs) = 1 => diffs[1].Renamed = FALSE)

LEMMA NeverStray ==
  ASSUME NEW start, NEW diffs, KeepsName(diffs)
  PROVE  Follow(start, diffs).stray = FALSE
<1>0. Len(diffs) \in {0, 1} /\ (Len(diffs) = 1 => diffs[1].Renamed = FALSE)
  BY DEF KeepsName
<1> DEFINE base == [line |-> start, gone |-> FALSE, stray |-> FALSE]
           Is(g) == g = [i \in 0 .. Len(diffs) |->
                            IF i = 0 THEN base ELSE FollowStep(start, g[i - 1], diffs[i])]
           f == [i \in 0 .. Len(diffs) |->
                    IF i = 0 THEN base ELSE FollowStep(start, base, diffs[i])]
           at == CHOOSE g : Is(g)
<1>1. Is(f)
  <2>1. \A i \in 0 .. Len(diffs) : i # 0 => i - 1 = 0 /\ i - 1 \in 0 .. Len(diffs)
    <3>1. \A l \in {0, 1} : \A i \in 0 .. l : i # 0 => i - 1 = 0 /\ i - 1 \in 0 .. l
      OBVIOUS
    <3> QED BY <1>0, <3>1
  <2>2. \A i \in 0 .. Len(diffs) : i # 0 => f[i - 1] = base
    <3> HIDE DEF base
    <3> QED BY <2>1
  <2> HIDE DEF base
  <2> QED BY <2>2
<1>2. Is(at)
  <2> HIDE DEF Is
  <2> QED BY <1>1
<1>3. Follow(start, diffs) = at[Len(diffs)]
  BY DEF Follow, FollowStep
<1> HIDE DEF at
<1>4. base.stray = FALSE
  OBVIOUS
<1>5. CASE Len(diffs) = 0
  <2> HIDE DEF base
  <2>1. at[0] = base
    BY <1>2, <1>5
  <2> QED BY <1>3, <1>4, <1>5, <2>1
<1>6. CASE Len(diffs) = 1
  <2>1. at[0] = base /\ at[1] = FollowStep(start, at[0], diffs[1])
    <3> HIDE DEF base
    <3> QED BY <1>2, <1>6
  <2>2. FollowStep(start, base, diffs[1]).stray = FALSE
    BY <1>0, <1>6 DEF FollowStep
  <2> QED BY <1>3, <1>6, <2>1, <2>2
<1> QED BY <1>0, <1>5, <1>6

LEMMA ViewRight ==
  ASSUME HistoryAssumption, HashInv, FilesInv PROVE ViewOnLine
<1> DEFINE a == Last(anchors)
           view == TraceToWorkingTree(a)
           lines == commits[a.commit].lines
           diffs == GetWorkingTreeDiffs(a.commit)
           plain == Plain(lines, tree)
<1>1. Good(a)
  BY AnchorsAre
<1> HIDE DEF a
<1> SUFFICES ASSUME OnHome(a), plain \/ (a.hash # NoHash /\ NoPlusAdded(lines, tree))
             PROVE  IF home \in ToSet(tree)
                    THEN plain => ~view.outdated /\ tree[view.line] = home
                    ELSE view.outdated
  BY DEF ViewOnLine, a
<1>2. /\ a.commit \in DOMAIN commits /\ a.hash \in {NoHash, home} /\ home # NoHash
      /\ HashAt(lines, a.line) = home /\ ~a.stray
  BY <1>1 DEF Good, OnHome, FilesInv
<1>3. IsFile(lines) /\ IsFile(tree) /\ SameOrder(lines, tree)
  BY <1>2 DEF FilesInv
<1>4. home \in ToSet(lines)
  BY <1>2 DEF HashAt, ToSet
<1>5. view = TraceDiffs(a, WorkingTree, tree, diffs)
  BY DEF TraceToWorkingTree
<1>a. /\ lines # <<>> /\ Versions(lines, tree)
  BY <1>3, <1>4 DEF Versions, ToSet
<1> DEFINE output == IF lines = tree THEN <<>> ELSE <<PrintedDiff(lines, tree)>>
           n == IF lines = tree THEN 0 ELSE 1
<1>b. diffs = ParseDiffs(output)
  BY DEF GetWorkingTreeDiffs
<1>c. /\ n \in {0, 1} /\ DOMAIN output = 1 .. n /\ Len(diffs) = n
      /\ n = 1 => output[1] = PrintedDiff(lines, tree)
  <2>1. n \in Nat /\ DOMAIN output = 1 .. n /\ (n = 1 => output[1] = PrintedDiff(lines, tree))
    <3> DEFINE d == PrintedDiff(lines, tree)
    <3>1. output = IF lines = tree THEN <<>> ELSE <<d>>
      OBVIOUS
    <3> HIDE DEF d, output, lines
    <3>2. CASE lines = tree
      BY <3>1, <3>2
    <3>3. CASE lines # tree
      <4>1. DOMAIN <<d>> = 1 .. 1 /\ <<d>>[1] = d
        OBVIOUS
      <4>2. output = <<d>> /\ n = 1
        BY <3>1, <3>3
      <4> HIDE DEF n
      <4>3. output[1] = PrintedDiff(lines, tree)
        <5>1. output[1] = d
          BY <4>1, <4>2
        <5> QED BY <5>1 DEF d
      <4> QED BY <4>1, <4>2, <4>3
    <3> QED BY <3>2, <3>3 DEF d
  <2>3. n \in {0, 1}
    OBVIOUS
  <2> HIDE DEF output, n, diffs
  <2>2. Len(diffs) = n
    <3> DEFINE T == {diffs[i] : i \in 1 .. n}
    <3>1. DOMAIN diffs = 1 .. n /\ diffs = [i \in 1 .. n |-> diffs[i]]
      BY <1>b, <2>1 DEF ParseDiffs
    <3>2. diffs \in [1 .. n -> T]
      BY <3>1
    <3> HIDE DEF T
    <3> QED BY <2>1, <3>2, LenIs
  <2> QED BY <2>1, <2>2, <2>3
<1>6. CASE plain \/ tree = <<>>
  <2> DEFINE V == [i \in 0 .. 1 |-> IF i = 0 THEN lines ELSE tree]
  <2>3. V[0] = lines /\ V[1] = tree /\ V[n] = tree
    OBVIOUS
  <2> HIDE DEF output, n, diffs, V
  <2>6. ASSUME NEW i \in 1 .. n PROVE LeadsFrom(diffs[i], V[i - 1], V[i], home)
    <3>1. i = 1 /\ n = 1 /\ 1 - 1 = 0 /\ 1 \in DOMAIN output
      BY <1>c
    <3>2. output[1] = PrintedDiff(lines, tree)
      BY <1>c, <3>1
    <3>3. ReadAs(ParseDiffs(output)[1], lines, tree)
      BY <1>a, <1>6, <3>1, <3>2, ParsedAs
    <3>4. LeadsFrom(diffs[1], lines, tree, home)
      <4>1. ReadAs(diffs[1], lines, tree)
        BY <1>b, <3>3, Zenon
      <4> HIDE DEF lines
      <4> QED BY <1>4, <1>6, <1>a, <4>1 DEF LeadsFrom, ReadAs
    <3> QED BY <2>3, <3>1, <3>4
  <2>7. IF home \in ToSet(tree)
        THEN ~view.outdated /\ HashAt(tree, view.line) = home ELSE view.outdated
    <3>1. IsFile(V[0]) /\ HashAt(V[0], a.line) = home
      BY <1>2, <1>3, <2>3
    <3>2. Leads(diffs, V, n)
      BY <2>6 DEF Leads
    <3>3. /\ n \in Nat /\ Len(diffs) = n /\ ~a.stray /\ (a.hash = NoHash \/ a.hash = home) /\ home # NoHash
      BY <1>2, <1>c
    <3> HIDE DEF view
    <3>4. Carried(TraceDiffs(a, WorkingTree, V[n], diffs), WorkingTree, V[n])
      BY <3>1, <3>2, <3>3, TraceDiffsRight
    <3> QED BY <1>5, <2>3, <3>4 DEF Carried
  <2>8. HashAt(tree, view.line) = home => tree[view.line] = home
    BY <1>2 DEF HashAt
  <2> QED BY <2>7, <2>8
<1>7. CASE ~plain /\ tree # <<>>
  <2> DEFINE at == Follow(a.line, diffs)
             read == IF at.stray THEN <<>> ELSE tree
  <2>1. view.outdated = (at.gone \/ Mismatch(a, read, at.line))
    BY <1>2, <1>5 DEF TraceDiffs
  <2>2. ~at.stray
    <3>1. NoPlusAdded(lines, tree)
      BY <1>7
    <3>2. n = 1 => diffs[1].Renamed = FALSE
      <4> SUFFICES ASSUME n = 1 PROVE diffs[1].Renamed = FALSE
        OBVIOUS
      <4>1. 1 \in DOMAIN output /\ output[1] = PrintedDiff(lines, tree)
        BY <1>c
      <4> HIDE DEF output, lines
      <4>2. ParseDiffs(output)[1].Renamed = FALSE
        BY <1>a, <3>1, <4>1, ParseIs
      <4> QED BY <1>b, <4>2
    <3> DEFINE ds == diffs
    <3>3. KeepsName(ds)
      <4> HIDE DEF diffs, n, output
      <4> QED BY <1>c, <3>2 DEF KeepsName
    <3> DEFINE start == a.line
    <3> HIDE DEF ds, start
    <3>4. Follow(start, ds).stray = FALSE
      BY <3>3, NeverStray
    <3>5. Follow(start, ds) = at
      BY DEF ds, start
    <3> HIDE DEF at
    <3> QED BY <3>4, <3>5
  <2> HIDE DEF at
  <2>3. home \notin ToSet(tree) => HashAt(tree, at.line) # home
    BY <1>2 DEF HashAt, ToSet
  <2>4. home \notin ToSet(tree) => Mismatch(a, tree, at.line)
    BY <1>2, <1>7, <2>3 DEF Mismatch
  <2> QED BY <1>7, <2>1, <2>2, <2>4
<1> QED BY <1>6, <1>7

LEMMA TracedRight ==
  ASSUME HistoryAssumption, HashInv, HistoryInv, FilesInv, PlainHistory,
         NEW a, Good(a), OnHome(a), a.commit \in History(head), a.commit # head
  PROVE  OnItsLine(TraceDiffs(a, head, commits[head].lines, GetDiffs(a.commit, head)))
<1> DEFINE diffs == GetDiffs(a.commit, head)
           lines == commits[head].lines
           new == TraceDiffs(a, head, lines, diffs)
<1>1. head \in DOMAIN commits
  BY CommitsAre
<1>2. PICK n, V :
            /\ n \in Nat /\ Len(diffs) = n
            /\ V[0] = commits[a.commit].lines /\ V[n] = lines
            /\ Leads(diffs, V, n)
  BY <1>1, RangeLeads
<1>3. /\ (a.hash = NoHash \/ a.hash = home) /\ home # NoHash /\ ~a.stray
      /\ IsFile(V[0]) /\ HashAt(V[0], a.line) = home
  BY <1>2 DEF Good, OnHome, FilesInv
<1> HIDE DEF diffs
<1>4. Carried(TraceDiffs(a, head, V[n], diffs), head, V[n])
  BY <1>2, <1>3, TraceDiffsRight
<1>5. Carried(new, head, lines)
  BY <1>2, <1>4
<1> HIDE DEF new
<1>6. OnItsLine(new)
  BY <1>5 DEF Carried, OnItsLine, OnHome
<1> QED BY <1>6 DEF new, diffs

LEMMA TraceAnchorRight ==
  ASSUME HistoryAssumption, HashInv, HistoryInv, FilesInv, PlainHistory,
         NEW a, Good(a), OnHome(a), ~a.outdated, a.commit \in History(head)
  PROVE  OnItsLine(TraceAnchor(a, head).anchor)
<1>1. CASE a.commit = head \/ IsAncestorOf(head, a.commit)
  <2>1. TraceAnchor(a, head).anchor = a
    BY <1>1 DEF TraceAnchor
  <2> QED BY <2>1 DEF OnItsLine
<1>2. CASE ~(a.commit = head \/ IsAncestorOf(head, a.commit))
  <2>1. TraceAnchor(a, head).anchor
            = TraceDiffs(a, head, commits[head].lines, GetDiffs(a.commit, head))
    BY <1>2 DEF TraceAnchor, Traced
  <2> QED BY <1>2, <2>1, TracedRight
<1> QED BY <1>1, <1>2

LEMMA BacktrackRight ==
  ASSUME HistoryAssumption, TraceInv, PlainHistory, ~askew, ~Last(anchors).outdated
  PROVE  OnItsLine(TraceWithBacktrack(head).anchor)
<1> DEFINE current == Last(anchors)
           usable == {i \in DOMAIN anchors : IsAncestorOf(anchors[i].commit, head)}
<1>1. /\ DOMAIN anchors = 1 .. Len(anchors) /\ Len(anchors) \in Nat \ {0}
      /\ Last(anchors) = anchors[Len(anchors)]
  BY AnchorsAre DEF TraceInv
<1>2. ASSUME NEW i \in DOMAIN anchors
      PROVE  ~anchors[i].outdated /\ Good(anchors[i]) /\ OnHome(anchors[i])
  <2>1. OnItsLine(anchors[i]) /\ Good(anchors[i])
        /\ (i + 1 \in DOMAIN anchors => ~anchors[i].outdated)
    BY DEF TraceInv, RightInv, HashInv
  <2>2. i + 1 \in DOMAIN anchors \/ i = Len(anchors)
    BY <1>1
  <2> QED BY <1>1, <2>1, <2>2 DEF OnItsLine
<1>3. head \in DOMAIN commits
  BY DEF TraceInv, HashInv
<1>4. CASE current.commit = head
  <2>1. TraceWithBacktrack(head).anchor = current
    BY <1>4 DEF TraceWithBacktrack
  <2> QED BY <1>1, <1>2, <2>1 DEF OnItsLine
<1>5. CASE current.commit # head
  <2>1. 1 \in usable
    BY <1>1, <1>3 DEF TraceInv, RightInv, HistoryInv, IsAncestorOf
  <2>2. TraceWithBacktrack(head).anchor = TraceAnchor(anchors[Max(usable)], head).anchor
    BY <1>5, <2>1 DEF TraceWithBacktrack
  <2>3. Max(usable) \in usable
    <3>1. usable \subseteq 1 .. Len(anchors) /\ usable \in SUBSET Int /\ Len(anchors) \in Nat
      BY <1>1
    <3>2. IsFiniteSet(1 .. Len(anchors))
      BY <3>1, FS_Interval
    <3> HIDE DEF usable
    <3>3. IsFiniteSet(usable)
      BY <3>1, <3>2, FS_Subset
    <3> QED BY <2>1, <3>1, <3>3, MaxOf
  <2> DEFINE b == anchors[Max(usable)]
  <2>4. Good(b) /\ OnHome(b) /\ ~b.outdated /\ b.commit \in History(head)
    BY <1>2, <2>3 DEF IsAncestorOf
  <2> HIDE DEF b
  <2>5. OnItsLine(TraceAnchor(b, head).anchor)
    BY <2>4, TraceAnchorRight DEF TraceInv
  <2> QED BY <2>2, <2>5 DEF b
<1> QED BY <1>4, <1>5

-----------------------------------------------------------------------------
(* The batch of `nota trace`: the thread's anchor, a comment's, or both.   *)

LEMMA CommentIs ==
  ASSUME RightInv
  PROVE  /\ DOMAIN comment = 1 .. Len(comment) /\ Len(comment) \in {0, 1}
         /\ (comment = <<>>) <=> (Len(comment) = 0)
         /\ \A i \in DOMAIN comment : i = 1 /\ Good(comment[i])
         /\ \A U : comment \in Seq(U \cup {comment[i] : i \in DOMAIN comment})
<1> DEFINE T == {comment[i] : i \in DOMAIN comment}
<1>1. comment \in Seq(T) /\ \A i \in DOMAIN comment : i = 1 /\ Good(comment[i])
  BY DEF RightInv, IsSeq
<1>2. \A U : T \subseteq U \cup T
  OBVIOUS
<1> HIDE DEF T
<1>3. DOMAIN comment = 1 .. Len(comment) /\ Len(comment) \in Nat
  BY <1>1
<1>4. Len(comment) \in {0, 1}
  <2>1. Len(comment) > 1 => 2 \in DOMAIN comment
    BY <1>3
  <2> QED BY <1>1, <1>3, <2>1
<1>5. (comment = <<>>) <=> (Len(comment) = 0)
  BY <1>1
<1>6. \A U : comment \in Seq(U \cup T)
  BY <1>1, <1>2
<1> QED BY <1>1, <1>3, <1>4, <1>5, <1>6 DEF T

(* What is in the batch. *)
BatchOf(b) ==
    /\ Len(b) \in {0, 1, 2} /\ DOMAIN b = 1 .. Len(b) /\ (b = <<>> <=> Len(b) = 0)
    /\ \A i \in DOMAIN b : Good(b[i])
    /\ InBatch(Last(anchors)) => Last(anchors) \in ToSet(b)
    /\ \A i \in DOMAIN comment : InBatch(comment[i]) => comment[i] \in ToSet(b)

LEMMA BatchIs ==
  ASSUME HashInv, RightInv PROVE BatchOf(Batch)
<1> DEFINE a == Last(anchors)
           C == {comment[i] : i \in DOMAIN comment}
           T == {a} \cup C
           s == IF InBatch(a) THEN <<a>> ELSE <<>>
           t == IF comment # <<>> /\ InBatch(comment[1]) THEN comment ELSE <<>>
           b == s \o t
<1>1. Good(a)
  BY AnchorsAre
<1>2. /\ DOMAIN comment = 1 .. Len(comment) /\ Len(comment) \in {0, 1}
      /\ (comment = <<>>) <=> (Len(comment) = 0)
      /\ \A i \in DOMAIN comment : i = 1 /\ Good(comment[i])
      /\ comment \in Seq(T)
  BY CommentIs
<1>3. \A x \in T : Good(x)
  BY <1>1, <1>2
<1>4. a \in T
  OBVIOUS
<1> HIDE DEF T, a
<1>5. /\ s \in Seq(T) /\ Len(s) \in {0, 1} /\ (InBatch(a) => Len(s) = 1 /\ s[1] = a)
  <2>1. CASE InBatch(a)
    <3>1. s = <<a>>
      BY <2>1
    <3> HIDE DEF s
    <3>2. s \in Seq(T) /\ Len(s) = 1 /\ s[1] = a
      BY <1>4, <3>1
    <3> QED BY <3>2
  <2>2. CASE ~InBatch(a)
    <3>1. s = <<>>
      BY <2>2
    <3> HIDE DEF s
    <3>2. s \in Seq(T) /\ Len(s) = 0
      BY <3>1
    <3> QED BY <2>2, <3>2
  <2> QED BY <2>1, <2>2
<1>6. /\ t \in Seq(T) /\ Len(t) \in {0, 1}
      /\ \A i \in DOMAIN comment : InBatch(comment[i]) => Len(t) = 1 /\ t[1] = comment[i]
  <2>1. CASE comment # <<>> /\ InBatch(comment[1])
    <3>1. t = comment
      BY <2>1
    <3> HIDE DEF t
    <3> QED BY <1>2, <2>1, <3>1
  <2>2. CASE comment = <<>> \/ ~InBatch(comment[1])
    <3>1. t = <<>>
      BY <2>2
    <3> HIDE DEF t
    <3>2. t \in Seq(T) /\ Len(t) = 0
      BY <3>1
    <3>3. \A i \in DOMAIN comment : ~InBatch(comment[i])
      BY <1>2, <2>2
    <3> QED BY <3>2, <3>3
  <2> QED BY <2>1, <2>2
<1>7. Batch = b
  BY DEF Batch, a
<1> HIDE DEF s, t
<1>8. /\ b \in Seq(T) /\ Len(b) = Len(s) + Len(t) /\ DOMAIN b = 1 .. Len(b)
      /\ \A i \in 1 .. Len(s) : b[i] = s[i]
      /\ \A i \in 1 .. Len(t) : b[Len(s) + i] = t[i]
  BY <1>5, <1>6
<1> HIDE DEF b
<1>9. Len(b) \in {0, 1, 2} /\ (b = <<>> <=> Len(b) = 0)
  BY <1>5, <1>6, <1>8
<1>10. \A i \in DOMAIN b : Good(b[i])
  <2>1. \A i \in DOMAIN b : b[i] \in T
    BY <1>8
  <2> QED BY <1>3, <2>1
<1>11. InBatch(a) => a \in ToSet(b)
  <2> SUFFICES ASSUME InBatch(a) PROVE a \in ToSet(b)
    OBVIOUS
  <2>1. 1 \in DOMAIN b /\ b[1] = a
    BY <1>5, <1>6, <1>8
  <2> QED BY <2>1 DEF ToSet
<1>12. ASSUME NEW i \in DOMAIN comment, InBatch(comment[i]) PROVE comment[i] \in ToSet(b)
  <2>1. Len(t) = 1 /\ t[1] = comment[i]
    BY <1>6, <1>12
  <2>2. Len(s) + 1 \in DOMAIN b /\ b[Len(s) + 1] = comment[i]
    BY <1>5, <1>8, <2>1
  <2> QED BY <2>2 DEF ToSet
<1> QED BY <1>7, <1>8, <1>9, <1>10, <1>11, <1>12 DEF BatchOf, a

LEMMA MergeBaseIs ==
  ASSUME HashInv, HistoryInv, NEW c \in DOMAIN commits, NEW d \in DOMAIN commits
  PROVE  MergeBase(c, d) \in History(c) \cap History(d)
<1> DEFINE K == History(c) \cap History(d)
<1>1. History(c) \subseteq 1 .. c /\ 1 \in K
  BY DEF HistoryInv
<1>2. c \in Int
  BY CommitsAre
<1>3. K \subseteq 1 .. c /\ K \in SUBSET Int
  BY <1>1, <1>2
<1>4. IsFiniteSet(1 .. c)
  BY <1>2, FS_Interval
<1> HIDE DEF K
<1>5. IsFiniteSet(K)
  BY <1>3, <1>4, FS_Subset
<1>6. Max(K) \in K
  BY <1>1, <1>3, <1>5, MaxOf
<1> QED BY <1>6 DEF MergeBase, K

OneOrTwo(b) ==
    /\ Len(b) \in {1, 2} /\ DOMAIN b = 1 .. Len(b)
    /\ \A i \in DOMAIN b : b[i].commit \in DOMAIN commits

(* Of two commits at most, the one the other follows; else the first. *)
LEMMA EarliestIs ==
  ASSUME HistoryInv, NEW b, OneOrTwo(b)
  PROVE  /\ FindEarliestCommit(b) \in DOMAIN commits
         /\ FindEarliestCommit(b) \in History(b[1].commit)
<1> DEFINE n == Len(b)
           Is(g) == g = [i \in 0 .. n |->
                            IF i = 0 THEN b[1].commit
                            ELSE IF IsAncestorOf(b[i].commit, g[i - 1]) THEN b[i].commit
                            ELSE g[i - 1]]
           first == b[1].commit
           f == [i \in 0 .. n |-> IF i = 2 /\ IsAncestorOf(b[2].commit, first)
                                  THEN b[2].commit ELSE first]
           o == CHOOSE g : Is(g)
<1>a. /\ n \in {1, 2} /\ DOMAIN b = 1 .. n
      /\ \A i \in DOMAIN b : b[i].commit \in DOMAIN commits
  BY DEF OneOrTwo
<1> HIDE DEF n
<1>1. Is(f)
  <2>1. ASSUME NEW i \in 0 .. n
        PROVE  f[i] = IF i = 0 THEN first
                      ELSE IF IsAncestorOf(b[i].commit, f[i - 1]) THEN b[i].commit
                      ELSE f[i - 1]
    <3>1. f[0] = first /\ f[1] = first
      BY <1>a
    <3>2. n = 2 => f[2] = IF IsAncestorOf(b[2].commit, first) THEN b[2].commit ELSE first
      BY <1>a
    <3>3. i = 0 \/ i = 1 \/ (i = 2 /\ n = 2)
      BY <1>a
    <3> HIDE DEF f
    <3>4. CASE i = 0
      BY <3>1, <3>4
    <3>5. CASE i = 1
      BY <3>1, <3>5
    <3>6. CASE i = 2 /\ n = 2
      BY <3>1, <3>2, <3>6
    <3> QED BY <3>3, <3>4, <3>5, <3>6
  <2>2. f = [i \in 0 .. n |-> f[i]]
    OBVIOUS
  <2> HIDE DEF f
  <2> QED BY <2>1, <2>2
<1>2. Is(o)
  <2> HIDE DEF f, Is
  <2> QED BY <1>1
<1>3. FindEarliestCommit(b) = o[n]
  BY DEF FindEarliestCommit, Earliest, n
<1>4. first \in DOMAIN commits /\ first \in History(first)
  BY <1>a DEF HistoryInv
<1> HIDE DEF o
<1>5. o[0] = first
  BY <1>2, <1>a
<1>6. o[1] = first
  <2>1. 1 \in 0 .. n /\ 1 - 1 = 0 /\ 1 # 0
    BY <1>a
  <2>2. o[1] = IF IsAncestorOf(b[1].commit, o[1 - 1]) THEN b[1].commit ELSE o[1 - 1]
    BY <1>2, <2>1
  <2> QED BY <1>5, <2>1, <2>2
<1>7. n = 2 => o[2] = IF IsAncestorOf(b[2].commit, first) THEN b[2].commit ELSE first
  <2> SUFFICES ASSUME n = 2
               PROVE  o[2] = IF IsAncestorOf(b[2].commit, first) THEN b[2].commit ELSE first
    OBVIOUS
  <2>1. 2 \in 0 .. n /\ 2 - 1 = 1 /\ 2 # 0
    OBVIOUS
  <2>2. o[2] = IF IsAncestorOf(b[2].commit, o[2 - 1]) THEN b[2].commit ELSE o[2 - 1]
    BY <1>2, <2>1
  <2> QED BY <1>6, <2>1, <2>2
<1>8. CASE n = 1
  BY <1>3, <1>4, <1>6, <1>8
<1>9. CASE n = 2
  <2>1. 2 \in DOMAIN b
    BY <1>9, <1>a
  <2> QED BY <1>3, <1>4, <1>7, <1>9, <1>a, <2>1 DEF IsAncestorOf
<1> QED BY <1>8, <1>9, <1>a

LEMMA BatchFromIs ==
  ASSUME HashInv, HistoryInv, RightInv, Batch # <<>>
  PROVE  BatchFrom(Batch) \in History(head)
<1> DEFINE b == Batch
           e == FindEarliestCommit(b)
<1>1. OneOrTwo(b) /\ b[1].commit \in DOMAIN commits
  <2>1. BatchOf(b) /\ b # <<>>
    BY BatchIs
  <2> HIDE DEF b
  <2>2. Len(b) \in {1, 2} /\ DOMAIN b = 1 .. Len(b) /\ \A i \in DOMAIN b : Good(b[i])
    BY <2>1 DEF BatchOf
  <2>3. ASSUME NEW i \in DOMAIN b PROVE b[i].commit \in DOMAIN commits
    <3>1. Good(b[i])
      BY <2>2
    <3> QED BY <3>1 DEF Good
  <2> QED BY <2>2, <2>3 DEF OneOrTwo
<1> HIDE DEF b
<1>2. e \in DOMAIN commits /\ e \in History(b[1].commit)
  BY <1>1, EarliestIs
<1>3. head \in DOMAIN commits
  BY DEF HashInv
<1> HIDE DEF e
<1>4. BatchFrom(b) = IF NeedsMergeBase(b) THEN MergeBase(e, head) ELSE e
  BY DEF BatchFrom, e
<1>5. CASE NeedsMergeBase(b)
  BY <1>2, <1>3, <1>4, <1>5, MergeBaseIs DEF b
<1>6. CASE ~NeedsMergeBase(b)
  <2>1. b[1].commit \in History(head)
    BY <1>6 DEF NeedsMergeBase, IsAncestorOf
  <2>2. History(b[1].commit) \subseteq History(head)
    BY <1>3, <2>1 DEF HistoryInv
  <2> QED BY <1>2, <1>4, <1>6, <2>2 DEF b
<1> QED BY <1>5, <1>6

-----------------------------------------------------------------------------
(* An edit: the lines that stay are in their order, the others are new.    *)

LEMMA SameOrderSym ==
  ASSUME NEW f, NEW g, IsFile(f), IsFile(g), SameOrder(f, g)
  PROVE  SameOrder(g, f) /\ SameOrder(f, f)
<1>1. /\ DOMAIN f = 1 .. Len(f) /\ DOMAIN g = 1 .. Len(g) /\ Len(f) \in Nat /\ Len(g) \in Nat
      /\ \A i, k \in DOMAIN f : f[i] = f[k] => i = k
      /\ \A i, k \in DOMAIN g : g[i] = g[k] => i = k
  BY DEF IsFile, Distinct
<1>2. \A i, k \in DOMAIN f, j, l \in DOMAIN g : f[i] = g[j] /\ f[k] = g[l] /\ i < k => j < l
  BY DEF SameOrder
<1>3. ASSUME NEW j \in DOMAIN g, NEW l \in DOMAIN g, NEW i \in DOMAIN f, NEW k \in DOMAIN f,
             g[j] = f[i], g[l] = f[k], j < l
      PROVE  i < k
  <2>1. i # k
    BY <1>1, <1>3
  <2>2. ~(k < i)
    BY <1>1, <1>2, <1>3
  <2> QED BY <1>1, <2>1, <2>2
<1>4. SameOrder(g, f)
  BY <1>3 DEF SameOrder
<1>5. SameOrder(f, f)
  <2> SUFFICES ASSUME NEW i \in DOMAIN f, NEW k \in DOMAIN f, NEW j \in DOMAIN f, NEW l \in DOMAIN f,
                      f[i] = f[j], f[k] = f[l], i < k
               PROVE  j < l
    BY DEF SameOrder
  <2> QED BY <1>1
<1> QED BY <1>4, <1>5

LEMMA EditedIs ==
  ASSUME NEW n \in Nat \ {0}, Len(commits) = n, NEW old, IsFile(old), Older(old, n),
         NEW removed \in SUBSET DOMAIN old, NEW gaps \in SUBSET (0 .. Len(old))
  PROVE  /\ IsFile(Edited(old, removed, gaps)) /\ Older(Edited(old, removed, gaps), n + 1)
         /\ \A x \in ToSet(Edited(old, removed, gaps)) : x[1] # n => x \in ToSet(old)
         /\ \A f : IsFile(f) /\ Older(f, n) /\ SameOrder(f, old)
                        => SameOrder(f, Edited(old, removed, gaps))
<1> DEFINE M == Len(old)
           K == {2 * i : i \in DOMAIN old \ removed} \cup {2 * g + 1 : g \in gaps}
           r == Ascending(K)
           N == Cardinality(K)
           new == Edited(old, removed, gaps)
           half == [x \in K |-> x \div 2]
<1>1. M \in Nat /\ DOMAIN old = 1 .. M /\ Distinct(old) /\ \A i \in 1 .. M : old[i][1] \in 0 .. n - 1
  BY DEF IsFile, Older
<1>2. \A x \in K : /\ x \in 0 .. 2 * M + 1 /\ x \in Int
                   /\ half[x] = x \div 2 /\ half[x] \in Int
                   /\ \/ x = 2 * half[x] /\ half[x] \in 1 .. M /\ x % 2 = 0
                      \/ x = 2 * half[x] + 1 /\ x % 2 = 1
  <2>1. ASSUME NEW x \in K
        PROVE  /\ x \in 0 .. 2 * M + 1 /\ x \in Int /\ x \div 2 \in Int
               /\ \/ x = 2 * (x \div 2) /\ x \div 2 \in 1 .. M /\ x % 2 = 0
                  \/ x = 2 * (x \div 2) + 1 /\ x % 2 = 1
    <3>1. CASE x \in {2 * i : i \in DOMAIN old \ removed}
      <4>1. PICK i \in 1 .. M : x = 2 * i
        BY <1>1, <3>1
      <4>2. x \div 2 = i /\ x % 2 = 0
        BY <4>1
      <4> QED BY <1>1, <4>1, <4>2
    <3>2. CASE x \in {2 * g + 1 : g \in gaps}
      <4>1. PICK g \in 0 .. M : x = 2 * g + 1
        BY <3>2
      <4>2. x \div 2 = g /\ x % 2 = 1
        BY <4>1
      <4> QED BY <1>1, <4>1, <4>2
    <3> QED BY <3>1, <3>2
  <2> QED BY <2>1
<1>3. K \in SUBSET Int /\ IsFiniteSet(K)
  <2>1. K \in SUBSET (0 .. 2 * M + 1) /\ K \in SUBSET Int
    BY <1>2
  <2>2. 2 * M + 1 \in Int
    BY <1>1
  <2>3. IsFiniteSet(0 .. 2 * M + 1)
    BY <2>2, FS_Interval
  <2> HIDE DEF K
  <2> QED BY <2>1, <2>3, FS_Subset
<1>4. new = [i \in DOMAIN r |-> IF r[i] % 2 = 0 THEN old[r[i] \div 2] ELSE <<Len(commits), r[i] \div 2>>]
  BY DEF Edited
<1> HIDE DEF K
<1>5. N \in Nat /\ r \in [1 .. N -> K] /\ Rising(r)
  BY <1>3, AscendingIs
<1> DEFINE new2 == [i \in 1 .. N |-> IF r[i] % 2 = 0 THEN old[r[i] \div 2] ELSE <<n, r[i] \div 2>>]
<1>6. new = new2 /\ DOMAIN new = 1 .. N
  BY <1>4, <1>5
<1>7. \A i \in 1 .. N : new[i] = IF r[i] % 2 = 0 THEN old[half[r[i]]] ELSE <<n, half[r[i]]>>
  BY <1>2, <1>5, <1>6
<1>8. Len(new) = N
  <2> DEFINE T == {new[i] : i \in 1 .. N}
  <2> HIDE DEF new, new2
  <2>1. new \in [1 .. N -> T]
    <3>1. new = [i \in 1 .. N |-> new[i]]
      BY <1>6 DEF new2
    <3> QED BY <3>1
  <2> HIDE DEF T, N
  <2> QED BY <1>5, <2>1, LenIs
<1> HIDE DEF r, N, new, half
<1>9. \A i \in 1 .. N : r[i] \in K /\ r[i] \in Int
  BY <1>3, <1>5
<1>10. \A i, j \in 1 .. N : i < j => r[i] < r[j]
  <2>1. DOMAIN r = 1 .. N
    BY <1>5
  <2> QED BY <1>5, <2>1 DEF Rising
(* A line of the new file is an old one in its place or a new one. *)
<1>11. ASSUME NEW i \in 1 .. N
       PROVE  \/ /\ r[i] = 2 * half[r[i]] /\ half[r[i]] \in 1 .. M
                 /\ new[i] = old[half[r[i]]] /\ new[i][1] \in 0 .. n - 1
              \/ /\ r[i] = 2 * half[r[i]] + 1 /\ half[r[i]] \in Int
                 /\ new[i] = <<n, half[r[i]]>> /\ new[i][1] = n
  <2> DEFINE h == half[r[i]]
             x == r[i]
  <2>1. /\ x \in Int /\ h \in Int
        /\ \/ x = 2 * h /\ h \in 1 .. M /\ x % 2 = 0
           \/ x = 2 * h + 1 /\ x % 2 = 1
    BY <1>2, <1>9
  <2>2. new[i] = IF x % 2 = 0 THEN old[h] ELSE <<n, h>>
    BY <1>7
  <2> HIDE DEF x, h
  <2>3. CASE x = 2 * h /\ h \in 1 .. M /\ x % 2 = 0
    <3>1. new[i] = old[h]
      BY <2>2, <2>3
    <3> QED BY <1>1, <2>3, <3>1 DEF x, h
  <2>4. CASE x = 2 * h + 1 /\ x % 2 = 1
    <3>1. new[i] = <<n, h>>
      BY <2>2, <2>4
    <3>2. new[i][1] = n
      BY <3>1
    <3> QED BY <2>1, <2>4, <3>1, <3>2 DEF x, h
  <2> QED BY <2>1, <2>3, <2>4
<1>12. IsFile(new)
  <2>1. ASSUME NEW i \in 1 .. N, NEW k \in 1 .. N, new[i] = new[k] PROVE i = k
    <3> DEFINE h == half[r[i]]
               l == half[r[k]]
    <3>1. \/ r[i] = 2 * h /\ h \in 1 .. M /\ new[i] = old[h] /\ new[i][1] \in 0 .. n - 1
          \/ r[i] = 2 * h + 1 /\ h \in Int /\ new[i] = <<n, h>> /\ new[i][1] = n
      BY <1>11
    <3>2. \/ r[k] = 2 * l /\ l \in 1 .. M /\ new[k] = old[l] /\ new[k][1] \in 0 .. n - 1
          \/ r[k] = 2 * l + 1 /\ l \in Int /\ new[k] = <<n, l>> /\ new[k][1] = n
      BY <1>11
    <3> HIDE DEF h, l
    <3>3. r[i] = r[k]
      <4>1. CASE new[i][1] = n
        <5>1. r[i] = 2 * h + 1 /\ new[i] = <<n, h>> /\ r[k] = 2 * l + 1 /\ new[k] = <<n, l>>
          <6>1. n \notin 0 .. n - 1 /\ new[k][1] = n
            BY <2>1, <4>1
          <6> QED BY <3>1, <3>2, <4>1, <6>1, Zenon
        <5>2. \A x, y : <<n, x>> = <<n, y>> => x = y
          OBVIOUS
        <5>3. <<n, h>> = <<n, l>>
          BY <2>1, <5>1, Zenon
        <5>4. h = l
          BY <5>2, <5>3, Zenon
        <5> QED BY <5>1, <5>4
      <4>2. CASE new[i][1] # n
        <5>1. r[i] = 2 * h /\ new[i] = old[h] /\ r[k] = 2 * l /\ new[k] = old[l]
              /\ h \in DOMAIN old /\ l \in DOMAIN old
          BY <1>1, <2>1, <3>1, <3>2, <4>2
        <5>2. h = l
          BY <1>1, <2>1, <5>1 DEF Distinct
        <5> QED BY <5>1, <5>2
      <4> QED BY <4>1, <4>2
    <3>4. ~(i < k) /\ ~(k < i)
      BY <1>9, <1>10, <3>3
    <3> QED BY <1>5, <3>4
  <2> QED BY <1>5, <1>6, <1>8, <2>1 DEF IsFile, Distinct
<1>13. Older(new, n + 1)
  <2>1. \A i \in 1 .. N : new[i][1] \in 0 .. (n + 1) - 1
    BY <1>11
  <2> QED BY <1>6, <2>1 DEF Older
<1>14. \A x \in ToSet(new) : x[1] # n => x \in ToSet(old)
  <2> SUFFICES ASSUME NEW i \in 1 .. N, new[i][1] # n PROVE new[i] \in ToSet(old)
    BY <1>6 DEF ToSet
  <2>1. half[r[i]] \in DOMAIN old /\ new[i] = old[half[r[i]]]
    BY <1>1, <1>11
  <2> QED BY <2>1 DEF ToSet
<1>15. ASSUME NEW f, IsFile(f), Older(f, n), SameOrder(f, old) PROVE SameOrder(f, new)
  <2> SUFFICES ASSUME NEW i \in DOMAIN f, NEW k \in DOMAIN f, NEW j \in 1 .. N, NEW l \in 1 .. N,
                      f[i] = new[j], f[k] = new[l], i < k
               PROVE  j < l
    BY <1>6 DEF SameOrder
  <2> DEFINE g == half[r[j]]
             h == half[r[l]]
  <2>1. new[j][1] # n /\ new[l][1] # n
    BY <1>15 DEF Older
  <2>2. /\ r[j] = 2 * g /\ g \in 1 .. M /\ new[j] = old[g]
        /\ r[l] = 2 * h /\ h \in 1 .. M /\ new[l] = old[h]
    BY <1>11, <2>1
  <2> HIDE DEF g, h
  <2>3. g < h
    BY <1>1, <1>15, <2>2 DEF SameOrder
  <2>4. r[j] < r[l]
    BY <2>2, <2>3
  <2>5. ~(l < j) /\ l # j
    BY <1>9, <1>10, <2>4
  <2> QED BY <1>5, <2>5
<1> QED BY <1>12, <1>13, <1>14, <1>15 DEF new

LEMMA HashNextInv ==
  ASSUME HashInv, [TraceNext]_traceVars
  PROVE  HashInv'
<1>1. CASE UNCHANGED <<commits, head, anchors, home>>
  BY <1>1 DEF HashInv, IsSeq, Good, OnHome
<1>2. CASE Commit
  <2> DEFINE c == [history |-> History(head) \cup {head'}, lines |-> tree,
                   patch |-> PrintedDiff(commits[head].lines, tree),
                   plain |-> Plain(commits[head].lines, tree)]
  <2>1. /\ commits' = Append(commits, c) /\ head' = Len(commits) + 1
        /\ UNCHANGED <<anchors, home>>
    BY <1>2 DEF Commit
  <2>2. IsSeq(commits)
    BY DEF HashInv
  <2> HIDE DEF c
  <2>3. /\ IsSeq(commits') /\ head' \in DOMAIN commits'
        /\ \A i \in DOMAIN commits : i \in DOMAIN commits' /\ commits'[i] = commits[i]
    BY <2>1, <2>2, AppendIs
  <2>4. ASSUME NEW i \in DOMAIN anchors PROVE Good(anchors[i])'
    <3>1. Good(anchors[i])
      BY DEF HashInv
    <3> QED BY <2>1, <2>3, <3>1 DEF Good, OnHome
  <2> QED BY <2>1, <2>3, <2>4 DEF HashInv, IsSeq
<1>3. ASSUME NEW d \in DOMAIN commits, Checkout(d) PROVE HashInv'
  BY <1>3 DEF Checkout, HashInv, IsSeq, Good, OnHome
<1>4. CASE TraceThread
  <2> DEFINE current == Last(anchors)
             inBatch == TraceInBatch(current, Batch)
             result == IF inBatch.outdated THEN TraceWithBacktrack(head) ELSE inBatch
  <2>1. /\ anchors' = anchors \/ anchors' = Append(anchors, result.anchor)
        /\ UNCHANGED <<commits, head, home>>
    BY <1>4 DEF TraceThread
  <2>2. head \in DOMAIN commits /\ Good(current)
    BY AnchorsAre DEF HashInv
  <2>3. Good(inBatch.anchor)
    <3> HIDE DEF current
    <3>1. CASE IsAncestorOf(head, current.commit)
      <4>1. inBatch.anchor = current
        BY <3>1 DEF TraceInBatch
      <4> QED BY <2>2, <4>1
    <3>2. CASE ~IsAncestorOf(head, current.commit)
      <4>1. inBatch.anchor = TraceDiffs(current, head, commits[head].lines,
                                      GetDiffs(BatchFrom(Batch), head))
        BY <3>2 DEF TraceInBatch, Traced
      <4>2. current.hash \in {NoHash, home}
        BY <2>2 DEF Good
      <4> QED BY <2>2, <4>1, <4>2, TraceDiffsGood
    <3> QED BY <3>1, <3>2
  <2>4. Good(result.anchor)
    BY <2>3, BacktrackGood
  <2> HIDE DEF result
  <2> QED BY <2>1, <2>4, AnchorAdded
<1>5. CASE ShowThread
  <2>1. /\ anchors' = anchors \/ anchors' = Append(anchors, TraceWithBacktrack(head).anchor)
        /\ UNCHANGED <<commits, head, home>>
    BY <1>5 DEF ShowThread
  <2> QED BY <2>1, BacktrackGood, AnchorAdded
<1>6. CASE Edit \/ RemoveFile \/ Comment \/ UNCHANGED traceVars
  BY <1>1, <1>6 DEF Edit, RemoveFile, Comment, traceVars
<1> QED BY <1>2, <1>3, <1>4, <1>5, <1>6 DEF TraceNext

LEMMA FirstHash ==
  ASSUME HistoryAssumption, TraceInit
  PROVE  /\ HashInv /\ head = 1 /\ DOMAIN commits = {1} /\ History(1) = {1}
         /\ commits[1].lines = [i \in 1 .. RootLength |-> <<0, i>>]
         /\ tree = commits[1].lines
         /\ DOMAIN anchors = {1} /\ anchors[1].commit = 1 /\ ~anchors[1].outdated
         /\ OnHome(anchors[1]) /\ comment = <<>>
         /\ \E i \in 1 .. RootLength : home = <<0, i>>
<1> DEFINE lines == [i \in 1 .. RootLength |-> <<0, i>>]
           patch == PrintedDiff(<<>>, lines)
           c == [history |-> {1}, lines |-> lines, patch |-> patch, plain |-> TRUE]
<1>1. tree = lines /\ commits = <<c>> /\ head = 1 /\ comment = <<>>
  BY DEF TraceInit
<1>2. PICK line \in 1 .. RootLength :
            /\ home = tree[line]
            /\ \E hash \in {NoHash, home} :
                anchors = <<[commit |-> 1, line |-> line, stray |-> FALSE, outdated |-> FALSE, hash |-> hash]>>
  BY DEF TraceInit
<1>3. PICK hash \in {NoHash, home} :
        anchors = <<[commit |-> 1, line |-> line, stray |-> FALSE, outdated |-> FALSE, hash |-> hash]>>
  BY <1>2
<1> DEFINE a == [commit |-> 1, line |-> line, stray |-> FALSE, outdated |-> FALSE, hash |-> hash]
<1> HIDE DEF patch
<1>4. c.history = {1} /\ c.lines = lines /\ a.commit = 1 /\ a.line = line /\ a.hash = hash
      /\ a.outdated = FALSE /\ a.stray = FALSE
  OBVIOUS
<1> HIDE DEF c, a
<1>5. anchors = <<a>>
  BY <1>3 DEF a
<1>6. commits[1] = c /\ DOMAIN commits = {1} /\ DOMAIN anchors = {1} /\ anchors[1] = a
      /\ anchors # <<>>
  BY <1>1, <1>5
<1>7. IsSeq(commits) /\ IsSeq(anchors)
  <2>1. ASSUME NEW x PROVE IsSeq(<<x>>)
    <3> DEFINE U == {<<x>>[i] : i \in DOMAIN <<x>>}
    <3>1. x \in U
      OBVIOUS
    <3> HIDE DEF U
    <3>2. <<x>> \in Seq(U)
      BY <3>1
    <3> QED BY <3>2 DEF IsSeq, U
  <2> QED BY <1>1, <1>5, <2>1
<1>8. line \in DOMAIN lines /\ lines[line] = home /\ home = <<0, line>>
  BY <1>1, <1>2
<1> HIDE DEF lines
<1>9. OnHome(a)
  BY <1>4, <1>6, <1>8 DEF OnHome, HashAt
<1>10. Good(a)
  BY <1>3, <1>4, <1>6, <1>9 DEF Good
<1>11. HashInv
  BY <1>1, <1>6, <1>7, <1>10 DEF HashInv
<1> QED BY <1>1, <1>4, <1>6, <1>8, <1>9, <1>11 DEF History, lines

LEMMA TraceInvInit == HistoryAssumption /\ TraceInit => TraceInv
<1> SUFFICES ASSUME HistoryAssumption, TraceInit PROVE TraceInv
  OBVIOUS
<1>1. /\ HashInv /\ head = 1 /\ DOMAIN commits = {1} /\ History(1) = {1}
      /\ commits[1].lines = [i \in 1 .. RootLength |-> <<0, i>>]
      /\ tree = commits[1].lines
      /\ DOMAIN anchors = {1} /\ anchors[1].commit = 1 /\ ~anchors[1].outdated
      /\ OnHome(anchors[1]) /\ comment = <<>>
      /\ \E i \in 1 .. RootLength : home = <<0, i>>
  BY FirstHash
<1>2. HistoryInv
  BY <1>1 DEF HistoryInv
<1> DEFINE n == RootLength
<1>3. n \in Nat \ {0}
  BY DEF HistoryAssumption
<1>4. /\ DOMAIN tree = 1 .. n
      /\ \A i \in 1 .. n : tree[i] = <<0, i>> /\ tree[i][1] = 0 /\ tree[i][2] = i
  BY <1>1
<1>5. Len(tree) = n
  <2> DEFINE T == {tree[i] : i \in 1 .. n}
  <2>1. tree \in [1 .. n -> T]
    <3>1. tree = [i \in 1 .. n |-> tree[i]]
      BY <1>1
    <3> QED BY <3>1
  <2> HIDE DEF T
  <2> QED BY <1>3, <2>1, LenIs
<1> HIDE DEF n
<1>6. IsFile(tree)
  BY <1>3, <1>4, <1>5 DEF IsFile, Distinct
<1>7. SameOrder(tree, tree)
  <2>1. \A i, k \in DOMAIN tree : tree[i] = tree[k] => i = k
    BY <1>6 DEF IsFile, Distinct
  <2> QED BY <2>1 DEF SameOrder
<1>8. Len(commits) = 1
  BY <1>1, CommitsAre
<1>9. Older(tree, 1) /\ Older(tree, 2)
  BY <1>4 DEF Older
<1>10. home[1] = 0 /\ home # NoHash
  <2>1. PICK i \in 1 .. n : home = <<0, i>>
    BY <1>1 DEF n
  <2>2. i # 0
    BY <1>3
  <2> QED BY <2>1, <2>2 DEF NoHash
<1>11. FilesInv
  BY <1>1, <1>6, <1>7, <1>8, <1>9, <1>10 DEF FilesInv
<1>12. RightInv
  <2>1. IsSeq(comment) /\ DOMAIN comment = {}
    BY <1>1 DEF IsSeq
  <2>2. OnItsLine(anchors[1])
    BY <1>1 DEF OnItsLine
  <2> QED BY <1>1, <2>1, <2>2 DEF RightInv
<1> QED BY <1>1, <1>2, <1>11, <1>12 DEF TraceInv

(* Where the commits and the anchors stay, so does what is said of them. *)
LEMMA CommitsStay ==
  ASSUME HistoryInv, RightInv, UNCHANGED <<commits, anchors, comment, home, askew>>
  PROVE  HistoryInv' /\ RightInv'
<1>1. HistoryInv'
  BY DEF HistoryInv, History, Follows
<1>2. RightInv'
  BY DEF RightInv, IsSeq, Good, OnHome, OnItsLine, PlainHistory
<1> QED BY <1>1, <1>2

LEMMA EditInv ==
  ASSUME TraceInv, Edit PROVE FilesInv'
<1>1. PICK removed \in SUBSET DOMAIN tree, gaps \in SUBSET (0 .. Len(tree)) :
            tree' = Edited(tree, removed, gaps)
  BY DEF Edit
<1>2. tree = commits[head].lines /\ UNCHANGED <<commits, head, home>>
  BY DEF Edit
<1> DEFINE n == Len(commits)
<1>3. n \in Nat \ {0} /\ head \in DOMAIN commits
  BY CommitsAre DEF TraceInv
<1>4. /\ \A c \in DOMAIN commits :
            /\ IsFile(commits[c].lines) /\ Older(commits[c].lines, n)
            /\ SameOrder(commits[c].lines, tree)
            /\ \A d \in DOMAIN commits : SameOrder(commits[c].lines, commits[d].lines)
      /\ home[1] = 0 /\ home # NoHash
  BY DEF TraceInv, FilesInv
<1>5. IsFile(tree) /\ Older(tree, n)
  BY <1>2, <1>3, <1>4
<1>6. /\ IsFile(Edited(tree, removed, gaps)) /\ Older(Edited(tree, removed, gaps), n + 1)
      /\ \A x \in ToSet(Edited(tree, removed, gaps)) : x[1] # n => x \in ToSet(tree)
      /\ \A f : IsFile(f) /\ Older(f, n) /\ SameOrder(f, tree)
                    => SameOrder(f, Edited(tree, removed, gaps))
  BY <1>3, <1>5, EditedIs
<1>7. /\ IsFile(tree') /\ Older(tree', n + 1)
      /\ \A x \in ToSet(tree') : x[1] # n => x \in ToSet(tree)
      /\ \A c \in DOMAIN commits : SameOrder(commits[c].lines, tree')
  BY <1>1, <1>4, <1>6
<1>8. home \in ToSet(tree') => home \in ToSet(commits[head].lines)
  BY <1>2, <1>3, <1>4, <1>7
<1>9. IsFile(tree)' /\ Older(tree, Len(commits) + 1)' /\ (home \in ToSet(tree))' = (home \in ToSet(tree'))
  BY <1>2, <1>7 DEF IsFile, Distinct, Older, ToSet
<1>10. /\ \A c \in DOMAIN commits :
            /\ IsFile(commits[c].lines) /\ Older(commits[c].lines, Len(commits))
            /\ \A d \in DOMAIN commits : SameOrder(commits[c].lines, commits[d].lines)
      /\ home[1] = 0 /\ home # NoHash
  BY DEF TraceInv, FilesInv
<1> QED BY <1>2, <1>7, <1>8, <1>9, <1>10 DEF FilesInv, IsFile, Distinct, Older, SameOrder, ToSet

LEMMA RemoveFileInv ==
  ASSUME TraceInv, RemoveFile PROVE FilesInv'
<1>1. tree' = <<>> /\ UNCHANGED <<commits, head, home>>
  BY DEF RemoveFile
<1>2. Len(tree') = 0 /\ DOMAIN tree' = {} /\ DOMAIN tree' = 1 .. 0 /\ ToSet(tree') = {}
  BY <1>1 DEF ToSet
<1>3. IsFile(tree)' /\ Older(tree, Len(commits) + 1)'
  BY <1>2 DEF IsFile, Distinct, Older
<1>4. \A c \in DOMAIN commits : SameOrder(commits[c].lines, tree')
  BY <1>2 DEF SameOrder
<1>5. /\ \A c \in DOMAIN commits :
            /\ IsFile(commits[c].lines) /\ Older(commits[c].lines, Len(commits))
            /\ \A d \in DOMAIN commits : SameOrder(commits[c].lines, commits[d].lines)
      /\ home[1] = 0 /\ home # NoHash
  BY DEF TraceInv, FilesInv
<1> QED BY <1>1, <1>2, <1>3, <1>4, <1>5 DEF FilesInv, IsFile, Distinct, Older, SameOrder, ToSet

LEMMA CheckoutInv ==
  ASSUME TraceInv, NEW e \in DOMAIN commits, Checkout(e) PROVE FilesInv'
<1>1. tree' = commits[e].lines /\ head' = e /\ UNCHANGED <<commits, home>>
  BY DEF Checkout
<1>2. /\ \A c \in DOMAIN commits :
            /\ IsFile(commits[c].lines) /\ Older(commits[c].lines, Len(commits))
            /\ \A d \in DOMAIN commits : SameOrder(commits[c].lines, commits[d].lines)
      /\ home[1] = 0 /\ home # NoHash
  BY DEF TraceInv, FilesInv
<1>3. Len(commits) \in Nat
  BY CommitsAre DEF TraceInv
<1>4. IsFile(tree') /\ Older(tree', Len(commits) + 1)
  <2>1. IsFile(tree') /\ Older(tree', Len(commits))
    BY <1>1, <1>2
  <2> QED BY <1>3, <2>1 DEF Older
<1>5. IsFile(tree)' /\ Older(tree, Len(commits) + 1)'
  BY <1>1, <1>4 DEF IsFile, Distinct, Older
<1>6. \A c \in DOMAIN commits : SameOrder(commits[c].lines, tree')
  BY <1>1, <1>2
<1>7. home \in ToSet(tree') => home \in ToSet(commits[head'].lines)
  BY <1>1
<1> QED BY SMTT(30), <1>1, <1>2, <1>5, <1>6, <1>7 DEF FilesInv, IsFile, Distinct, Older, SameOrder, ToSet

(* What a commit adds. *)
LEMMA CommitIs ==
  ASSUME HashInv, Commit
  PROVE  LET n == Len(commits) + 1
         IN  /\ n \in Nat /\ Len(commits) \in Nat \ {0} /\ head \in DOMAIN commits
             /\ DOMAIN commits = 1 .. n - 1 /\ DOMAIN commits' = 1 .. n /\ Len(commits') = n
             /\ head' = n
             /\ \A c \in DOMAIN commits : commits'[c] = commits[c]
             /\ commits'[n].history = History(head) \cup {n} /\ commits'[n].lines = tree
             /\ commits'[n].patch = PrintedDiff(commits[head].lines, tree)
             /\ commits'[n].plain = Plain(commits[head].lines, tree)
             /\ UNCHANGED <<tree, anchors, comment, home, askew>>
<1> DEFINE n == Len(commits) + 1
           patch == PrintedDiff(commits[head].lines, tree)
           plain == Plain(commits[head].lines, tree)
           r == [history |-> History(head) \cup {n}, lines |-> tree, patch |-> patch,
                 plain |-> plain]
<1>1. head' = n /\ commits' = Append(commits, r) /\ UNCHANGED <<tree, anchors, comment, home, askew>>
  BY DEF Commit
<1>2. IsSeq(commits) /\ Len(commits) \in Nat \ {0} /\ DOMAIN commits = 1 .. Len(commits)
      /\ head \in DOMAIN commits
  BY CommitsAre DEF HashInv
<1>3. r.history = History(head) \cup {n} /\ r.lines = tree /\ r.patch = patch /\ r.plain = plain
  <2> HIDE DEF patch, plain
  <2> QED OBVIOUS
<1> HIDE DEF r
<1>4. /\ DOMAIN commits' = 1 .. n
      /\ \A c \in DOMAIN commits : commits'[c] = commits[c]
      /\ commits'[n] = r
  BY <1>1, <1>2, AppendIs
<1>5. Len(commits') = n
  <2>1. commits \in Seq({commits[i] : i \in DOMAIN commits})
    BY <1>2 DEF IsSeq
  <2> DEFINE T == {commits[i] : i \in DOMAIN commits}
  <2>2. commits \in Seq(T)
    BY <2>1
  <2> HIDE DEF T
  <2> QED BY <1>1, <2>2
<1> QED BY <1>1, <1>2, <1>3, <1>4, <1>5

LEMMA CommitHistory ==
  ASSUME TraceInv, Commit PROVE HistoryInv'
<1>0. PICK n, h : n = Len(commits) + 1 /\ h = head
  OBVIOUS
<1>1. /\ n \in Nat /\ n # 0 /\ h \in 1 .. n - 1
      /\ DOMAIN commits = 1 .. n - 1 /\ DOMAIN commits' = 1 .. n
      /\ \A c \in 1 .. n - 1 : commits'[c] = commits[c]
      /\ commits'[n].history = History(h) \cup {n} /\ commits'[n].lines = tree
      /\ commits'[n].patch = PrintedDiff(commits[h].lines, tree)
      /\ commits'[n].plain = Plain(commits[h].lines, tree)
      /\ home' = home
  BY <1>0, CommitIs DEF TraceInv
<1>2. /\ \A c \in 1 .. n - 1 : History(c) \subseteq 1 .. c /\ c \in History(c) /\ 1 \in History(c)
      /\ \A c \in 1 .. n - 1 : \A b \in History(c) : History(b) = History(c) \cap 1 .. b
      /\ \A c \in 1 .. n - 1 : c = 1 \/ \E p \in 1 .. c - 1 : Follows(c, p)
  BY <1>1 DEF TraceInv, HistoryInv
<1>3. home \in ToSet(tree) => home \in ToSet(commits[h].lines)
  BY <1>0 DEF TraceInv, FilesInv
<1>4. \A c \in 1 .. n - 1 : History(c)' = History(c)
  BY <1>1 DEF History
<1>5. History(n)' = History(h) \cup {n}
  BY <1>1 DEF History
<1>6. ASSUME NEW c \in 1 .. n, c # n
      PROVE  /\ History(c)' \subseteq 1 .. c /\ c \in History(c)' /\ 1 \in History(c)'
             /\ \A b \in History(c)' : History(b)' = History(c)' \cap 1 .. b
             /\ c = 1 \/ \E p \in 1 .. c - 1 : Follows(c, p)'
  <2>1. c \in 1 .. n - 1 /\ c \in Int
    BY <1>1, <1>6
  <2>2. History(c) \subseteq 1 .. c /\ c \in History(c) /\ 1 \in History(c)
    BY <1>2, <2>1
  <2>3. ASSUME NEW b \in History(c) PROVE History(b)' = History(c)' \cap 1 .. b
    <3>1. b \in 1 .. n - 1
      BY <1>1, <2>1, <2>2
    <3> QED BY <1>2, <1>4, <2>1, <3>1
  <2>4. ASSUME NEW p \in 1 .. c - 1, Follows(c, p) PROVE Follows(c, p)'
    <3>1. p \in 1 .. n - 1
      BY <1>1, <2>1
    <3>2. commits'[c] = commits[c] /\ commits'[p] = commits[p] /\ home' = home
      BY <1>1, <2>1, <3>1
    <3> QED BY <2>4, <3>2 DEF Follows, History
  <2>5. c = 1 \/ \E p \in 1 .. c - 1 : Follows(c, p)'
    BY <1>2, <2>1, <2>4
  <2> QED BY <1>4, <2>1, <2>2, <2>3, <2>5
<1>7. /\ History(n)' \subseteq 1 .. n /\ n \in History(n)' /\ 1 \in History(n)'
      /\ \A b \in History(n)' : History(b)' = History(n)' \cap 1 .. b
      /\ n = 1 \/ \E p \in 1 .. n - 1 : Follows(n, p)'
  <2>1. /\ History(h) \subseteq 1 .. h /\ h \in History(h) /\ 1 \in History(h)
        /\ \A b \in History(h) : History(b) = History(h) \cap 1 .. b
    BY <1>1, <1>2
  <2>2. History(h) \subseteq 1 .. n - 1
    BY <1>1, <2>1
  <2>3. ASSUME NEW b \in History(n)' PROVE History(b)' = History(n)' \cap 1 .. b
    <3>1. CASE b = n
      <4>1. History(n)' \subseteq 1 .. n
        BY <1>1, <1>5, <2>2
      <4> QED BY <3>1, <4>1
    <3>2. CASE b # n
      <4>1. b \in History(h) /\ b \in 1 .. n - 1
        BY <1>5, <2>2, <2>3, <3>2
      <4>2. n \notin 1 .. b
        BY <1>1, <4>1
      <4> QED BY <1>4, <1>5, <2>1, <4>1, <4>2
    <3> QED BY <3>1, <3>2
  <2>4. Follows(n, h)'
    <3>1. n \in 1 .. n /\ commits'[h] = commits[h] /\ History(h)' = History(h)
      BY <1>1, <1>4
    <3> QED BY <1>1, <1>3, <1>5, <3>1 DEF Follows
  <2> QED BY <1>1, <1>5, <2>1, <2>2, <2>3, <2>4
<1> QED BY <1>1, <1>6, <1>7 DEF HistoryInv

LEMMA CommitFiles ==
  ASSUME TraceInv, Commit PROVE FilesInv'
<1>0. PICK n, h : n = Len(commits) + 1 /\ h = head
  OBVIOUS
<1>1. /\ n \in Nat /\ n # 0 /\ h \in 1 .. n - 1 /\ head' = n
      /\ DOMAIN commits = 1 .. n - 1 /\ DOMAIN commits' = 1 .. n /\ Len(commits') = n
      /\ \A c \in 1 .. n - 1 : commits'[c] = commits[c]
      /\ commits'[n].lines = tree /\ home' = home /\ tree' = tree
  BY <1>0, CommitIs DEF TraceInv
<1>2. /\ \A c \in 1 .. n - 1 :
            /\ IsFile(commits[c].lines) /\ Older(commits[c].lines, n - 1)
            /\ SameOrder(commits[c].lines, tree)
            /\ \A d \in 1 .. n - 1 : SameOrder(commits[c].lines, commits[d].lines)
      /\ IsFile(tree) /\ Older(tree, n)
      /\ home[1] = 0 /\ home # NoHash
  BY <1>0, <1>1 DEF TraceInv, FilesInv
<1>3. \A c \in 1 .. n - 1 : Older(commits[c].lines, n)
  <2>1. \A f : Older(f, n - 1) => Older(f, n)
    BY <1>1 DEF Older
  <2> QED BY <1>2, <2>1
<1>4. Older(tree, n + 1)
  BY <1>1, <1>2 DEF Older
<1>5. \A c \in 1 .. n - 1 : SameOrder(tree, commits[c].lines)
  BY <1>2, SameOrderSym
<1>6. SameOrder(tree, tree)
  BY <1>1, <1>2, SameOrderSym
<1> DEFINE F == [c \in 1 .. n |-> IF c = n THEN tree ELSE commits[c].lines]
<1>7. /\ \A c \in 1 .. n :
            /\ IsFile(F[c]) /\ Older(F[c], n) /\ SameOrder(F[c], tree)
            /\ \A d \in 1 .. n : SameOrder(F[c], F[d])
      /\ \A c \in 1 .. n : commits'[c].lines = F[c]
  <2>1. F[n] = tree /\ \A c \in 1 .. n : c # n => F[c] = commits[c].lines /\ c \in 1 .. n - 1
    BY <1>1
  <2> HIDE DEF F
  <2>2. \A c \in 1 .. n : IsFile(F[c]) /\ Older(F[c], n) /\ SameOrder(F[c], tree)
    BY <1>2, <1>3, <1>6, <2>1
  <2>3. \A c, d \in 1 .. n : SameOrder(F[c], F[d])
    BY <1>2, <1>5, <1>6, <2>1
  <2>4. \A c \in 1 .. n : commits'[c].lines = F[c]
    BY <1>1, <2>1
  <2> QED BY <2>2, <2>3, <2>4
<1>8. home' \in ToSet(tree') => home' \in ToSet(commits'[n].lines)
  BY <1>1
<1> HIDE DEF F
<1>9. /\ \A c \in DOMAIN commits' :
            /\ IsFile(commits'[c].lines) /\ Older(commits'[c].lines, Len(commits'))
            /\ SameOrder(commits'[c].lines, tree')
            /\ \A d \in DOMAIN commits' : SameOrder(commits'[c].lines, commits'[d].lines)
      /\ IsFile(tree') /\ Older(tree', Len(commits') + 1)
      /\ home'[1] = 0 /\ home' # NoHash
      /\ home' \in ToSet(tree') => home' \in ToSet(commits'[head'].lines)
  BY <1>1, <1>2, <1>4, <1>7, <1>8
<1> QED BY <1>9 DEF FilesInv, IsFile, Distinct, Older, SameOrder, ToSet, NoHash

LEMMA CommitRight ==
  ASSUME TraceInv, Commit PROVE RightInv'
<1>1. /\ \A c \in DOMAIN commits : c \in DOMAIN commits' /\ commits'[c] = commits[c]
      /\ UNCHANGED <<anchors, comment, home, askew>>
  <2>0. PICK n : n = Len(commits) + 1
    OBVIOUS
  <2>1. /\ n \in Nat
        /\ DOMAIN commits = 1 .. n - 1 /\ DOMAIN commits' = 1 .. n
        /\ \A c \in DOMAIN commits : commits'[c] = commits[c]
        /\ UNCHANGED <<anchors, comment, home, askew>>
    BY <2>0, CommitIs DEF TraceInv
  <2> QED BY <2>1
<1>2. ASSUME NEW a, Good(a)
      PROVE  Good(a)' /\ (OnItsLine(a)' <=> OnItsLine(a)) /\ (OnHome(a)' <=> OnHome(a))
  <2>1. a.commit \in DOMAIN commits
    BY <1>2 DEF Good
  <2> QED BY <1>1, <1>2, <2>1 DEF Good, OnHome, OnItsLine
<1>3. PlainHistory' => PlainHistory
  BY <1>1 DEF PlainHistory
<1>4. /\ \A i \in DOMAIN anchors : Good(anchors[i])
      /\ \A i \in DOMAIN comment : i = 1 /\ Good(comment[i])
  BY DEF TraceInv, HashInv, RightInv
<1>5. /\ \A i \in DOMAIN anchors : i + 1 \in DOMAIN anchors => ~anchors[i].outdated
      /\ anchors[1].commit = 1 /\ IsSeq(comment)
      /\ PlainHistory /\ ~askew =>
            /\ \A i \in DOMAIN anchors : OnItsLine(anchors[i])
            /\ \A i \in DOMAIN comment : comment[i].outdated \/ OnHome(comment[i])
  BY DEF TraceInv, RightInv
<1>6. IsSeq(comment)'
  BY <1>1, <1>5 DEF IsSeq
<1>7. \A i \in DOMAIN anchors : OnItsLine(anchors[i])' <=> OnItsLine(anchors[i])
  BY <1>1, <1>2, <1>4
<1>8. \A i \in DOMAIN comment : Good(comment[i])' /\ (OnHome(comment[i])' <=> OnHome(comment[i]))
  BY <1>1, <1>2, <1>4
<1> QED BY <1>1, <1>3, <1>4, <1>5, <1>6, <1>7, <1>8 DEF RightInv

-----------------------------------------------------------------------------
(* Comments and traces.                                                    *)

Fine(a) == a.outdated \/ OnHome(a)

LEMMA CommentsMoved ==
  ASSUME TraceInv, NEW as, NEW cs, IsSeq(cs),
         \A i \in DOMAIN cs : i = 1 /\ Good(cs[i]) /\ (PlainHistory /\ ~askew' => Fine(cs[i])),
         \/ as = anchors
         \/ \E a : /\ as = Append(anchors, a) /\ ~Last(anchors).outdated
                   /\ PlainHistory /\ ~askew' => OnItsLine(a),
         anchors' = as, comment' = cs, askew => askew', UNCHANGED <<commits, head, tree, home>>
  PROVE  HistoryInv' /\ FilesInv' /\ RightInv'
<1>1. HistoryInv' /\ FilesInv'
  <2>1. HistoryInv /\ FilesInv
    BY DEF TraceInv
  <2>2. HistoryInv'
    BY <2>1 DEF HistoryInv, History, Follows
  <2>3. FilesInv'
    BY <2>1 DEF FilesInv, IsFile, Distinct, Older, SameOrder
  <2> QED BY <2>2, <2>3
<1>2. /\ \A i \in DOMAIN anchors : i + 1 \in DOMAIN anchors => ~anchors[i].outdated
      /\ anchors[1].commit = 1
      /\ PlainHistory /\ ~askew => \A i \in DOMAIN anchors : OnItsLine(anchors[i])
  BY DEF TraceInv, RightInv
<1>3. IsSeq(anchors) /\ DOMAIN anchors = 1 .. Len(anchors) /\ Len(anchors) \in Nat \ {0}
      /\ Last(anchors) = anchors[Len(anchors)]
  BY AnchorsAre DEF TraceInv, HashInv
<1>4. /\ \A i \in DOMAIN as : i + 1 \in DOMAIN as => ~as[i].outdated
      /\ as[1].commit = 1
      /\ PlainHistory /\ ~askew' => \A i \in DOMAIN as : OnItsLine(as[i])
  <2>1. CASE as = anchors
    BY <1>2, <2>1
  <2>2. CASE \E a : /\ as = Append(anchors, a) /\ ~Last(anchors).outdated
                    /\ PlainHistory /\ ~askew' => OnItsLine(a)
    <3>1. PICK a : /\ as = Append(anchors, a) /\ ~Last(anchors).outdated
                   /\ PlainHistory /\ ~askew' => OnItsLine(a)
      BY <2>2
    <3>2. PICK m : m = Len(anchors)
      OBVIOUS
    <3>3. /\ m \in Nat \ {0} /\ DOMAIN anchors = 1 .. m /\ DOMAIN as = 1 .. m + 1
          /\ \A i \in 1 .. m : as[i] = anchors[i]
          /\ as[m + 1] = a /\ ~anchors[m].outdated
      <4>1. m \in Nat \ {0} /\ DOMAIN anchors = 1 .. m /\ ~anchors[m].outdated
        BY <1>3, <3>1, <3>2
      <4>2. /\ DOMAIN Append(anchors, a) = 1 .. m + 1 /\ Append(anchors, a)[m + 1] = a
            /\ \A i \in DOMAIN anchors : Append(anchors, a)[i] = anchors[i]
        BY <1>3, <3>2, AppendIs
      <4> QED BY <3>1, <4>1, <4>2
    <3>a. 1 \in 1 .. m /\ \A i \in 1 .. m + 1 : i \in 1 .. m \/ (i = m + 1 /\ i + 1 \notin 1 .. m + 1)
      BY <3>3
    <3>4. \A i \in DOMAIN as : i + 1 \in DOMAIN as => ~as[i].outdated
      <4> SUFFICES ASSUME NEW i \in 1 .. m PROVE ~as[i].outdated
        BY <3>3, <3>a
      <4>1. i = m \/ i + 1 \in 1 .. m
        BY <3>3
      <4> QED BY <1>2, <3>3, <4>1
    <3>5. as[1].commit = 1
      BY <1>2, <3>3, <3>a
    <3>6. ASSUME PlainHistory, ~askew', NEW i \in DOMAIN as PROVE OnItsLine(as[i])
      <4>1. i \in 1 .. m \/ i = m + 1
        BY <3>3
      <4> QED BY <1>2, <3>1, <3>3, <3>6, <4>1
    <3> QED BY <3>4, <3>5, <3>6
  <2> QED BY <2>1, <2>2
<1>5. PlainHistory' <=> PlainHistory
  BY DEF PlainHistory
<1>6. \A a : (Good(a)' <=> Good(a)) /\ (OnItsLine(a)' <=> OnItsLine(a)) /\ (OnHome(a)' <=> OnHome(a))
  BY DEF Good, OnItsLine, OnHome
<1>7. IsSeq(comment)'
  BY DEF IsSeq
<1>8. /\ \A i \in DOMAIN anchors' : i + 1 \in DOMAIN anchors' => ~anchors'[i].outdated
      /\ anchors'[1].commit = 1
      /\ PlainHistory' /\ ~askew' => \A i \in DOMAIN anchors' : OnItsLine(as[i])
  BY <1>4, <1>5
<1>9. \A i \in DOMAIN cs : i = 1 /\ Good(cs[i])
  OBVIOUS
<1>10. PlainHistory /\ ~askew' => \A i \in DOMAIN cs : cs[i].outdated \/ OnHome(cs[i])
  BY DEF Fine
<1>11. \A i \in DOMAIN as : OnItsLine(anchors[i])' <=> OnItsLine(as[i])
  BY <1>6
<1>12. \A i \in DOMAIN cs : (Good(comment[i])' <=> Good(cs[i])) /\ (OnHome(comment[i])' <=> OnHome(cs[i]))
  BY <1>6
<1>13. RightInv'
  BY <1>5, <1>7, <1>8, <1>9, <1>10, <1>11, <1>12 DEF RightInv
<1> QED BY <1>1, <1>13

LEMMA InBatchGood ==
  ASSUME NEW a, Good(a), head \in DOMAIN commits, NEW batch
  PROVE  Good(TraceInBatch(a, batch).anchor)
<1>1. CASE IsAncestorOf(head, a.commit)
  <2>1. TraceInBatch(a, batch).anchor = a
    BY <1>1 DEF TraceInBatch
  <2> QED BY <2>1
<1>2. CASE ~IsAncestorOf(head, a.commit)
  <2>1. TraceInBatch(a, batch).anchor
            = TraceDiffs(a, head, commits[head].lines, GetDiffs(BatchFrom(batch), head))
    BY <1>2 DEF TraceInBatch, Traced
  <2>2. a.hash \in {NoHash, home}
    BY DEF Good
  <2> QED BY <2>1, <2>2, TraceDiffsGood
<1> QED BY <1>1, <1>2

LEMMA InBatchRight ==
  ASSUME HistoryAssumption, TraceInv, PlainHistory, Batch # <<>>,
         NEW a, Good(a), OnHome(a), IsStale(a), ~IsAskew(a, BatchFrom(Batch))
  PROVE  OnItsLine(TraceInBatch(a, Batch).anchor)
<1> DEFINE from == BatchFrom(Batch)
<1>1. ~a.outdated /\ a.commit # head
  BY DEF IsStale
<1>2. CASE IsAncestorOf(head, a.commit)
  <2>1. TraceInBatch(a, Batch).anchor = a
    BY <1>2 DEF TraceInBatch
  <2> QED BY <1>1, <2>1 DEF OnItsLine
<1>3. CASE ~IsAncestorOf(head, a.commit)
  <2>1. TraceInBatch(a, Batch).anchor
            = TraceDiffs(a, head, commits[head].lines, GetDiffs(from, head))
    BY <1>3 DEF TraceInBatch, Traced
  <2>2. from = a.commit
    BY <1>3 DEF IsAskew
  <2>3. a.commit \in History(head)
    <3>1. from \in History(head)
      BY BatchFromIs DEF TraceInv
    <3> QED BY <2>2, <3>1
  <2> HIDE DEF from
  <2>4. OnItsLine(TraceDiffs(a, head, commits[head].lines, GetDiffs(a.commit, head)))
    BY <1>1, <2>3, TracedRight DEF TraceInv
  <2> QED BY <2>1, <2>2, <2>4
<1> QED BY <1>2, <1>3

LEMMA CommentFine ==
  ASSUME TraceInv, PlainHistory, ~askew, NEW i \in DOMAIN comment
  PROVE  Fine(comment[i]) /\ Good(comment[i])
BY DEF TraceInv, RightInv, Fine

LEMMA CurrentRight ==
  ASSUME TraceInv, PlainHistory, ~askew, IsStale(Last(anchors))
  PROVE  Good(Last(anchors)) /\ OnHome(Last(anchors)) /\ ~Last(anchors).outdated
<1>1. Good(Last(anchors)) /\ Len(anchors) \in DOMAIN anchors /\ Last(anchors) = anchors[Len(anchors)]
  BY AnchorsAre DEF TraceInv
<1>2. OnItsLine(Last(anchors))
  BY <1>1 DEF TraceInv, RightInv
<1> QED BY <1>1, <1>2 DEF OnItsLine, IsStale

LEMMA TraceThreadInv ==
  ASSUME HistoryAssumption, TraceInv, TraceThread
  PROVE  HistoryInv' /\ FilesInv' /\ RightInv'
<1> DEFINE current == Last(anchors)
           inBatch == TraceInBatch(current, Batch)
           result == IF inBatch.outdated THEN TraceWithBacktrack(head) ELSE inBatch
           From == BatchFrom(Batch)
<1>0. PICK as, cs : as = anchors' /\ cs = comment'
  OBVIOUS
<1>1. /\ as = IF IsStale(current) THEN Append(anchors, result.anchor) ELSE anchors
      /\ cs = [i \in DOMAIN comment |->
                  IF IsStale(comment[i]) THEN TraceInBatch(comment[i], Batch).anchor
                  ELSE comment[i]]
      /\ askew' = (askew \/ \E a \in ToSet(Batch) : IsAskew(a, From))
      /\ UNCHANGED <<commits, head, tree, home>>
  BY <1>0 DEF TraceThread
<1>2. /\ InBatch(Last(anchors)) => Last(anchors) \in ToSet(Batch)
      /\ \A i \in DOMAIN comment : InBatch(comment[i]) => comment[i] \in ToSet(Batch)
      /\ \A a \in ToSet(Batch) : Batch # <<>>
  BY BatchIs DEF BatchOf, TraceInv, ToSet
<1>3. head \in DOMAIN commits
  BY DEF TraceInv, HashInv
<1>4. (askew => askew') /\ (~askew' => \A a \in ToSet(Batch) : ~IsAskew(a, From))
  BY <1>1
<1>5. ASSUME NEW i \in DOMAIN cs
      PROVE  i = 1 /\ Good(cs[i]) /\ (PlainHistory /\ ~askew' => Fine(cs[i]))
  <2>1. i \in DOMAIN comment /\ i = 1 /\ Good(comment[i])
        /\ cs[i] = IF IsStale(comment[i]) THEN TraceInBatch(comment[i], Batch).anchor ELSE comment[i]
    BY <1>1 DEF TraceInv, RightInv
  <2>2. CASE ~IsStale(comment[i])
    BY <1>4, <2>1, <2>2, CommentFine
  <2>3. CASE IsStale(comment[i])
    <3> DEFINE c == comment[i]
               d == TraceInBatch(comment[i], Batch).anchor
    <3>1. Good(d)
      BY <1>3, <2>1, InBatchGood
    <3>2. ASSUME PlainHistory, ~askew' PROVE Fine(d)
      <4>1. Fine(c) /\ IsStale(c)
        BY <1>4, <2>1, <2>3, <3>2, CommentFine
      <4>2. OnHome(c) /\ InBatch(c)
        BY <4>1 DEF Fine, IsStale, InBatch, OnHome
      <4>3. ~IsAskew(c, From) /\ Batch # <<>>
        BY <1>2, <1>4, <2>1, <3>2, <4>2
      <4>4. OnItsLine(d)
        BY <1>1, <2>1, <3>2, <4>1, <4>2, <4>3, InBatchRight
      <4> QED BY <4>4 DEF OnItsLine, Fine
    <3> QED BY <2>1, <2>3, <3>1, <3>2
  <2> QED BY <2>2, <2>3
<1>6. IsSeq(cs)
  <2>1. DOMAIN cs = DOMAIN comment /\ cs = [i \in DOMAIN comment |-> cs[i]]
    BY <1>1
  <2>2. DOMAIN comment = 1 .. Len(comment) /\ Len(comment) \in Nat
    BY CommentIs DEF TraceInv
  <2> QED BY <2>1, <2>2 DEF IsSeq
<1>7. \/ as = anchors
      \/ \E a : /\ as = Append(anchors, a) /\ ~Last(anchors).outdated
                /\ PlainHistory /\ ~askew' => OnItsLine(a)
  <2>1. CASE ~IsStale(current)
    BY <1>1, <2>1
  <2>2. CASE IsStale(current)
    <3>1. as = Append(anchors, result.anchor) /\ ~Last(anchors).outdated
      BY <1>1, <2>2 DEF IsStale
    <3>2. ASSUME PlainHistory, ~askew' PROVE OnItsLine(result.anchor)
      <4>1. ~askew /\ Good(current) /\ OnHome(current) /\ ~Last(anchors).outdated
        BY <1>4, <2>2, <3>2, CurrentRight
      <4>2. CASE inBatch.outdated
        <5>1. OnItsLine(TraceWithBacktrack(head).anchor)
          BY <3>2, <4>1, BacktrackRight
        <5> QED BY <4>2, <5>1
      <4>3. CASE ~inBatch.outdated
        <5>1. ~IsAskew(current, From) /\ Batch # <<>>
          <6>1. InBatch(current)
            BY <2>2, <4>1 DEF InBatch, OnHome
          <6> QED BY <1>2, <1>4, <3>2, <6>1
        <5>2. OnItsLine(inBatch.anchor)
          BY <1>1, <2>2, <3>2, <4>1, <5>1, InBatchRight
        <5> QED BY <4>3, <5>2
      <4> QED BY <4>2, <4>3
    <3> HIDE DEF result
    <3> QED BY <3>1, <3>2
  <2> QED BY <2>1, <2>2
<1>8. UNCHANGED <<commits, head, tree, home>>
  BY <1>1
<1> QED BY <1>0, <1>4, <1>5, <1>6, <1>7, <1>8, CommentsMoved

LEMMA ShowThreadInv ==
  ASSUME HistoryAssumption, TraceInv, ShowThread
  PROVE  HistoryInv' /\ FilesInv' /\ RightInv'
<1> DEFINE current == Last(anchors)
           result == TraceWithBacktrack(head).anchor
<1>0. PICK as, cs : as = anchors' /\ cs = comment'
  OBVIOUS
<1>1. /\ as = IF IsStale(current) THEN Append(anchors, result) ELSE anchors
      /\ cs = [i \in DOMAIN comment |->
                  IF IsStale(comment[i]) THEN TraceAnchor(comment[i], head).anchor
                  ELSE comment[i]]
      /\ askew' = (askew \/ \E a \in ToSet(comment) :
                                InBatch(a) /\ IsAskew(a, MergeBase(a.commit, head)))
      /\ UNCHANGED <<commits, head, tree, home>>
  BY <1>0 DEF ShowThread
<1>3. head \in DOMAIN commits
  BY DEF TraceInv, HashInv
<1>4. /\ askew => askew'
      /\ ~askew' => \A a \in ToSet(comment) :
                        InBatch(a) => ~IsAskew(a, MergeBase(a.commit, head))
  BY <1>1
<1>5. ASSUME NEW i \in DOMAIN cs
      PROVE  i = 1 /\ Good(cs[i]) /\ (PlainHistory /\ ~askew' => Fine(cs[i]))
  <2>1. i \in DOMAIN comment /\ i = 1 /\ Good(comment[i])
        /\ cs[i] = IF IsStale(comment[i]) THEN TraceAnchor(comment[i], head).anchor ELSE comment[i]
    BY <1>1 DEF TraceInv, RightInv
  <2>2. CASE ~IsStale(comment[i])
    BY <1>4, <2>1, <2>2, CommentFine
  <2>3. CASE IsStale(comment[i])
    <3> DEFINE c == comment[i]
               d == TraceAnchor(comment[i], head).anchor
    <3>1. Good(d)
      BY <1>3, <2>1, TraceAnchorGood
    <3>2. ASSUME PlainHistory, ~askew' PROVE Fine(d)
      <4>1. Fine(c) /\ IsStale(c)
        BY <1>4, <2>1, <2>3, <3>2, CommentFine
      <4>2. OnHome(c) /\ ~c.outdated /\ c.commit \in DOMAIN commits /\ InBatch(c)
        BY <2>1, <4>1 DEF Fine, IsStale, Good, InBatch, OnHome
      <4>3. c \in ToSet(comment)
        BY <2>1 DEF ToSet
      <4>4. ~IsAskew(c, MergeBase(c.commit, head))
        BY <1>4, <3>2, <4>2, <4>3
      <4>5. CASE IsAncestorOf(head, c.commit)
        <5>1. d = c
          BY <4>5 DEF TraceAnchor
        <5> QED BY <4>1, <5>1
      <4>6. CASE ~IsAncestorOf(head, c.commit)
        <5>1. c.commit \in History(head)
          <6>1. MergeBase(c.commit, head) = c.commit
            BY <4>4, <4>6 DEF IsAskew
          <6>2. MergeBase(c.commit, head) \in History(head)
            <7>1. MergeBase(c.commit, head) \in History(c.commit) \cap History(head)
              BY <1>3, <4>2, MergeBaseIs DEF TraceInv
            <7> QED BY <7>1
          <6> QED BY <6>1, <6>2
        <5>2. OnItsLine(d)
          BY <2>1, <3>2, <4>2, <5>1, TraceAnchorRight DEF TraceInv
        <5> QED BY <5>2 DEF OnItsLine, Fine
      <4> QED BY <4>5, <4>6
    <3> QED BY <2>1, <2>3, <3>1, <3>2
  <2> QED BY <2>2, <2>3
<1>6. IsSeq(cs)
  <2>1. DOMAIN cs = DOMAIN comment /\ cs = [i \in DOMAIN comment |-> cs[i]]
    BY <1>1
  <2>2. DOMAIN comment = 1 .. Len(comment) /\ Len(comment) \in Nat
    BY CommentIs DEF TraceInv
  <2> QED BY <2>1, <2>2 DEF IsSeq
<1>7. \/ as = anchors
      \/ \E a : /\ as = Append(anchors, a) /\ ~Last(anchors).outdated
                /\ PlainHistory /\ ~askew' => OnItsLine(a)
  <2>1. CASE ~IsStale(current)
    BY <1>1, <2>1
  <2>2. CASE IsStale(current)
    <3>1. as = Append(anchors, result) /\ ~Last(anchors).outdated
      BY <1>1, <2>2 DEF IsStale
    <3>2. ASSUME PlainHistory, ~askew' PROVE OnItsLine(result)
      BY <1>4, <3>1, <3>2, BacktrackRight
    <3> HIDE DEF result
    <3> QED BY <3>1, <3>2
  <2> QED BY <2>1, <2>2
<1>8. UNCHANGED <<commits, head, tree, home>>
  BY <1>1
<1> QED BY <1>0, <1>4, <1>5, <1>6, <1>7, <1>8, CommentsMoved

LEMMA CommentInv ==
  ASSUME TraceInv, Comment
  PROVE  HistoryInv' /\ FilesInv' /\ RightInv'
<1>1. PICK line \in DOMAIN commits[head].lines :
            /\ commits[head].lines[line] = home
            /\ comment' = <<[commit |-> head, line |-> line, stray |-> FALSE,
                             outdated |-> FALSE, hash |-> NoHash]>>
  BY DEF Comment
<1> DEFINE a == [commit |-> head, line |-> line, stray |-> FALSE, outdated |-> FALSE,
                 hash |-> NoHash]
<1>0. PICK c, as : c = a /\ as = anchors
  OBVIOUS
<1>2. comment' = <<c>> /\ as = anchors
  BY <1>0, <1>1
<1>3. c.commit = head /\ c.line = line /\ c.outdated = FALSE /\ c.hash = NoHash
      /\ c.stray = FALSE
  BY <1>0
<1> HIDE DEF a
<1>4. head \in DOMAIN commits
  BY DEF TraceInv, HashInv
<1>5. OnHome(c) /\ Good(c)
  BY <1>1, <1>3, <1>4 DEF OnHome, HashAt, Good
<1> DEFINE cs == <<c>>
<1>6. IsSeq(cs) /\ DOMAIN cs = {1} /\ cs[1] = c
  <2> DEFINE U == {cs[i] : i \in DOMAIN cs}
  <2>1. c \in U /\ DOMAIN cs = {1} /\ cs[1] = c
    OBVIOUS
  <2> HIDE DEF U
  <2>2. cs \in Seq(U)
    BY <2>1
  <2> QED BY <2>1, <2>2 DEF IsSeq, U
<1> HIDE DEF cs
<1>7. /\ \A i \in DOMAIN cs : i = 1 /\ Good(cs[i]) /\ (PlainHistory /\ ~askew' => Fine(cs[i]))
      /\ \/ as = anchors
         \/ \E x : /\ as = Append(anchors, x) /\ ~Last(anchors).outdated
                   /\ PlainHistory /\ ~askew' => OnItsLine(x)
  BY <1>2, <1>5, <1>6 DEF Fine
<1>8. /\ anchors' = as /\ comment' = cs /\ UNCHANGED <<commits, head, tree, home>>
      /\ askew => askew'
  BY <1>0, <1>2 DEF Comment, cs
<1> QED BY <1>6, <1>7, <1>8, CommentsMoved

LEMMA TraceInvNext ==
  ASSUME HistoryAssumption, TraceInv, [TraceNext]_traceVars
  PROVE  TraceInv'
<1>1. HashInv'
  BY HashNextInv DEF TraceInv
<1>2. HistoryInv' /\ FilesInv' /\ RightInv'
  <2>1. CASE Edit
    <3>1. UNCHANGED <<commits, anchors, comment, home, askew>>
      BY <2>1 DEF Edit
    <3> QED BY <2>1, <3>1, CommitsStay, EditInv DEF TraceInv
  <2>2. CASE RemoveFile
    <3>1. UNCHANGED <<commits, anchors, comment, home, askew>>
      BY <2>2 DEF RemoveFile
    <3> QED BY <2>2, <3>1, CommitsStay, RemoveFileInv DEF TraceInv
  <2>3. CASE Commit
    BY <2>3, CommitHistory, CommitFiles, CommitRight
  <2>4. ASSUME NEW c \in DOMAIN commits, Checkout(c)
        PROVE  HistoryInv' /\ FilesInv' /\ RightInv'
    <3>1. UNCHANGED <<commits, anchors, comment, home, askew>>
      BY <2>4 DEF Checkout
    <3> QED BY <2>4, <3>1, CommitsStay, CheckoutInv DEF TraceInv
  <2>5. CASE Comment
    BY <2>5, CommentInv
  <2>6. CASE TraceThread
    BY <2>6, TraceThreadInv
  <2>7. CASE ShowThread
    BY <2>7, ShowThreadInv
  <2>8. CASE UNCHANGED traceVars
    <3>1. UNCHANGED <<commits, head, tree, anchors, comment, home, askew>>
      BY <2>8 DEF traceVars
    <3>2. FilesInv'
      BY <3>1 DEF TraceInv, FilesInv, IsFile, Distinct, Older, SameOrder
    <3> QED BY <3>1, <3>2, CommitsStay DEF TraceInv
  <2> QED BY <2>1, <2>2, <2>3, <2>4, <2>5, <2>6, <2>7, <2>8 DEF TraceNext
<1> QED BY <1>1, <1>2 DEF TraceInv

LEMMA TraceInvAlways == TraceSpec => []TraceInv
<1>1. HistoryAssumption /\ TraceInit => TraceInv
  BY TraceInvInit
<1>2. HistoryAssumption /\ TraceInv /\ [TraceNext]_traceVars => TraceInv'
  BY TraceInvNext
<1> QED BY <1>1, <1>2, HistoryAssumption, PTL DEF TraceSpec

(* However often a thread is traced, along whatever history and with       *)
(* whatever hunks and batches: an anchor of it that carries a content hash *)
(* is on the line the thread was opened on (TraceAnchor, TraceDiffs,       *)
(* TraceWithBacktrack, trace.go; TraceAnchorsWithGit).                     *)
THEOREM HashesOnTheirLine == TraceSpec => []HashCatches
<1>1. TraceInv => HashCatches
  <2> SUFFICES ASSUME TraceInv, NEW i \in DOMAIN anchors, anchors[i].hash # NoHash
               PROVE  OnHome(anchors[i])
    BY DEF HashCatches, ToSet
  <2> QED BY DEF TraceInv, HashInv, Good
<1> QED BY <1>1, TraceInvAlways, PTL

(* Along a history of diffs in one hunk each, none of which removes or     *)
(* adds a line that prints as the name of a file, and where no anchor was  *)
(* moved by diffs that start at another commit than its own: every anchor  *)
(* of the thread and of its comment that is not outdated is on the line    *)
(* the thread was opened on, whatever was edited, removed, put back or     *)
(* checked out in between and however often anchors were traced            *)
(* (ParseDiffs, applyHunks, TraceDiffs, TraceAnchor, TraceWithBacktrack,   *)
(* TraceAnchorsWithGit).                                                   *)
THEOREM AnchorsOnTheirLine == TraceSpec => []AnchorOnLine
<1>1. TraceInv => AnchorOnLine
  <2> SUFFICES ASSUME TraceInv, PlainHistory, ~askew, NEW a \in ToSet(anchors \o comment)
               PROVE  a.outdated \/ OnHome(a)
    BY DEF AnchorOnLine
  <2>1. /\ \A i \in DOMAIN anchors : OnItsLine(anchors[i])
        /\ \A i \in DOMAIN comment : comment[i].outdated \/ OnHome(comment[i])
    BY DEF TraceInv, RightInv
  <2>2. \/ \E i \in DOMAIN anchors : a = anchors[i]
        \/ \E i \in DOMAIN comment : a = comment[i]
    <3> DEFINE both == anchors \o comment
    <3>1. PICK k \in DOMAIN both : a = both[k]
      BY DEF ToSet
    <3>2. /\ DOMAIN anchors = 1 .. Len(anchors) /\ Len(anchors) \in Nat
          /\ DOMAIN comment = 1 .. Len(comment) /\ Len(comment) \in Nat
      BY AnchorsAre, CommentIs DEF TraceInv
    <3>3. /\ DOMAIN both = 1 .. Len(anchors) + Len(comment)
          /\ \A i \in DOMAIN both : both[i] = IF i <= Len(anchors) THEN anchors[i]
                                              ELSE comment[i - Len(anchors)]
      <4>1. anchors \in Seq({anchors[i] : i \in DOMAIN anchors})
            /\ comment \in Seq({comment[i] : i \in DOMAIN comment})
        BY DEF TraceInv, HashInv, RightInv, IsSeq
      <4> QED BY <3>2, <4>1
    <3> HIDE DEF both
    <3>4. CASE k <= Len(anchors)
      <4>1. k \in DOMAIN anchors /\ a = anchors[k]
        BY <3>1, <3>2, <3>3, <3>4
      <4> QED BY <4>1
    <3>5. CASE ~(k <= Len(anchors))
      <4>1. k - Len(anchors) \in DOMAIN comment /\ a = comment[k - Len(anchors)]
        BY <3>1, <3>2, <3>3, <3>5
      <4> QED BY <4>1
    <3> QED BY <3>4, <3>5
  <2> QED BY <2>1, <2>2 DEF OnItsLine
<1> QED BY <1>1, TraceInvAlways, PTL

(* There, an anchor of the thread is outdated only if the file of its      *)
(* commit has the line no more: tracing gives up no line that is there     *)
(* (TraceDiffs, TraceWithBacktrack, TraceAnchorsWithGit).                  *)
THEOREM OutdatedAreGone == TraceSpec => []OutdatedMeansGone
<1>1. TraceInv => OutdatedMeansGone
  <2> SUFFICES ASSUME TraceInv, PlainHistory, ~askew, NEW i \in DOMAIN anchors, anchors[i].outdated
               PROVE  home \notin ToSet(commits[anchors[i].commit].lines)
    BY DEF OutdatedMeansGone, ToSet
  <2> QED BY DEF TraceInv, RightInv, OnItsLine
<1> QED BY <1>1, TraceInvAlways, PTL

(* Whatever the history: if the current anchor is right, the line that the *)
(* service shows for it is the thread's line in the working tree, or the   *)
(* thread is shown as outdated when that is gone, for a plain diff; with a *)
(* content hash the second half holds for any diff that adds no line that  *)
(* prints as the name of a file (buildView, query.go; TraceToWorkingTree). *)
THEOREM ViewsOnTheirLine == TraceSpec => []ViewOnLine
<1>1. HistoryAssumption /\ TraceInv => ViewOnLine
  BY ViewRight DEF TraceInv
<1> QED BY <1>1, TraceInvAlways, HistoryAssumption, PTL
=============================================================================
