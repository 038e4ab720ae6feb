----------------------------- MODULE ImportProofs -----------------------------
(***************************************************************************)
(* Pulls and an extraction beside other commands in one directory, for any *)
(* number of pullers, remote threads, source files and groups.             *)
(***************************************************************************)
EXTENDS MCImport, FiniteSetTheorems, TLAPS

(* The time of a comment is that of its last edit, but for a review. *)
RemoteComments ==
    {c \in [id : Nat, review : BOOLEAN, body : Nat, updated : Nat] :
        c.updated = IF c.review THEN 0 ELSE c.body}

LocalNames == {"local"} \X Nat

RemoteNames == {"remote"} \X Nat

Comments == [of : LocalNames \cup RemoteNames, bodies : Seq(Nat), updated : Nat]

ThreadRecords ==
    [number : Nat, remote : {Nobody} \cup RemoteThreads, comments : SUBSET Comments]

Entries == [file : {Nobody} \cup Nat, thread : ThreadRecords]

Waiting == [stage : {"idle", "threads", "done"}, there : SUBSET RemoteComments]

Fetching ==
    [stage : {"comments", "conversation", "index"}, there : SUBSET RemoteComments, page : Nat,
     got : [RemoteThreads -> Seq(RemoteComments)], more : SUBSET ReviewThreads,
     total : [ReviewThreads -> Nat]]

Writing == [stage : {"lock", "write"}, there : SUBSET RemoteComments, number : Nat, left : Seq(Entries)]

Items ==
    [of : LocalNames, kind : {"comment", "reference", "code"}, name : Groups \cup {NoGroup}]

GroupRecords ==
    [name : Groups \cup {NoGroup}, entries : SUBSET LocalNames, refs : SUBSET LocalNames]

Extraction ==
    [stage : {"lock", "write", "delete"}, contents : [Sources -> SUBSET typed], number : Nat,
     left : Seq(GroupRecords), undone : SUBSET Sources]

(* The files that numbered threads have had are 1, 2, ... *)
Numbered == 1 .. files

DirTypeOK ==
    /\ files \in Nat
    /\ IsFiniteSet(DOMAIN threads)
    /\ DOMAIN threads \subseteq Numbered \cup Groups
    /\ threads = [f \in DOMAIN threads |-> threads[f]]
    /\ \A f \in DOMAIN threads : threads[f] \in ThreadRecords

PullTypeOK ==
    /\ remote \in [RemoteThreads -> Seq(RemoteComments)]
    /\ pull \in [Pullers -> Waiting \cup Fetching \cup Writing]
    /\ shared \in BOOLEAN

RunTypeOK ==
    /\ typed \subseteq Items /\ IsFiniteSet(typed)
    /\ source \in [Sources -> SUBSET typed]
    /\ \/ run = NoRun
       \/ /\ run = [stage |-> "read", contents |-> run.contents]
          /\ DOMAIN run.contents \subseteq Sources
          /\ run.contents \in [DOMAIN run.contents -> SUBSET typed]
       \/ run \in Extraction
    /\ replaced \subseteq LocalNames \cup RemoteNames
    /\ broken \in BOOLEAN

ImportTypeOK ==
    /\ inputs \in Nat
    /\ exposed \subseteq LocalNames
    /\ DirTypeOK
    /\ PullTypeOK
    /\ RunTypeOK

-----------------------------------------------------------------------------
(* Who holds the lock gives numbers that are above all that are there.     *)

LockInv ==
    /\ \A p \in Pullers : At(p, "write") <=> lock = p
    /\ InStage({"write"}) <=> lock = Extractor
    /\ lock \in Pullers \cup {Nobody, Extractor}

(* The number that the next new thread of a writer will get. *)
AboveAll(number) == number > 0 /\ \A f \in DOMAIN threads \ revived : threads[f].number < number

SameThread(thread, other) == thread.number = other.number /\ thread.remote = other.remote

CopyOf(f, entry) ==
    /\ f \in Numbered
    /\ entry.thread.number > 0
    /\ f \in DOMAIN threads => SameThread(entry.thread, threads[f])

LeftOf(p) == IF At(p, "lock") \/ At(p, "write") THEN {pull[p].left[i] : i \in DOMAIN pull[p].left} ELSE {}

NumberInv ==
    /\ NumbersApart
    /\ \A f \in DOMAIN threads : IF f \in Groups THEN threads[f].number = 0 /\ threads[f].remote = Nobody
                                 ELSE threads[f].number > 0
    /\ \A p \in Pullers : At(p, "write") => AboveAll(pull[p].number)
    /\ InStage({"write"}) => AboveAll(run.number)
    /\ \A p \in Pullers : \A entry \in LeftOf(p) :
            /\ entry.thread.remote # Nobody
            /\ entry.file # Nobody => CopyOf(entry.file, entry)
    /\ \A p, q \in Pullers : \A entry \in LeftOf(p), other \in LeftOf(q) :
            entry.file = other.file /\ entry.file # Nobody => SameThread(entry.thread, other.thread)

ImportInv == ImportTypeOK /\ LockInv /\ NumberInv

-----------------------------------------------------------------------------
(* What a pull will write over a thread has every comment that the thread  *)
(* has by then; and all have the same when there is no thread any more,    *)
(* and one of them may bring it back.                                      *)

SharedInv == \A p, q \in Pullers : Running(p) /\ Running(q) /\ p # q => shared

LeftApart ==
    \A p \in Pullers : At(p, "lock") \/ At(p, "write") =>
        \A i, j \in DOMAIN pull[p].left :
            pull[p].left[i].thread.remote = pull[p].left[j].thread.remote => i = j

Covers(thread, other) ==
    \A of \in NamesIn(other) :
        of \in NamesIn(thread) \cup exposed \/ (shared /\ of \in RemoteNames)

CoveredBy(thread, other) ==
    \A of \in NamesIn(thread) : of \in NamesIn(other) \cup exposed \cup RemoteNames

CopiesInv ==
    /\ SharedInv
    /\ LeftApart
    /\ \A p \in Pullers : \A entry \in LeftOf(p) : entry.file \in DOMAIN threads =>
            /\ Covers(entry.thread, threads[entry.file])
            /\ CoveredBy(entry.thread, threads[entry.file])
    /\ \A p, q \in Pullers : \A entry \in LeftOf(p), other \in LeftOf(q) :
            entry.file = other.file /\ entry.file # Nobody => Covers(entry.thread, other.thread)

-----------------------------------------------------------------------------
(* What an extraction takes from the sources is in a thread by then.       *)

InThreads(of) == \E f \in DOMAIN threads : of \in NamesIn(threads[f])

Safe(of) == InThreads(of) \/ of \in exposed \cup replaced \cup removed

Grouped == InStage({"lock", "write", "delete"})

ToWrite == UNION {run.left[i].entries : i \in DOMAIN run.left}

TypedInv ==
    /\ \A item \in typed : item.of[2] < inputs
    /\ \A a, b \in typed : a.of = b.of => a = b

LossInv ==
    /\ TypedInv
    /\ \A f \in Stale : \A item \in source[f] \ run.contents[f] : item.of \in exposed
    /\ Grouped => \A f \in Sources : \A item \in run.contents[f] :
            item.kind = "comment" => Safe(item.of) \/ item.of \in ToWrite
    /\ InStage({"delete"}) => run.left = <<>>
    /\ NothingLost

-----------------------------------------------------------------------------
(* It takes them once.                                                     *)

TypedNames == {item.of : item \in typed}

(* Names of local comments are given in their order. *)
Past(of) == of[1] = "local" => of[2] < inputs

NamesInv ==
    /\ \A f \in DOMAIN threads : \A of \in NamesIn(threads[f]) : Past(of)
    /\ \A p \in Pullers : \A entry \in LeftOf(p) : \A of \in NamesIn(entry.thread) :
            Past(of) /\ of \notin TypedNames
    /\ \A item \in typed : \A f \in DOMAIN threads :
            item.of \in NamesIn(threads[f]) => threads[f].remote = Nobody /\ item.kind = "comment"

FilesInv ==
    /\ \A f, g \in Sources : source[f] \cap source[g] # {} => f = g
    /\ \A f \in Stale : run.contents[f] \subseteq source[f]

GroupsInv ==
    /\ InStage({"lock", "write"}) =>
            \A f \in Sources : (\E item \in run.contents[f] : IsReviewComment(item)) => f \in run.undone
    /\ Grouped => \A of \in ToWrite : \E f \in Sources : \E item \in run.contents[f] :
            item.kind = "comment" /\ item.of = of
    /\ Grouped => \A i, j \in DOMAIN run.left : run.left[i].entries \cap run.left[j].entries # {} => i = j

HomesApart == \A item \in typed : \A f, g \in DOMAIN threads :
    item.of \in NamesIn(threads[f]) /\ item.of \in NamesIn(threads[g]) => f = g

ApartInv ==
    /\ HomesApart
    /\ InStage({"write"}) => \A of \in ToWrite : ~InThreads(of)
    /\ \A f \in Sources : \A item \in source[f] : InThreads(item.of) =>
            InStage({"write", "delete"}) /\ f \in run.undone /\ item \in run.contents[f]

OnceInv == NamesInv /\ FilesInv /\ GroupsInv /\ (~broken => ApartInv)

-----------------------------------------------------------------------------
(* Remote comments.                                                        *)

Got(p) == IF pull[p].stage \in {"comments", "conversation", "index"}
          THEN UNION {ElementsOf(pull[p].got[t]) : t \in RemoteThreads} ELSE {}

Names(c) == <<"remote", c.id>>

-----------------------------------------------------------------------------
(* Lemmas about the operators.                                             *)

(* A finite set of integers has a greatest element. *)
LEMMA MaxOf ==
  ASSUME NEW S \in SUBSET Int, IsFiniteSet(S), S # {}
  PROVE  Max(S) \in S /\ \A x \in S : x <= Max(S)
<1> DEFINE Above(x) == {y \in S : y > x}
           Aboves == {Above(x) : x \in S}
<1>1. Aboves \subseteq SUBSET S /\ Aboves # {}
  OBVIOUS
<1>2. IsWellFoundedOn(StrictSubsetOrdering(S), SUBSET S)
  BY FS_StrictSubsetOrderingWellFounded, FS_FiniteSubsetsOfFinite
<1>3. PICK A \in Aboves : \A B \in Aboves : <<B, A>> \notin StrictSubsetOrdering(S)
  <2> HIDE DEF Aboves
  <2> QED BY <1>1, <1>2, WFMin
<1>4. PICK x \in S : A = Above(x)
  OBVIOUS
<1>5. \A y \in S : y <= x
  <2> SUFFICES ASSUME NEW y \in S, y > x PROVE FALSE
    OBVIOUS
  <2>1. Above(y) \subseteq Above(x) /\ y \in Above(x) /\ y \notin Above(y)
    <3>1. x \in Int /\ y \in Int /\ \A z \in S : z \in Int
      OBVIOUS
    <3>2. ASSUME NEW z \in S, z > y PROVE z > x
      <4>1. z \in Int
        BY <3>1
      <4> QED BY <3>1, <3>2, <4>1
    <3>3. ~(y > y)
      BY <3>1
    <3> QED BY <3>2, <3>3
  <2>2. <<Above(y), A>> \in StrictSubsetOrdering(S)
    BY <1>4, <2>1 DEF StrictSubsetOrdering
  <2> QED BY <1>3, <2>2
<1> QED BY <1>5 DEF Max

LEMMA MinOfTwo ==
  ASSUME NEW a \in Int, NEW b \in Int
  PROVE  Min({a, b}) = IF a <= b THEN a ELSE b
BY DEF Min

(* SetToSeq lists the elements of a finite set, each once. *)
LEMMA SetToSeqOf ==
  ASSUME NEW S, IsFiniteSet(S)
  PROVE  /\ SetToSeq(S) \in Seq(S)
         /\ \A x \in S : \E i \in DOMAIN SetToSeq(S) : SetToSeq(S)[i] = x
         /\ \A i, j \in DOMAIN SetToSeq(S) : SetToSeq(S)[i] = SetToSeq(S)[j] => i = j
<1> DEFINE n == Cardinality(S)
<1>1. n \in Nat /\ ExistsBijection(1 .. n, S)
  BY FS_CardinalityType
<1>2. PICK f \in [1 .. n -> S] : f \in Bijection(1 .. n, S)
  BY <1>1 DEF ExistsBijection, Bijection, Injection
<1>3. IsInjective(f)
  BY <1>2 DEF Bijection, Injection, IsInjective
<1>4. SetToSeq(S) \in [1 .. n -> S] /\ IsInjective(SetToSeq(S))
  BY <1>2, <1>3 DEF SetToSeq
<1> DEFINE s == SetToSeq(S)
<1> HIDE DEF s, n
<1>5. s \in Seq(S) /\ DOMAIN s = 1 .. n
  BY <1>1, <1>4 DEF s
<1>6. \A i, j \in DOMAIN s : s[i] = s[j] => i = j
  BY <1>4 DEF IsInjective, s
<1>7. s \in Injection(1 .. n, S)
  BY <1>4, <1>5, <1>6 DEF Injection, IsInjective, s
<1>8. s \in Surjection(1 .. n, S)
  <2>1. IsFiniteSet(1 .. n) /\ Cardinality(1 .. n) = n
    BY <1>1, FS_Interval
  <2>2. Cardinality(1 .. n) = Cardinality(S)
    BY <2>1 DEF n
  <2> QED BY <1>7, <2>1, <2>2, FS_Injection
<1>9. \A x \in S : \E i \in DOMAIN s : s[i] = x
  BY <1>5, <1>8 DEF Surjection
<1> QED BY <1>5, <1>6, <1>9 DEF s

LEMMA RangeFinite ==
  ASSUME NEW f, IsFiniteSet(DOMAIN f)
  PROVE  IsFiniteSet({f[x] : x \in DOMAIN f})
<1> DEFINE T == {f[x] : x \in DOMAIN f}
           g == [x \in DOMAIN f |-> f[x]]
<1>1. g \in Surjection(DOMAIN f, T)
  BY DEF Surjection
<1> HIDE DEF T, g
<1>2. IsFiniteSet(T)
  BY <1>1, FS_Surjection
<1> QED BY <1>2 DEF T

LEMMA SubSeqOf ==
  ASSUME NEW S, NEW s \in Seq(S), NEW m \in Nat \ {0}, NEW n \in Nat, n <= Len(s)
  PROVE  /\ SubSeq(s, m, n) \in Seq(S)
         /\ Len(SubSeq(s, m, n)) = IF m <= n THEN n - m + 1 ELSE 0
         /\ \A i \in 1 .. Len(SubSeq(s, m, n)) : SubSeq(s, m, n)[i] = s[m + i - 1]
OBVIOUS

LEMMA FirstOfType ==
  ASSUME NEW S, NEW s \in Seq(S)
  PROVE  /\ FirstOf(s) \in Seq(S)
         /\ Len(FirstOf(s)) = IF PageSize <= Len(s) THEN PageSize ELSE Len(s)
         /\ \A i \in 1 .. Len(FirstOf(s)) : FirstOf(s)[i] = s[i]
<1>1. PageSize \in Nat \ {0} /\ Len(s) \in Nat
  BY PullAssumption
<1>2. Min({PageSize, Len(s)}) = IF PageSize <= Len(s) THEN PageSize ELSE Len(s)
  BY <1>1, MinOfTwo
<1> DEFINE n == Min({PageSize, Len(s)})
<1>3. n \in Nat /\ n <= Len(s)
  BY <1>1, <1>2
<1> HIDE DEF n
<1>4. /\ SubSeq(s, 1, n) \in Seq(S) /\ Len(SubSeq(s, 1, n)) = n
      /\ \A i \in 1 .. n : SubSeq(s, 1, n)[i] = s[i]
  BY <1>3, SubSeqOf
<1> QED BY <1>2, <1>4 DEF FirstOf, n

(* Without its i-th element a sequence has the elements before and behind. *)
LEMMA RemoveAtOf ==
  ASSUME NEW S, NEW s \in Seq(S), NEW i \in 1 .. Len(s)
  PROVE  /\ RemoveAt(s, i) \in Seq(S)
         /\ Len(RemoveAt(s, i)) = Len(s) - 1
         /\ \A j \in 1 .. Len(s) - 1 : RemoveAt(s, i)[j] = s[IF j < i THEN j ELSE j + 1]
<1> DEFINE a == SubSeq(s, 1, i - 1)
           b == SubSeq(s, i + 1, Len(s))
<1>1. /\ a \in Seq(S) /\ Len(a) = i - 1
      /\ \A j \in 1 .. Len(a) : a[j] = s[j]
  BY SubSeqOf
<1>2. /\ b \in Seq(S) /\ Len(b) = Len(s) - i
      /\ \A j \in 1 .. Len(b) : b[j] = s[i + j]
  BY SubSeqOf
<1> HIDE DEF a, b
<1>3. a \o b \in Seq(S) /\ Len(a \o b) = Len(s) - 1
  <2>1. a \in Seq(S) /\ b \in Seq(S)
    BY <1>1, <1>2
  <2>2. a \o b \in Seq(S) /\ Len(a \o b) = Len(a) + Len(b)
    BY <2>1
  <2>3. Len(s) \in Nat
    OBVIOUS
  <2> QED BY <1>1, <1>2, <2>2, <2>3
<1>4. ASSUME NEW j \in 1 .. Len(s) - 1
      PROVE  (a \o b)[j] = s[IF j < i THEN j ELSE j + 1]
  <2>1. CASE j < i
    BY <1>1, <1>2, <2>1
  <2>2. CASE ~(j < i)
    <3>1. (a \o b)[j] = b[j - Len(a)] /\ j - Len(a) \in 1 .. Len(b)
      BY <1>1, <1>2, <2>2
    <3> QED BY <1>1, <1>2, <2>2, <3>1
  <2> QED BY <2>1, <2>2
<1> QED BY <1>3, <1>4 DEF RemoveAt, a, b

-----------------------------------------------------------------------------
(* Lemmas about the directory.                                             *)

LEMMA NewFileOf ==
  ASSUME DirTypeOK
  PROVE  /\ NewFile \in Nat \ {0} /\ NewFile \notin Groups \cup DOMAIN threads \cup Numbered
         /\ Numbered \subseteq Nat \ {0} /\ Numbered \cap Groups = {} /\ Nobody \notin Numbered
         /\ Nobody \notin DOMAIN threads
<1>1. NewFile \in Nat \ {0} /\ NewFile \notin Numbered /\ Numbered \subseteq Nat \ {0}
  BY DEF DirTypeOK, Numbered, NewFile
<1> QED BY <1>1, SharedAssumption DEF DirTypeOK

(* A thread is written over one that is there, to a group's file, to one   *)
(* that was there, or to a new one, and no other file changes.             *)
LEMMA WrittenOf ==
  ASSUME DirTypeOK, NEW file, NEW thread \in ThreadRecords, threads' = Written(file, thread),
         \/ file \in DOMAIN threads \cup Groups \cup Numbered /\ files' = files
         \/ file = NewFile /\ files' = NewFile
  PROVE  /\ DirTypeOK' /\ Numbered \subseteq Numbered'
         /\ DOMAIN threads' = DOMAIN threads \cup {file}
         /\ threads'[file] = thread
         /\ \A f \in DOMAIN threads : f # file => threads'[f] = threads[f]
<1>1. /\ DOMAIN threads' = DOMAIN threads \cup {file}
      /\ threads' = [f \in DOMAIN threads' |-> threads'[f]]
      /\ threads'[file] = thread
      /\ \A f \in DOMAIN threads : f # file => threads'[f] = threads[f]
  BY DEF Written
<1>2. \A f \in DOMAIN threads' : threads'[f] \in ThreadRecords
  BY <1>1 DEF DirTypeOK
<1>3. IsFiniteSet(DOMAIN threads')
  BY <1>1, FS_AddElement DEF DirTypeOK
<1>4. files' \in Nat /\ Numbered \subseteq Numbered' /\ file \in DOMAIN threads \cup Groups \cup Numbered'
  BY DEF DirTypeOK, Numbered, NewFile
<1>5. DOMAIN threads' \subseteq Numbered' \cup Groups
  BY <1>1, <1>4 DEF DirTypeOK
<1> QED BY <1>1, <1>2, <1>3, <1>4, <1>5 DEF DirTypeOK

(* The number of a new thread is above all that are there. *)
LEMMA NextNumberOf ==
  ASSUME DirTypeOK
  PROVE  NextNumber \in Nat \ {0} /\ AboveAll(NextNumber)
<1> DEFINE numbers == [f \in DOMAIN threads |-> threads[f].number]
           S == {0} \cup {threads[f].number : f \in DOMAIN threads}
<1>1. S = {0} \cup {numbers[f] : f \in DOMAIN numbers}
  OBVIOUS
<1>2. IsFiniteSet({numbers[f] : f \in DOMAIN numbers})
  <2>1. IsFiniteSet(DOMAIN numbers)
    BY DEF DirTypeOK
  <2> HIDE DEF numbers
  <2> QED BY <2>1, RangeFinite
<1>3. IsFiniteSet(S)
  <2> HIDE DEF numbers, S
  <2> QED BY <1>1, <1>2, FS_Singleton, FS_Union
<1>4. S \subseteq Nat /\ 0 \in S /\ \A f \in DOMAIN threads : threads[f].number \in S
  BY DEF DirTypeOK, ThreadRecords
<1>5. Max(S) \in S /\ \A x \in S : x <= Max(S)
  <2> HIDE DEF S
  <2> QED BY <1>3, <1>4, MaxOf
<1> HIDE DEF S
<1>6. Max(S) \in Nat /\ NextNumber = 1 + Max(S)
  BY <1>4, <1>5 DEF S, NextNumber
<1>7. \A f \in DOMAIN threads : threads[f].number \in Nat /\ threads[f].number <= Max(S)
  BY <1>4, <1>5
<1>8. \A f \in DOMAIN threads : threads[f].number < NextNumber
  BY <1>6, <1>7
<1> QED BY <1>6, <1>8 DEF AboveAll

LEMMA CommentType == \A of \in LocalNames : Comment(of) \in Comments
BY DEF Comment, Comments

LEMMA LocalType == ASSUME inputs \in Nat PROVE Local \in LocalNames
BY DEF Local, LocalNames

LEMMA ThreadType ==
  ASSUME NEW number \in Nat, NEW t \in {Nobody} \cup RemoteThreads, NEW comments \in SUBSET Comments
  PROVE  /\ Thread(number, t, comments) \in ThreadRecords
         /\ Thread(number, t, comments).number = number
         /\ Thread(number, t, comments).remote = t
         /\ Thread(number, t, comments).comments = comments
BY DEF Thread, ThreadRecords

-----------------------------------------------------------------------------
(* Lemmas about merging.                                                   *)

LEMMA PulledType ==
  ASSUME NEW c \in RemoteComments
  PROVE  /\ Pulled(c) \in Comments
         /\ Pulled(c).of = Names(c) /\ Names(c) \in RemoteNames
         /\ Pulled(c).bodies = <<c.body>> /\ Pulled(c).updated = c.updated
BY DEF Pulled, Comments, RemoteComments, RemoteNames, Names

LEMMA UpdatedType ==
  ASSUME NEW comment \in Comments, NEW c \in RemoteComments
  PROVE  /\ Updated(comment, c) \in Comments
         /\ Updated(comment, c).of = comment.of
         /\ Updated(comment, c).updated = c.updated
         /\ Updated(comment, c).bodies = IF comment.updated = c.updated THEN comment.bodies
                                         ELSE Append(comment.bodies, c.body)
<1>1. c.updated \in Nat /\ Append(comment.bodies, c.body) \in Seq(Nat)
  BY DEF Comments, RemoteComments
<1>2. CASE comment.updated = c.updated
  BY <1>2 DEF Updated
<1>3. CASE comment.updated # c.updated
  BY <1>1, <1>3 DEF Updated, Comments
<1> QED BY <1>2, <1>3

LEMMA ElementsType == ASSUME NEW S, NEW s \in Seq(S) PROVE ElementsOf(s) \subseteq S
BY DEF ElementsOf

LEMMA MappedType ==
  ASSUME NEW got \in Seq(RemoteComments)
  PROVE  Mapped(got) \subseteq RemoteComments /\ Mapped(got) \subseteq ElementsOf(got)
BY ElementsType DEF Mapped

(* A merged thread has the comments of the thread, with what was fetched   *)
(* of them, and those that are new, and no others.                         *)
LEMMA MergeThreadOf ==
  ASSUME NEW thread \in ThreadRecords, NEW got \in Seq(RemoteComments)
  PROVE  LET merged == MergeThread(thread, got)
         IN  /\ merged \in ThreadRecords
             /\ merged.number = thread.number /\ merged.remote = thread.remote
             /\ \A m \in merged.comments :
                   \/ /\ m \in thread.comments
                      /\ \A c \in Mapped(got) : m.of # Names(c)
                   \/ \E k \in thread.comments, c \in Mapped(got) :
                         k.of = Names(c) /\ m = Updated(k, c)
                   \/ \E c \in Mapped(got) :
                         Names(c) \notin NamesIn(thread) /\ m = Pulled(c)
             /\ \A k \in thread.comments : \E m \in merged.comments :
                   \/ m = k /\ \A c \in Mapped(got) : m.of # Names(c)
                   \/ \E c \in Mapped(got) : k.of = Names(c) /\ m = Updated(k, c)
             /\ \A c \in Mapped(got) : Names(c) \notin NamesIn(thread) => Pulled(c) \in merged.comments
<1> DEFINE Counterpart(comment) == {c \in Mapped(got) : comment.of = <<"remote", c.id>>}
           Known(comment) == IF Counterpart(comment) = {} THEN comment
                             ELSE Updated(comment, CHOOSE c \in Counterpart(comment) : TRUE)
           known == {Known(comment) : comment \in thread.comments}
           new == {Pulled(c) : c \in {d \in Mapped(got) : Names(d) \notin NamesIn(thread)}}
           merged == MergeThread(thread, got)
<1>1. Mapped(got) \subseteq RemoteComments /\ thread.comments \subseteq Comments
  BY MappedType DEF ThreadRecords
<1>2. merged = [thread EXCEPT !.comments = known \cup new]
  BY DEF MergeThread, NamesIn, Names
<1>3. ASSUME NEW k \in thread.comments
      PROVE  \/ Known(k) = k /\ \A c \in Mapped(got) : k.of # Names(c)
             \/ \E c \in Mapped(got) : k.of = Names(c) /\ Known(k) = Updated(k, c)
  <2>1. CASE Counterpart(k) = {}
    BY <2>1 DEF Names
  <2>2. CASE Counterpart(k) # {}
    <3> DEFINE c == CHOOSE c \in Counterpart(k) : TRUE
    <3>1. c \in Counterpart(k)
      BY <2>2
    <3>2. Known(k) = Updated(k, c)
      BY <2>2
    <3> HIDE DEF c, Known
    <3> QED BY <3>1, <3>2 DEF Names
  <2> QED BY <2>1, <2>2
<1>4. known \subseteq Comments
  <2> SUFFICES ASSUME NEW k \in thread.comments PROVE Known(k) \in Comments
    OBVIOUS
  <2> HIDE DEF Known
  <2> QED BY <1>1, <1>3, UpdatedType
<1>5. new \subseteq Comments
  BY <1>1, PulledType
<1> HIDE DEF Known, new, merged
<1>6. /\ merged \in ThreadRecords /\ merged.comments = known \cup new
      /\ merged.number = thread.number /\ merged.remote = thread.remote
  <2>1. known \cup new \in SUBSET Comments
    BY <1>4, <1>5
  <2> HIDE DEF known
  <2> QED BY <1>2, <2>1 DEF ThreadRecords
<1>7. \A m \in merged.comments :
         \/ /\ m \in thread.comments
            /\ \A c \in Mapped(got) : m.of # Names(c)
         \/ \E k \in thread.comments, c \in Mapped(got) : k.of = Names(c) /\ m = Updated(k, c)
         \/ \E c \in Mapped(got) : Names(c) \notin NamesIn(thread) /\ m = Pulled(c)
  <2> SUFFICES ASSUME NEW m \in merged.comments
               PROVE  \/ /\ m \in thread.comments
                         /\ \A c \in Mapped(got) : m.of # Names(c)
                      \/ \E k \in thread.comments, c \in Mapped(got) : k.of = Names(c) /\ m = Updated(k, c)
                      \/ \E c \in Mapped(got) : Names(c) \notin NamesIn(thread) /\ m = Pulled(c)
    OBVIOUS
  <2>1. CASE m \in known
    BY <1>3, <2>1
  <2>2. CASE m \in new
    BY <2>2 DEF new
  <2> QED BY <1>6, <2>1, <2>2
<1>8. \A k \in thread.comments : \E m \in merged.comments :
         \/ m = k /\ \A c \in Mapped(got) : m.of # Names(c)
         \/ \E c \in Mapped(got) : k.of = Names(c) /\ m = Updated(k, c)
  <2> SUFFICES ASSUME NEW k \in thread.comments
               PROVE  \E m \in merged.comments :
                         \/ m = k /\ \A c \in Mapped(got) : m.of # Names(c)
                         \/ \E c \in Mapped(got) : k.of = Names(c) /\ m = Updated(k, c)
    OBVIOUS
  <2>1. Known(k) \in merged.comments
    BY <1>6
  <2> QED BY <1>3, <2>1
<1>9. \A c \in Mapped(got) : Names(c) \notin NamesIn(thread) => Pulled(c) \in merged.comments
  BY <1>6 DEF new
<1> QED BY <1>6, <1>7, <1>8, <1>9 DEF merged

LEMMA MapThreadOf ==
  ASSUME NEW t \in RemoteThreads, NEW got \in Seq(RemoteComments)
  PROVE  /\ MapThread(t, got) \in ThreadRecords
         /\ MapThread(t, got).number = 0 /\ MapThread(t, got).remote = t
         /\ MapThread(t, got).comments = {Pulled(c) : c \in Mapped(got)}
<1>1. {Pulled(c) : c \in Mapped(got)} \in SUBSET Comments
  BY MappedType, PulledType
<1> QED BY <1>1, ThreadType DEF MapThread

(* A fetched thread is merged into the thread that is its copy, if one is. *)
LEMMA EntryOf ==
  ASSUME DirTypeOK, NEW t \in RemoteThreads, NEW got \in Seq(RemoteComments),
         \A f \in DOMAIN threads \cap Groups : threads[f].remote = Nobody
  PROVE  LET entry == Entry(t, got)
         IN  /\ entry = [file |-> entry.file, thread |-> entry.thread]
             /\ \/ /\ entry.file = Nobody /\ entry.thread = MapThread(t, got)
                   /\ \A f \in DOMAIN threads : threads[f].remote # t
                \/ /\ entry.file \in Numbered \cap DOMAIN threads /\ threads[entry.file].remote = t
                   /\ entry.thread = MergeThread(threads[entry.file], got)
<1> DEFINE copies == {f \in DOMAIN threads : threads[f].remote = t}
<1>1. CASE copies = {}
  BY <1>1 DEF Entry
<1>2. CASE copies # {}
  <2>1. t # Nobody
    BY PullAssumption DEF RemoteThreads
  <2>2. copies \subseteq Numbered \cap DOMAIN threads
    BY <2>1 DEF DirTypeOK
  <2>3. copies \subseteq Int /\ IsFiniteSet(copies)
    BY <2>2, NewFileOf, FS_Subset DEF DirTypeOK
  <2>4. Max(copies) \in copies
    <3> HIDE DEF copies
    <3> QED BY <1>2, <2>3, MaxOf
  <2>5. Entry(t, got) = [file |-> Max(copies), thread |-> MergeThread(threads[Max(copies)], got)]
    BY <1>2 DEF Entry
  <2> DEFINE f == Max(copies)
  <2> HIDE DEF f
  <2>6. Entry(t, got) = [file |-> f, thread |-> MergeThread(threads[f], got)]
    BY <2>5 DEF f
  <2>7. f \in Numbered \cap DOMAIN threads /\ threads[f].remote = t
    BY <2>2, <2>4 DEF f
  <2> QED BY <2>6, <2>7
<1> QED BY <1>1, <1>2

-----------------------------------------------------------------------------
(* What the steps of a pull make of its state.                             *)

LEMMA PullShape ==
  ASSUME PullTypeOK, NEW p \in Pullers
  PROVE  /\ pull[p] \in Waiting \cup Fetching \cup Writing
         /\ pull[p].stage \in {"idle", "threads", "done"} => pull[p] \in Waiting
         /\ pull[p].stage \in {"comments", "conversation", "index"} => pull[p] \in Fetching
         /\ pull[p].stage \in {"lock", "write"} => pull[p] \in Writing
         /\ pull[p].there \subseteq RemoteComments
         /\ Got(p) \subseteq RemoteComments
         /\ LeftOf(p) \subseteq Entries
<1>1. /\ pull[p] \in Waiting \cup Fetching \cup Writing
      /\ pull[p].stage \in {"idle", "threads", "done"} => pull[p] \in Waiting
      /\ pull[p].stage \in {"comments", "conversation", "index"} => pull[p] \in Fetching
      /\ pull[p].stage \in {"lock", "write"} => pull[p] \in Writing
  BY DEF PullTypeOK, Waiting, Fetching, Writing
<1>2. pull[p].there \subseteq RemoteComments
  BY <1>1 DEF Waiting, Fetching, Writing
<1>3. Got(p) \subseteq RemoteComments
  <2>1. CASE pull[p].stage \in {"comments", "conversation", "index"}
    <3>1. \A t \in RemoteThreads : ElementsOf(pull[p].got[t]) \subseteq RemoteComments
      BY <1>1, <2>1, ElementsType DEF Fetching
    <3> QED BY <2>1, <3>1 DEF Got
  <2>2. CASE pull[p].stage \notin {"comments", "conversation", "index"}
    BY <2>2 DEF Got
  <2> QED BY <2>1, <2>2
<1>4. LeftOf(p) \subseteq Entries
  BY <1>1 DEF LeftOf, At, Writing
<1> QED BY <1>1, <1>2, <1>3, <1>4

LEMMA EverythingType == ASSUME PullTypeOK PROVE Everything \subseteq RemoteComments
BY ElementsType DEF PullTypeOK, Everything

LEMMA LeftSame ==
  ASSUME NEW p \in Pullers, pull'[p] = pull[p]
  PROVE  LeftOf(p)' = LeftOf(p)
BY DEF LeftOf, At

(* The remote threads that a pull found, each one once. *)
Found(got) ==
    SetToSeq({t \in ReviewThreads : got[t] # <<>>})
        \o (IF Mapped(got[Conversation]) # {} THEN <<Conversation>> ELSE <<>>)

LEMMA FoundOf ==
  ASSUME NEW got
  PROVE  /\ Found(got) \in Seq(RemoteThreads)
         /\ \A i, j \in DOMAIN Found(got) : Found(got)[i] = Found(got)[j] => i = j
         /\ \A t \in RemoteThreads : Mapped(got[t]) # {} => \E i \in DOMAIN Found(got) : Found(got)[i] = t
<1> DEFINE S == {t \in ReviewThreads : got[t] # <<>>}
           a == SetToSeq(S)
           b == IF Mapped(got[Conversation]) # {} THEN <<Conversation>> ELSE <<>>
           s == a \o b
<1>1. IsFiniteSet(S)
  BY PullAssumption, FS_Subset
<1>2. /\ a \in Seq(S)
      /\ \A x \in S : \E i \in DOMAIN a : a[i] = x
      /\ \A i, j \in DOMAIN a : a[i] = a[j] => i = j
  <2> HIDE DEF S
  <2> QED BY <1>1, SetToSeqOf
<1>3. a \in Seq(RemoteThreads) /\ Conversation \notin S
  <2>1. S \subseteq RemoteThreads /\ Conversation \notin S
    BY PullAssumption DEF RemoteThreads
  <2> HIDE DEF S, a
  <2> QED BY <1>2, <2>1
<1>4. b \in Seq({Conversation}) /\ b \in Seq(RemoteThreads) /\ (Len(b) = 0 \/ Len(b) = 1)
  <2>1. CASE Mapped(got[Conversation]) = {}
    <3>1. b = <<>>
      BY <2>1
    <3> HIDE DEF b
    <3> QED BY <3>1
  <2>2. CASE Mapped(got[Conversation]) # {}
    <3>1. b = <<Conversation>> /\ Conversation \in RemoteThreads
      BY <2>2 DEF RemoteThreads
    <3> HIDE DEF b
    <3> QED BY <3>1
  <2> QED BY <2>1, <2>2
<1> HIDE DEF a, b
<1>5. s \in Seq(RemoteThreads) /\ Len(s) = Len(a) + Len(b) /\ Len(a) \in Nat
  BY <1>3, <1>4
<1>6. /\ \A i \in 1 .. Len(a) : s[i] = a[i] /\ a[i] \in S
      /\ \A i \in DOMAIN s : i \in 1 .. Len(a) \/ (i = Len(a) + 1 /\ s[i] = Conversation)
  <2> HIDE DEF S
  <2>1. \A i \in 1 .. Len(a) : s[i] = a[i] /\ a[i] \in S
    BY <1>2, <1>3, <1>4
  <2>2. ASSUME NEW i \in DOMAIN s, i \notin 1 .. Len(a)
        PROVE  i = Len(a) + 1 /\ s[i] = Conversation
    <3>1. i = Len(a) + 1 /\ Len(b) = 1 /\ DOMAIN s = 1 .. Len(s)
      <4>1. DOMAIN s = 1 .. Len(s)
        BY <1>5
      <4>2. i \in 1 .. Len(s)
        BY <4>1
      <4>3. Len(a) \in Nat /\ (Len(b) = 0 \/ Len(b) = 1) /\ Len(s) = Len(a) + Len(b)
        BY <1>4, <1>5
      <4> HIDE DEF s
      <4>4. CASE Len(b) = 0
        BY <2>2, <4>2, <4>3, <4>4
      <4>5. CASE Len(b) = 1
        BY <2>2, <4>1, <4>2, <4>3, <4>5
      <4> QED BY <4>3, <4>4, <4>5
    <3>2. s[i] = b[i - Len(a)] /\ i - Len(a) = 1
      BY <1>3, <1>4, <1>5, <3>1
    <3>3. b[1] = Conversation
      BY <1>4, <3>1
    <3> QED BY <3>1, <3>2, <3>3
  <2> HIDE DEF s
  <2> QED BY <2>1, <2>2
<1>7. \A i, j \in DOMAIN s : s[i] = s[j] => i = j
  <2> HIDE DEF s, S
  <2>1. \A i \in 1 .. Len(a) : i \in DOMAIN a
    BY <1>2
  <2> QED BY <1>2, <1>3, <1>5, <1>6, <2>1
<1>8. \A t \in RemoteThreads : Mapped(got[t]) # {} => \E i \in DOMAIN s : s[i] = t
  <2> SUFFICES ASSUME NEW t \in RemoteThreads, Mapped(got[t]) # {} PROVE \E i \in DOMAIN s : s[i] = t
    OBVIOUS
  <2>1. CASE t \in ReviewThreads
    <3>1. t \in S
      <4>1. got[t] # <<>>
        BY DEF Mapped, ElementsOf
      <4> QED BY <2>1, <4>1
    <3>2. PICK i \in DOMAIN a : a[i] = t
      <4> HIDE DEF S
      <4> QED BY <1>2, <3>1
    <3>3. i \in 1 .. Len(a) /\ i \in DOMAIN s
      BY <1>3, <1>4, <1>5
    <3> QED BY <1>6, <3>2, <3>3
  <2>2. CASE t = Conversation
    <3>1. Len(b) = 1
      BY <2>2 DEF b
    <3>2. Len(a) + 1 \in DOMAIN s /\ Len(a) + 1 \notin 1 .. Len(a)
      BY <1>5, <3>1
    <3> QED BY <1>6, <2>2, <3>2
  <2> QED BY <2>1, <2>2 DEF RemoteThreads
<1>9. Found(got) = s
  BY DEF Found, s, a, b
<1> HIDE DEF s
<1> QED BY <1>5, <1>7, <1>8, <1>9

(* Fetching, a pull has no part in the directory. *)
LEMMA FetchOf ==
  ASSUME PullTypeOK, NEW p \in Pullers, Start(p) \/ Fetch(p)
  PROVE  /\ \E new \in Waiting \cup Fetching : pull' = [pull EXCEPT ![p] = new]
         /\ pull[p].stage \notin {"lock", "write"}
         /\ remote' = remote /\ shared' \in BOOLEAN
<1>1. CASE Start(p)
  <2>1. [stage |-> "threads", there |-> Everything] \in Waiting
    BY EverythingType DEF Waiting
  <2>2. shared' \in BOOLEAN
    <3>1. shared \in BOOLEAN
      BY DEF PullTypeOK
    <3> QED BY <1>1, <3>1, Zenon DEF Start
  <2> QED BY <1>1, <2>1, <2>2 DEF Start, Running
<1>2. CASE FetchThreads(p)
  <2> DEFINE new == [stage |-> "comments", there |-> pull[p].there, page |-> 0,
                     got |-> [t \in RemoteThreads |->
                                IF t = Conversation THEN <<>> ELSE FirstOf(remote[t])],
                     more |-> {t \in ReviewThreads : Len(remote[t]) > PageSize},
                     total |-> [t \in ReviewThreads |-> Len(remote[t])]]
  <2>1. \A t \in RemoteThreads : FirstOf(remote[t]) \in Seq(RemoteComments) /\ Len(remote[t]) \in Nat
    BY FirstOfType DEF PullTypeOK
  <2>2. [t \in RemoteThreads |-> IF t = Conversation THEN <<>> ELSE FirstOf(remote[t])]
            \in [RemoteThreads -> Seq(RemoteComments)]
    BY <2>1
  <2>3. [t \in ReviewThreads |-> Len(remote[t])] \in [ReviewThreads -> Nat]
    BY <2>1 DEF RemoteThreads
  <2>4. new \in Fetching
    BY <2>2, <2>3, PullShape DEF Fetching
  <2>5. pull' = [pull EXCEPT ![p] = new] /\ pull[p].stage = "threads"
    BY <1>2 DEF FetchThreads, At
  <2>6. remote' = remote /\ shared' = shared
    BY <1>2 DEF FetchThreads
  <2> HIDE DEF new
  <2> QED BY <2>4, <2>5, <2>6 DEF PullTypeOK
<1>3. ASSUME NEW t \in ReviewThreads, FetchRemaining(p, t)
      PROVE  \E new \in Fetching : pull' = [pull EXCEPT ![p] = new]
  <2> DEFINE cursor == pull[p].got[t][Len(pull[p].got[t])].id
             last == Max({0} \cup {i \in DOMAIN remote[t] : remote[t][i].id <= cursor})
             after == SubSeq(remote[t], last + 1, Len(remote[t]))
             new == [pull[p] EXCEPT !.got[t] = @ \o FirstOf(after),
                                    !.more = IF Len(after) > PageSize THEN @ ELSE @ \ {t}]
  <2>1. pull[p] \in Fetching /\ t \in RemoteThreads
    BY <1>3, PullShape DEF FetchRemaining, At, RemoteThreads
  <2>2. remote[t] \in Seq(RemoteComments)
    BY <2>1 DEF PullTypeOK
  <2>3. last \in Nat /\ last <= Len(remote[t])
    <3> DEFINE S == {0} \cup {i \in DOMAIN remote[t] : remote[t][i].id <= cursor}
    <3>1. S \subseteq 0 .. Len(remote[t]) /\ S # {}
      BY <2>2
    <3> HIDE DEF S
    <3>2. IsFiniteSet(S) /\ S \subseteq Int
      <4>1. Len(remote[t]) \in Int /\ 0 .. Len(remote[t]) \subseteq Int
        BY <2>2
      <4>2. IsFiniteSet(0 .. Len(remote[t]))
        BY <4>1, FS_Interval
      <4> QED BY <3>1, <4>1, <4>2, FS_Subset
    <3>3. Max(S) \in S
      BY <3>1, <3>2, MaxOf
    <3>4. Max(S) \in 0 .. Len(remote[t])
      BY <3>1, <3>3
    <3> QED BY <2>2, <3>4 DEF S
  <2> HIDE DEF last
  <2>4. after \in Seq(RemoteComments)
    BY <2>2, <2>3, SubSeqOf
  <2> HIDE DEF after
  <2>5. FirstOf(after) \in Seq(RemoteComments)
    BY <2>4, FirstOfType
  <2>6. pull[p].got[t] \o FirstOf(after) \in Seq(RemoteComments)
    BY <2>1, <2>5 DEF Fetching
  <2>7. new \in Fetching
    BY <2>1, <2>6 DEF Fetching
  <2>8. pull' = [pull EXCEPT ![p] = new]
    BY <1>3 DEF FetchRemaining, last, after
  <2> HIDE DEF new
  <2> QED BY <2>7, <2>8
<1>4. CASE \E t \in ReviewThreads : FetchRemaining(p, t)
  <2>1. pull[p].stage = "comments" /\ remote' = remote /\ shared' = shared
    BY <1>4 DEF FetchRemaining, At
  <2> QED BY <1>3, <1>4, <2>1 DEF PullTypeOK
<1>5. CASE CheckCounts(p)
  <2>1. pull[p].stage = "comments" /\ remote' = remote /\ shared' = shared
    BY <1>5 DEF CheckCounts, At
  <2>2. [pull[p] EXCEPT !.stage = "conversation"] \in Fetching
    BY <2>1, PullShape DEF Fetching
  <2>3. Resting \in Waiting
    BY DEF Resting, Waiting
  <2>4. \/ pull' = [pull EXCEPT ![p] = [pull[p] EXCEPT !.stage = "conversation"]]
        \/ pull' = [pull EXCEPT ![p] = Resting]
    BY <1>5 DEF CheckCounts
  <2> QED BY <2>1, <2>2, <2>3, <2>4 DEF PullTypeOK
<1>6. CASE FetchConversation(p)
  <2> DEFINE before == pull[p].page * PageSize
             all == remote[Conversation]
             after == SubSeq(all, before + 1, Len(all))
             new == [pull[p] EXCEPT !.got[Conversation] = @ \o FirstOf(after), !.page = @ + 1,
                                    !.stage = IF Len(after) > PageSize THEN @ ELSE "index"]
  <2>1. pull[p] \in Fetching /\ pull[p].stage = "conversation" /\ remote' = remote /\ shared' = shared
    BY <1>6, PullShape DEF FetchConversation, At
  <2>2. all \in Seq(RemoteComments) /\ Conversation \in RemoteThreads
    BY DEF PullTypeOK, RemoteThreads
  <2>3. before \in Nat
    BY <2>1, PullAssumption DEF Fetching
  <2>4. after \in Seq(RemoteComments)
    BY <2>2, <2>3, SubSeqOf
  <2>5. pull' = [pull EXCEPT ![p] = new]
    BY <1>6 DEF FetchConversation
  <2> HIDE DEF after
  <2>6. pull[p].got[Conversation] \o FirstOf(after) \in Seq(RemoteComments)
    BY <2>1, <2>2, <2>4, FirstOfType DEF Fetching
  <2>7. new \in Fetching
    <3>1. pull[p].page + 1 \in Nat
      BY <2>1 DEF Fetching
    <3> DEFINE stage == IF Len(after) > PageSize THEN pull[p].stage ELSE "index"
    <3>2. stage \in {"conversation", "index"}
      BY <2>1
    <3> HIDE DEF stage
    <3>3. [pull[p] EXCEPT !.got[Conversation] = @ \o FirstOf(after), !.page = @ + 1, !.stage = stage]
              \in Fetching
      BY <2>1, <2>2, <2>6, <3>1, <3>2 DEF Fetching
    <3> QED BY <3>3 DEF stage
  <2> HIDE DEF new
  <2> QED BY <2>1, <2>5, <2>7 DEF PullTypeOK
<1> QED BY <1>1, <1>2, <1>4, <1>5, <1>6 DEF Fetch

GroupsUnlinked == \A f \in DOMAIN threads \cap Groups : threads[f].remote = Nobody

GroupsPlain ==
    \A f \in DOMAIN threads : IF f \in Groups THEN threads[f].number = 0 /\ threads[f].remote = Nobody
                              ELSE threads[f].number > 0

LEMMA EntryType ==
  ASSUME DirTypeOK, GroupsUnlinked, GroupsPlain, NEW t \in RemoteThreads, NEW got \in Seq(RemoteComments)
  PROVE  /\ Entry(t, got) \in Entries /\ Entry(t, got).thread.remote = t
         /\ Entry(t, got).file # Nobody =>
               CopyOf(Entry(t, got).file, Entry(t, got)) /\ Entry(t, got).file \in DOMAIN threads
<1> DEFINE entry == Entry(t, got)
<1>1. /\ entry = [file |-> entry.file, thread |-> entry.thread]
      /\ \/ entry.file = Nobody /\ entry.thread = MapThread(t, got)
         \/ /\ entry.file \in Numbered \cap DOMAIN threads /\ threads[entry.file].remote = t
            /\ entry.thread = MergeThread(threads[entry.file], got)
  BY EntryOf DEF GroupsUnlinked
<1> HIDE DEF entry
<1>2. CASE entry.file = Nobody /\ entry.thread = MapThread(t, got)
  BY <1>1, <1>2, MapThreadOf DEF Entries, entry
<1>3. CASE /\ entry.file \in Numbered \cap DOMAIN threads /\ threads[entry.file].remote = t
           /\ entry.thread = MergeThread(threads[entry.file], got)
  <2>1. threads[entry.file] \in ThreadRecords /\ entry.file \in Nat
    BY <1>3, NewFileOf DEF DirTypeOK
  <2>2. /\ entry.thread \in ThreadRecords /\ entry.thread.remote = t
        /\ entry.thread.number = threads[entry.file].number
    BY <1>3, <2>1, MergeThreadOf
  <2>3. threads[entry.file].number > 0
    BY <1>3, NewFileOf DEF GroupsPlain
  <2> QED BY <1>1, <1>3, <2>1, <2>2, <2>3 DEF Entries, CopyOf, SameThread, entry
<1> QED BY <1>1, <1>2, <1>3

(* An entry for each remote thread that was found. *)
LEMMA IndexOf ==
  ASSUME PullTypeOK, DirTypeOK, GroupsUnlinked, GroupsPlain, NEW p \in Pullers, Index(p)
  PROVE  /\ pull[p] \in Fetching /\ pull[p].stage = "index"
         /\ \E new \in Waiting \cup Writing :
              /\ pull' = [pull EXCEPT ![p] = new]
              /\ new.there = pull[p].there
              /\ \A t \in RemoteThreads : Mapped(pull[p].got[t]) # {} => new.stage = "lock"
              /\ \/ new \in Waiting
                 \/ /\ new \in Writing /\ new.stage = "lock"
                    /\ \A i \in DOMAIN new.left : \E t \in RemoteThreads :
                          new.left[i] = Entry(t, pull[p].got[t])
                    /\ \A i, j \in DOMAIN new.left :
                          new.left[i].thread.remote = new.left[j].thread.remote => i = j
                    /\ \A t \in RemoteThreads : Mapped(pull[p].got[t]) # {} =>
                          \E i \in DOMAIN new.left : new.left[i] = Entry(t, pull[p].got[t])
<1>1. pull[p] \in Fetching /\ pull[p].stage = "index"
  BY PullShape DEF Index, At
<1> DEFINE got == pull[p].got
           found == Found(got)
<1>2. got \in [RemoteThreads -> Seq(RemoteComments)]
  BY <1>1 DEF Fetching
<1>3. /\ found \in Seq(RemoteThreads)
      /\ \A i, j \in DOMAIN found : found[i] = found[j] => i = j
      /\ \A t \in RemoteThreads : Mapped(got[t]) # {} => \E i \in DOMAIN found : found[i] = t
  BY FoundOf
<1> DEFINE left == [i \in DOMAIN found |-> Entry(found[i], got[found[i]])]
           done == [stage |-> "done", there |-> pull[p].there]
           writing == [stage |-> "lock", there |-> pull[p].there, number |-> 0, left |-> left]
<1>4. pull' = [pull EXCEPT ![p] = IF found = <<>> THEN done ELSE writing]
  BY DEF Index, Found
<1> HIDE DEF got, found
<1>5. \A t \in RemoteThreads :
        Entry(t, got[t]) \in Entries /\ Entry(t, got[t]).thread.remote = t
  BY <1>2, EntryType
<1>6. \A i \in DOMAIN found : found[i] \in RemoteThreads
  BY <1>3
<1>7. left \in Seq(Entries) /\ DOMAIN left = DOMAIN found
  <2>1. DOMAIN found = 1 .. Len(found) /\ Len(found) \in Nat
    BY <1>3
  <2>2. left \in [1 .. Len(found) -> Entries]
    BY <1>5, <1>6, <2>1
  <2> HIDE DEF left
  <2> QED BY <2>1, <2>2
<1>8. \A i \in DOMAIN left : found[i] \in RemoteThreads /\ left[i] = Entry(found[i], got[found[i]])
  BY <1>6, <1>7
<1> HIDE DEF left
<1>9. pull[p].there \in SUBSET RemoteComments
  BY <1>1 DEF Fetching
<1>10. CASE found = <<>>
  <2>1. done \in Waiting
    BY <1>9 DEF Waiting
  <2>2. \A t \in RemoteThreads : Mapped(got[t]) = {}
    BY <1>3, <1>10
  <2> QED BY <1>1, <1>4, <1>10, <2>1, <2>2 DEF got
<1>11. CASE found # <<>>
  <2>1. writing \in Writing
    BY <1>7, <1>9 DEF Writing
  <2>2. \A i \in DOMAIN left : \E t \in RemoteThreads : left[i] = Entry(t, got[t])
    BY <1>8
  <2>3. ASSUME NEW i \in DOMAIN left, NEW j \in DOMAIN left,
               left[i].thread.remote = left[j].thread.remote
        PROVE  i = j
    <3>1. found[i] = found[j]
      BY <1>5, <1>8, <2>3
    <3> QED BY <1>3, <1>7, <3>1
  <2>4. ASSUME NEW t \in RemoteThreads, Mapped(got[t]) # {}
        PROVE  \E i \in DOMAIN left : left[i] = Entry(t, got[t])
    <3>1. PICK i \in DOMAIN found : found[i] = t
      BY <1>3, <2>4
    <3>2. i \in DOMAIN left /\ left[i] = Entry(found[i], got[found[i]])
      BY <1>7, <1>8
    <3> QED BY <3>1, <3>2
  <2>5. writing.left = left /\ writing.stage = "lock" /\ writing.there = pull[p].there
    OBVIOUS
  <2>6. pull' = [pull EXCEPT ![p] = writing]
    BY <1>4, <1>11
  <2> HIDE DEF writing
  <2>7. /\ \A i \in DOMAIN writing.left : \E t \in RemoteThreads :
              writing.left[i] = Entry(t, pull[p].got[t])
        /\ \A i, j \in DOMAIN writing.left :
              writing.left[i].thread.remote = writing.left[j].thread.remote => i = j
        /\ \A t \in RemoteThreads : Mapped(pull[p].got[t]) # {} =>
              \E i \in DOMAIN writing.left : writing.left[i] = Entry(t, pull[p].got[t])
    BY <2>2, <2>3, <2>4, <2>5, Zenon DEF got
  <2> QED BY <1>1, <2>1, <2>5, <2>6, <2>7, Zenon
<1> QED BY <1>10, <1>11

(* The next thread is written and is off the list. *)
LEMMA WriteOf ==
  ASSUME ImportInv, NEW p \in Pullers, Write(p)
  PROVE  \E entry \in LeftOf(p), file \in Numbered \cup {NewFile} :
           /\ pull[p] \in Writing /\ lock = p /\ pull[p].left # <<>> /\ entry = Head(pull[p].left)
           /\ entry.file = Nobody => file = NewFile
           /\ entry.file # Nobody => file = entry.file
           /\ DirTypeOK' /\ Numbered \subseteq Numbered' /\ DOMAIN threads' = DOMAIN threads \cup {file}
           /\ revived \subseteq revived' /\ file \in DOMAIN threads \cup revived' \cup {NewFile}
           /\ threads'[file].comments = entry.thread.comments
           /\ threads'[file].remote = entry.thread.remote
           /\ threads'[file].number = IF entry.file = Nobody THEN pull[p].number ELSE entry.thread.number
           /\ \A f \in DOMAIN threads : f # file => threads'[f] = threads[f]
           /\ pull' = [pull EXCEPT ![p].left = Tail(@),
                                   ![p].number = IF entry.file = Nobody THEN @ + 1 ELSE @]
           /\ pull'[p] \in Writing /\ pull'[p].stage = "write" /\ LeftOf(p)' \subseteq LeftOf(p)
<1> DEFINE entry == Head(pull[p].left)
           file == IF entry.file = Nobody THEN NewFile ELSE entry.file
           number == IF entry.file = Nobody THEN pull[p].number ELSE entry.thread.number
           thread == [entry.thread EXCEPT !.number = number]
<1>1. pull[p] \in Writing /\ lock = p /\ pull[p].left # <<>> /\ pull[p].stage = "write"
  BY PullShape DEF Write, At, ImportInv, ImportTypeOK, LockInv
<1>2. /\ pull[p].left \in Seq(Entries) /\ entry \in Entries /\ entry \in LeftOf(p)
      /\ Tail(pull[p].left) \in Seq(Entries)
      /\ \A i \in DOMAIN Tail(pull[p].left) :
            i + 1 \in DOMAIN pull[p].left /\ Tail(pull[p].left)[i] = pull[p].left[i + 1]
  BY <1>1 DEF Writing, LeftOf, At
<1>3. pull[p].number \in Nat
  BY <1>1 DEF Writing
<1>4. file \in Numbered \cup {NewFile}
  BY <1>2 DEF ImportInv, NumberInv, CopyOf
<1>5. /\ pull' = [pull EXCEPT ![p].left = Tail(@),
                              ![p].number = IF entry.file = Nobody THEN @ + 1 ELSE @]
      /\ threads' = IF entry.file = Nobody
                    THEN Written(NewFile, [entry.thread EXCEPT !.number = pull[p].number])
                    ELSE Written(entry.file, entry.thread)
      /\ files' = IF entry.file = Nobody THEN NewFile ELSE files
      /\ revived' = revived \cup ({entry.file} \ (DOMAIN threads \cup {Nobody}))
  BY DEF Write
<1> HIDE DEF entry
<1>6. threads' = Written(file, thread)
  <2>1. CASE entry.file = Nobody
    BY <1>5, <2>1
  <2>2. CASE entry.file # Nobody
    <3>1. [entry.thread EXCEPT !.number = entry.thread.number] = entry.thread
      BY <1>2 DEF Entries, ThreadRecords
    <3> QED BY <1>5, <2>2, <3>1
  <2> QED BY <2>1, <2>2
<1>7. /\ thread \in ThreadRecords /\ thread.comments = entry.thread.comments
      /\ thread.remote = entry.thread.remote /\ thread.number = number
  <2>1. entry.thread \in ThreadRecords /\ number \in Nat
    BY <1>2, <1>3 DEF Entries, ThreadRecords
  <2> HIDE DEF number
  <2> QED BY <2>1 DEF ThreadRecords
<1> HIDE DEF thread
<1>8. /\ DirTypeOK' /\ Numbered \subseteq Numbered' /\ DOMAIN threads' = DOMAIN threads \cup {file}
      /\ threads'[file] = thread
      /\ \A f \in DOMAIN threads : f # file => threads'[f] = threads[f]
  <2>1. \/ file \in Numbered /\ files' = files
        \/ file = NewFile /\ files' = NewFile
    BY <1>2, <1>5 DEF ImportInv, NumberInv, CopyOf
  <2> HIDE DEF file
  <2> QED BY <1>6, <1>7, <2>1, WrittenOf DEF ImportInv, ImportTypeOK
<1>9. pull'[p] = [pull[p] EXCEPT !.left = Tail(@),
                                 !.number = IF entry.file = Nobody THEN @ + 1 ELSE @]
  BY <1>5 DEF ImportInv, ImportTypeOK, PullTypeOK
<1>10. pull'[p] \in Writing /\ pull'[p].stage = "write" /\ pull'[p].left = Tail(pull[p].left)
  <2> DEFINE next == IF entry.file = Nobody THEN pull[p].number + 1 ELSE pull[p].number
  <2>1. next \in Nat
    BY <1>3
  <2>2. pull'[p] = [pull[p] EXCEPT !.left = Tail(@), !.number = next]
    BY <1>9
  <2> HIDE DEF next
  <2> QED BY <1>1, <1>2, <2>1, <2>2 DEF Writing
<1>11. LeftOf(p)' \subseteq LeftOf(p)
  BY <1>1, <1>2, <1>10 DEF LeftOf, At
<1>12. entry \in LeftOf(p) /\ entry = Head(pull[p].left)
  BY <1>2 DEF entry
<1>13. revived \subseteq revived' /\ file \in DOMAIN threads \cup revived' \cup {NewFile}
  BY <1>5
<1> QED BY <1>1, <1>4, <1>5, <1>7, <1>8, <1>10, <1>11, <1>12, <1>13

-----------------------------------------------------------------------------
(* Numbers stay apart: the steps of the pulls and of other commands.       *)

LEMMA UnlinkedOf == ASSUME NumberInv PROVE GroupsUnlinked /\ GroupsPlain
BY DEF NumberInv, GroupsUnlinked, GroupsPlain

(* A write that gives a new file a number above all, keeps the number of a *)
(* file, or brings back a file that was removed.                           *)
LEMMA NumbersStep ==
  ASSUME DirTypeOK, NumbersApart, GroupsPlain, DirTypeOK', Numbered \subseteq Numbered',
         revived \subseteq revived',
         NEW file, DOMAIN threads' = DOMAIN threads \cup {file},
         \A f \in DOMAIN threads : f # file => threads'[f] = threads[f],
         \/ file = NewFile /\ AboveAll(threads'[file].number) /\ threads'[file].number > 0
         \/ file \in Numbered \cap DOMAIN threads /\ SameThread(threads'[file], threads[file])
         \/ file \in Numbered \cap revived' /\ file \notin DOMAIN threads /\ threads'[file].number > 0
         \/ file \in Groups /\ threads'[file].number = 0 /\ threads'[file].remote = Nobody
  PROVE  /\ NumbersApart' /\ GroupsPlain'
         /\ \A entry : CopyOf(entry.file, entry)
                /\ (entry.file = file /\ file \notin DOMAIN threads => SameThread(entry.thread, threads'[file]))
                => CopyOf(entry.file, entry)'
         /\ \A n \in Nat : AboveAll(n) /\ (file # NewFile \/ threads'[file].number < n) => AboveAll(n)'
<1>1. /\ \A f \in DOMAIN threads : threads[f].number \in Nat
      /\ \A f \in DOMAIN threads' : threads'[f].number \in Nat
  BY DEF DirTypeOK, ThreadRecords
<1>2. /\ NewFile \notin Groups \cup DOMAIN threads \cup Numbered /\ NewFile # Nobody
      /\ Numbered \cap Groups = {}
  BY NewFileOf, SharedAssumption
<1>3. GroupsPlain'
  BY <1>2 DEF GroupsPlain, SameThread
<1>4. ASSUME NEW entry, CopyOf(entry.file, entry),
             entry.file = file /\ file \notin DOMAIN threads => SameThread(entry.thread, threads'[file])
      PROVE  CopyOf(entry.file, entry)'
  <2>1. CASE entry.file = file /\ file \in DOMAIN threads
    <3>1. SameThread(threads'[file], threads[file])
      BY <1>2, <1>4, <2>1 DEF CopyOf
    <3> QED BY <1>4, <2>1, <3>1 DEF CopyOf, SameThread
  <2>2. CASE entry.file = file /\ file \notin DOMAIN threads
    BY <1>4, <2>2 DEF CopyOf
  <2>3. CASE entry.file # file
    BY <1>4, <2>3 DEF CopyOf
  <2> QED BY <2>1, <2>2, <2>3
<1>5. NumbersApart'
  <2> SUFFICES ASSUME NEW f \in DOMAIN threads', NEW g \in DOMAIN threads', f # g,
                      f \notin revived', g \notin revived', threads'[f].number = threads'[g].number
               PROVE  threads'[f].number = 0
    BY DEF NumbersApart
  <2>1. CASE file = NewFile
    <3>1. AboveAll(threads'[file].number)
      BY <1>2, <2>1
    <3>2. f # file /\ g # file
      BY <1>1, <3>1 DEF AboveAll
    <3> QED BY <3>2 DEF NumbersApart
  <2>2. CASE file \in Numbered \cap DOMAIN threads /\ SameThread(threads'[file], threads[file])
    <3>1. \A h \in DOMAIN threads' : h \in DOMAIN threads /\ threads'[h].number = threads[h].number
      BY <2>2 DEF SameThread
    <3> QED BY <3>1 DEF NumbersApart
  <2>3. CASE file \in revived'
    BY <2>3 DEF NumbersApart
  <2>4. CASE file \in Groups /\ threads'[file].number = 0
    BY <2>4 DEF NumbersApart
  <2> QED BY <2>1, <2>2, <2>3, <2>4
<1>6. ASSUME NEW n \in Nat, AboveAll(n), file # NewFile \/ threads'[file].number < n
      PROVE  AboveAll(n)'
  <2>1. CASE file = NewFile
    BY <1>6, <2>1 DEF AboveAll
  <2>2. CASE file \in Numbered \cap DOMAIN threads /\ SameThread(threads'[file], threads[file])
    BY <1>6, <2>2 DEF AboveAll, SameThread
  <2>3. CASE file \in revived'
    BY <1>6, <2>3 DEF AboveAll
  <2>4. CASE file \in Groups /\ threads'[file].number = 0
    BY <1>6, <2>4 DEF AboveAll
  <2> QED BY <2>1, <2>2, <2>3, <2>4
<1> QED BY <1>3, <1>4, <1>5, <1>6

(* A step of a pull that writes no thread. *)
LEMMA OwnStep ==
  ASSUME ImportInv, NEW p \in Pullers, NEW new \in Waiting \cup Fetching \cup Writing,
         pull' = [pull EXCEPT ![p] = new], UNCHANGED <<directory, exposed, extractVars>>,
         remote' = remote, shared' \in BOOLEAN, inputs' \in Nat,
         new.stage = "write" <=> lock' = p,
         \/ lock' = lock
         \/ lock = Nobody /\ lock' = p
         \/ lock = p /\ lock' = Nobody,
         new.stage = "write" => AboveAll(new.number),
         \A entry \in LeftOf(p)' : /\ entry.thread.remote # Nobody
                                   /\ entry.file # Nobody => CopyOf(entry.file, entry),
         \A q \in Pullers : \A entry \in LeftOf(p)', other \in LeftOf(q)' :
            entry.file = other.file /\ entry.file # Nobody => SameThread(entry.thread, other.thread)
  PROVE  ImportInv'
<1>1. \A q \in Pullers : q # p => pull'[q] = pull[q]
  BY DEF ImportInv, ImportTypeOK, PullTypeOK
<1>2. pull'[p] = new
  BY DEF ImportInv, ImportTypeOK, PullTypeOK
<1>3. PullTypeOK'
  BY DEF ImportInv, ImportTypeOK, PullTypeOK
<1>4. DirTypeOK' /\ NumbersApart' /\ (\A n : AboveAll(n)' <=> AboveAll(n))
  BY DEF ImportInv, ImportTypeOK, DirTypeOK, NumberInv, NumbersApart, AboveAll, Numbered, directory
<1>5. RunTypeOK'
  BY DEF ImportInv, ImportTypeOK, RunTypeOK, extractVars, Extraction
<1>6. ImportTypeOK'
  BY <1>3, <1>4, <1>5 DEF ImportInv, ImportTypeOK
<1>7. p # Nobody /\ p # Extractor /\ Extractor # Nobody /\ \A q \in Pullers : q # Nobody /\ q # Extractor
  BY PullAssumption, ImportAssumption, ExtractAssumption
<1>8. LockInv'
  <2>1. \A q \in Pullers : At(q, "write")' <=> lock' = q
    <3> SUFFICES ASSUME NEW q \in Pullers PROVE At(q, "write")' <=> lock' = q
      OBVIOUS
    <3>1. CASE q = p
      BY <1>2, <3>1 DEF At
    <3>2. CASE q # p
      <4>1. At(q, "write")' <=> At(q, "write")
        BY <1>1, <3>2 DEF At
      <4>2. lock' = q <=> lock = q
        BY <1>7, <3>2
      <4> QED BY <4>1, <4>2 DEF ImportInv, LockInv
    <3> QED BY <3>1, <3>2
  <2>2. InStage({"write"})' <=> lock' = Extractor
    <3>1. lock' = Extractor <=> lock = Extractor
      BY <1>7
    <3>2. InStage({"write"})' <=> InStage({"write"})
      BY DEF InStage, extractVars
    <3> QED BY <3>1, <3>2 DEF ImportInv, LockInv
  <2> QED BY <2>1, <2>2 DEF ImportInv, LockInv
<1>9. NumberInv'
  <2>1. \A f \in DOMAIN threads' :
          IF f \in Groups THEN threads'[f].number = 0 /\ threads'[f].remote = Nobody
          ELSE threads'[f].number > 0
    BY DEF ImportInv, NumberInv, directory
  <2>2. \A q \in Pullers : At(q, "write")' => AboveAll(pull[q].number)'
    BY <1>1, <1>2, <1>4 DEF At, ImportInv, NumberInv
  <2>3. InStage({"write"})' => AboveAll(run.number)'
    BY <1>4 DEF InStage, extractVars, ImportInv, NumberInv
  <2>4. \A q \in Pullers : \A entry \in LeftOf(q)' :
          /\ entry.thread.remote # Nobody
          /\ entry.file # Nobody => CopyOf(entry.file, entry)'
    <3>1. \A f, entry : CopyOf(f, entry)' <=> CopyOf(f, entry)
      BY DEF CopyOf, Numbered, directory
    <3>2. \A q \in Pullers : q # p => LeftOf(q)' = LeftOf(q)
      BY <1>1, LeftSame
    <3> QED BY <3>1, <3>2 DEF ImportInv, NumberInv
  <2>5. \A q, r \in Pullers : \A entry \in LeftOf(q)', other \in LeftOf(r)' :
          entry.file = other.file /\ entry.file # Nobody => SameThread(entry.thread, other.thread)
    <3>1. \A q \in Pullers : q # p => LeftOf(q)' = LeftOf(q)
      BY <1>1, LeftSame
    <3>2. \A q, r \in Pullers : \A entry \in LeftOf(q), other \in LeftOf(r) :
            entry.file = other.file /\ entry.file # Nobody => SameThread(entry.thread, other.thread)
      BY DEF ImportInv, NumberInv
    <3>3. \A a, c : SameThread(a, c) => SameThread(c, a)
      BY DEF SameThread
    <3> QED BY <3>1, <3>2, <3>3
  <2> QED BY <1>4, <2>1, <2>2, <2>3, <2>4, <2>5 DEF NumberInv
<1> QED BY <1>6, <1>8, <1>9 DEF ImportInv

LEMMA FetchInv ==
  ASSUME ImportInv, NEW p \in Pullers, Start(p) \/ Fetch(p), inputs' \in Nat,
         UNCHANGED <<dirVars, exposed, extractVars>>
  PROVE  ImportInv'
<1>1. PICK new \in Waiting \cup Fetching : pull' = [pull EXCEPT ![p] = new]
  BY FetchOf DEF ImportInv, ImportTypeOK
<1>2. /\ pull[p].stage \notin {"lock", "write"} /\ remote' = remote /\ shared' \in BOOLEAN
      /\ new.stage \notin {"lock", "write"} /\ pull'[p] = new
  BY <1>1, FetchOf DEF ImportInv, ImportTypeOK, PullTypeOK, Waiting, Fetching
<1>3. lock # p /\ lock' = lock
  BY <1>2 DEF ImportInv, LockInv, At, dirVars
<1>4. LeftOf(p)' = {}
  BY <1>2 DEF LeftOf, At
<1> QED BY <1>1, <1>2, <1>3, <1>4, OwnStep DEF dirVars

LEMMA IndexInv ==
  ASSUME ImportInv, NEW p \in Pullers, Index(p), UNCHANGED <<inputs, exposed, extractVars>>
  PROVE  ImportInv'
<1>1. PullTypeOK /\ DirTypeOK /\ GroupsUnlinked /\ GroupsPlain
  BY UnlinkedOf DEF ImportInv, ImportTypeOK
<1>2. PICK new \in Waiting \cup Writing :
        /\ pull' = [pull EXCEPT ![p] = new]
        /\ \/ new \in Waiting
           \/ /\ new \in Writing /\ new.stage = "lock"
              /\ \A i \in DOMAIN new.left : \E t \in RemoteThreads :
                    new.left[i] = Entry(t, pull[p].got[t])
              /\ \A i, j \in DOMAIN new.left :
                    new.left[i].thread.remote = new.left[j].thread.remote => i = j
  BY <1>1, IndexOf
<1>3. pull[p] \in Fetching /\ pull[p].stage = "index"
  BY <1>1, IndexOf
<1>4. new.stage # "write" /\ pull'[p] = new
  BY <1>1, <1>2 DEF Waiting, PullTypeOK
<1>5. lock # p /\ lock' = lock /\ UNCHANGED directory /\ remote' = remote /\ shared' = shared
  BY <1>3 DEF ImportInv, LockInv, At, dirVars, Index
<1>6. ASSUME NEW entry \in LeftOf(p)'
      PROVE  /\ entry.thread.remote # Nobody
             /\ entry.file # Nobody => CopyOf(entry.file, entry) /\ entry.file \in DOMAIN threads
  <2>1. new.stage = "lock"
    BY <1>4, <1>6 DEF LeftOf, At
  <2>2. PICK t \in RemoteThreads : entry = Entry(t, pull[p].got[t])
    BY <1>2, <1>4, <1>6, <2>1 DEF LeftOf, At, Waiting
  <2>3. pull[p].got[t] \in Seq(RemoteComments) /\ t # Nobody
    BY <1>3, PullAssumption DEF Fetching, RemoteThreads
  <2> QED BY <1>1, <2>2, <2>3, EntryType
<1>7. inputs' \in Nat /\ shared' \in BOOLEAN
  BY <1>1, <1>5 DEF ImportInv, ImportTypeOK, PullTypeOK
<1>8. ASSUME NEW q \in Pullers, NEW entry \in LeftOf(p)', NEW other \in LeftOf(q)',
             entry.file = other.file, entry.file # Nobody
      PROVE  SameThread(entry.thread, other.thread)
  <2>1. other.file \in DOMAIN threads /\ CopyOf(entry.file, entry)
    BY <1>6, <1>8
  <2>2. CopyOf(other.file, other)
    <3>1. CASE q = p
      BY <1>6, <1>8, <3>1
    <3>2. CASE q # p
      <4>1. LeftOf(q)' = LeftOf(q)
        BY <1>1, <1>2, <3>2, LeftSame DEF PullTypeOK
      <4> QED BY <1>8, <4>1 DEF ImportInv, NumberInv
    <3> QED BY <3>1, <3>2
  <2> QED BY <1>8, <2>1, <2>2 DEF CopyOf, SameThread
<1> QED BY <1>2, <1>4, <1>5, <1>6, <1>7, <1>8, OwnStep

LEMMA LockInvariance ==
  ASSUME ImportInv, NEW p \in Pullers, Lock(p), UNCHANGED <<inputs, exposed, extractVars>>
  PROVE  ImportInv'
<1> DEFINE new == [pull[p] EXCEPT !.stage = "write", !.number = NextNumber]
<1>1. PullTypeOK /\ DirTypeOK
  BY DEF ImportInv, ImportTypeOK
<1>2. pull[p] \in Writing /\ pull[p].stage = "lock"
  BY <1>1, PullShape DEF Lock, At
<1>3. NextNumber \in Nat /\ AboveAll(NextNumber)
  BY <1>1, NextNumberOf
<1>4. new \in Writing /\ new.stage = "write" /\ new.number = NextNumber /\ new.left = pull[p].left
  BY <1>2, <1>3 DEF Writing
<1>5. pull' = [pull EXCEPT ![p] = new]
  BY DEF Lock
<1> HIDE DEF new
<1>6. LeftOf(p)' = LeftOf(p)
  BY <1>1, <1>2, <1>4, <1>5 DEF LeftOf, At, PullTypeOK
<1>7. lock = Nobody /\ lock' = p /\ UNCHANGED directory /\ remote' = remote /\ shared' = shared
  BY DEF Lock
<1>8. inputs' \in Nat /\ shared' \in BOOLEAN
  BY <1>1, <1>7 DEF ImportInv, ImportTypeOK, PullTypeOK
<1>9. \A entry \in LeftOf(p)' : /\ entry.thread.remote # Nobody
                                /\ entry.file # Nobody => CopyOf(entry.file, entry)
  BY <1>6 DEF ImportInv, NumberInv
<1>10. \A q \in Pullers : \A entry \in LeftOf(p)', other \in LeftOf(q)' :
         entry.file = other.file /\ entry.file # Nobody => SameThread(entry.thread, other.thread)
  <2>1. \A q \in Pullers : LeftOf(q)' = LeftOf(q)
    BY <1>1, <1>5, <1>6, LeftSame DEF PullTypeOK
  <2> QED BY <2>1 DEF ImportInv, NumberInv
<1> QED BY <1>3, <1>4, <1>5, <1>7, <1>8, <1>9, <1>10, OwnStep

LEMMA UnlockInv ==
  ASSUME ImportInv, NEW p \in Pullers, inputs' \in Nat, UNCHANGED <<exposed, extractVars>>,
         Unlock(p) \/ Stop(p)
  PROVE  ImportInv'
<1> DEFINE done == [stage |-> "done", there |-> pull[p].there]
<1>1. PullTypeOK
  BY DEF ImportInv, ImportTypeOK
<1>2. done \in Waiting /\ Resting \in Waiting
  BY <1>1, PullShape DEF Waiting, Resting
<1>3. pull' = [pull EXCEPT ![p] = done] \/ pull' = [pull EXCEPT ![p] = Resting]
  BY DEF Unlock, Stop
<1>4. lock' = IF lock = p THEN Nobody ELSE lock
  BY DEF Unlock, Stop, ImportInv, LockInv
<1>5. UNCHANGED directory /\ remote' = remote /\ shared' = shared /\ lock' # p
  BY <1>4, PullAssumption DEF Unlock, Stop
<1>6. PICK new \in Waiting : pull' = [pull EXCEPT ![p] = new] /\ new.stage # "write" /\ new.stage # "lock"
  <2> HIDE DEF done
  <2>1. \A w \in Waiting : w.stage # "write" /\ w.stage # "lock"
    BY DEF Waiting
  <2> QED BY <1>2, <1>3, <2>1
<1>7. LeftOf(p)' = {}
  BY <1>1, <1>6 DEF LeftOf, At, PullTypeOK
<1>8. shared' \in BOOLEAN
  BY <1>1, <1>5 DEF PullTypeOK
<1> QED BY <1>4, <1>5, <1>6, <1>7, <1>8, OwnStep

(* What is posted and what an edit makes of a comment. *)
LEMMA PostedOf ==
  ASSUME inputs \in Nat, NEW t \in RemoteThreads, Post(t)
  PROVE  \E new \in RemoteComments :
            /\ remote' = [remote EXCEPT ![t] = Append(@, new)]
            /\ new.id = inputs + 1
            /\ pull' = pull /\ shared' = shared
<1>1. PICK review \in BOOLEAN, body \in {0, 1} :
        /\ review \/ body = 0
        /\ remote' = [remote EXCEPT ![t] = Append(@,
               [id |-> inputs + 1, review |-> review, body |-> body, updated |-> 0])]
        /\ pull' = pull /\ shared' = shared
  BY DEF Post
<1> DEFINE new == [id |-> inputs + 1, review |-> review, body |-> body, updated |-> 0]
<1>2. new \in RemoteComments /\ new.id = inputs + 1
  BY <1>1 DEF RemoteComments
<1> QED BY <1>1, <1>2

LEMMA EditedOf ==
  ASSUME NEW c \in RemoteComments
  PROVE  /\ Edited(c) \in RemoteComments /\ Edited(c).id = c.id /\ Edited(c).review = c.review
         /\ c.updated <= Edited(c).updated /\ Edited(c).body = c.body + 1
<1> DEFINE updated == IF c.review THEN c.updated ELSE c.updated + 1
<1>1. Edited(c) = [c EXCEPT !.body = c.body + 1, !.updated = updated]
  BY DEF Edited
<1>2. updated \in Nat /\ c.updated <= updated /\ updated = IF c.review THEN 0 ELSE c.body + 1
  BY DEF RemoteComments
<1>3. c.body + 1 \in Nat /\ c.review \in BOOLEAN
  BY DEF RemoteComments
<1> HIDE DEF updated
<1> DEFINE body == c.body + 1
<1>4. Edited(c) = [c EXCEPT !.body = body, !.updated = updated] /\ body \in Nat
  BY <1>1, <1>3
<1>5. updated = IF c.review THEN 0 ELSE body
  BY <1>2
<1> HIDE DEF body
<1>6. /\ Edited(c).id = c.id /\ Edited(c).review = c.review
      /\ Edited(c).body = body /\ Edited(c).updated = updated
      /\ Edited(c) \in [id : Nat, review : BOOLEAN, body : Nat, updated : Nat]
  BY <1>2, <1>4 DEF RemoteComments
<1> QED BY <1>2, <1>5, <1>6 DEF RemoteComments, body

(* The remote side takes a comment from what a pull must bring. *)
LEMMA RemoteOf ==
  ASSUME PullTypeOK, inputs \in Nat, NEW t \in RemoteThreads,
         Post(t) \/ \E i \in DOMAIN remote[t] : Edit(t, i) \/ Delete(t, i)
  PROVE  /\ PullTypeOK' /\ shared' = shared
         /\ \A p \in Pullers : /\ pull'[p].stage = pull[p].stage
                               /\ pull'[p].there \subseteq pull[p].there
                               /\ LeftOf(p)' = LeftOf(p) /\ Got(p)' = Got(p)
                               /\ At(p, "write") => pull'[p].number = pull[p].number
                               /\ At(p, "lock") \/ At(p, "write") => pull'[p].left = pull[p].left
<1>1. remote[t] \in Seq(RemoteComments)
  BY DEF PullTypeOK
<1>2. CASE Post(t)
  <2>1. PICK new \in RemoteComments : remote' = [remote EXCEPT ![t] = Append(@, new)]
    BY <1>2, PostedOf
  <2>2. Append(remote[t], new) \in Seq(RemoteComments)
    BY <1>1, <2>1
  <2>3. remote' \in [RemoteThreads -> Seq(RemoteComments)]
    BY <2>1, <2>2 DEF PullTypeOK
  <2>4. UNCHANGED <<pull, shared>>
    BY <1>2 DEF Post
  <2> QED BY <2>3, <2>4 DEF PullTypeOK, LeftOf, Got, At
<1>3. ASSUME NEW i \in DOMAIN remote[t], Edit(t, i)
      PROVE  remote' \in [RemoteThreads -> Seq(RemoteComments)] /\ UNCHANGED <<pull, shared>>
  <2>1. [remote[t] EXCEPT ![i] = Edited(@)] \in Seq(RemoteComments)
    <3>1. remote[t][i] \in RemoteComments
      BY <1>1
    <3>2. Edited(remote[t][i]) \in RemoteComments
      BY <3>1, EditedOf
    <3> QED BY <1>1, <3>2
  <2> QED BY <1>3, <2>1 DEF Edit, PullTypeOK
<1>4. CASE \E i \in DOMAIN remote[t] : Edit(t, i)
  BY <1>3, <1>4 DEF PullTypeOK, LeftOf, Got, At
<1>5. ASSUME NEW i \in DOMAIN remote[t], Delete(t, i)
      PROVE  /\ PullTypeOK' /\ shared' = shared
             /\ \A p \in Pullers : \E there \in SUBSET pull[p].there :
                    pull'[p] = [pull[p] EXCEPT !.there = there]
  <2>1. RemoveAt(remote[t], i) \in Seq(RemoteComments)
    BY <1>1, RemoveAtOf
  <2>2. remote' \in [RemoteThreads -> Seq(RemoteComments)]
    BY <1>5, <2>1 DEF Delete, PullTypeOK
  <2>3. pull' = [p \in Pullers |-> [pull[p] EXCEPT !.there = StillThere(p, t, i)]]
    BY <1>5 DEF Delete
  <2>4. \A p \in Pullers : StillThere(p, t, i) \in SUBSET pull[p].there
    BY DEF StillThere
  <2>5. ASSUME NEW p \in Pullers, NEW there \in SUBSET pull[p].there
        PROVE  [pull[p] EXCEPT !.there = there] \in Waiting \cup Fetching \cup Writing
    <3>1. /\ pull[p] \in Waiting \cup Fetching \cup Writing
          /\ there \in SUBSET RemoteComments
      BY PullShape
    <3>2. CASE pull[p] \in Waiting
      BY <3>1, <3>2 DEF Waiting
    <3>3. CASE pull[p] \in Fetching
      BY <3>1, <3>3 DEF Fetching
    <3>4. CASE pull[p] \in Writing
      BY <3>1, <3>4 DEF Writing
    <3> QED BY <3>1, <3>2, <3>3, <3>4
  <2>6. \A p \in Pullers : pull'[p] = [pull[p] EXCEPT !.there = StillThere(p, t, i)]
    BY <2>3
  <2>7. pull' \in [Pullers -> Waiting \cup Fetching \cup Writing]
    BY <2>3, <2>4, <2>5
  <2> QED BY <1>5, <2>2, <2>4, <2>6, <2>7 DEF Delete, PullTypeOK
<1>6. CASE \E i \in DOMAIN remote[t] : Delete(t, i)
  <2>1. /\ PullTypeOK' /\ shared' = shared
        /\ \A p \in Pullers : \E there \in SUBSET pull[p].there :
              pull'[p] = [pull[p] EXCEPT !.there = there]
    BY <1>5, <1>6
  <2> SUFFICES ASSUME NEW p \in Pullers
               PROVE  /\ pull'[p].stage = pull[p].stage
                      /\ pull'[p].there \subseteq pull[p].there
                      /\ LeftOf(p)' = LeftOf(p) /\ Got(p)' = Got(p)
                      /\ At(p, "write") => pull'[p].number = pull[p].number
                      /\ At(p, "lock") \/ At(p, "write") => pull'[p].left = pull[p].left
    BY <2>1
  <2>2. PICK there \in SUBSET pull[p].there : pull'[p] = [pull[p] EXCEPT !.there = there]
    BY <2>1
  <2>3. CASE pull[p] \in Waiting
    BY <2>2, <2>3 DEF Waiting, LeftOf, Got, At
  <2>4. CASE pull[p] \in Fetching
    BY <2>2, <2>4 DEF Fetching, LeftOf, Got, At
  <2>5. CASE pull[p] \in Writing
    BY <2>2, <2>5 DEF Writing, LeftOf, Got, At
  <2> QED BY <2>3, <2>4, <2>5, PullShape
<1> QED BY <1>2, <1>4, <1>6

LEMMA RemoteInv ==
  ASSUME ImportInv, RemoteInput, inputs' \in Nat, UNCHANGED <<dirVars, exposed, extractVars>>
  PROVE  ImportInv'
<1>1. PICK t \in RemoteThreads : Post(t) \/ \E i \in DOMAIN remote[t] : Edit(t, i) \/ Delete(t, i)
  BY DEF RemoteInput
<1>2. /\ PullTypeOK' /\ shared' = shared
      /\ \A p \in Pullers : /\ pull'[p].stage = pull[p].stage /\ LeftOf(p)' = LeftOf(p)
                            /\ At(p, "write") => pull'[p].number = pull[p].number
  BY <1>1, RemoteOf DEF ImportInv, ImportTypeOK
<1>3. DirTypeOK' /\ NumbersApart' /\ (\A n : AboveAll(n)' <=> AboveAll(n)) /\ lock' = lock
  BY DEF ImportInv, ImportTypeOK, DirTypeOK, NumberInv, NumbersApart, AboveAll, Numbered, dirVars, directory
<1>4. ImportTypeOK'
  BY <1>2, <1>3 DEF ImportInv, ImportTypeOK, RunTypeOK, extractVars, Extraction
<1>5. LockInv'
  BY <1>2, <1>3 DEF ImportInv, LockInv, At, InStage, extractVars
<1>6. NumberInv'
  <2>1. \A f \in DOMAIN threads' :
          IF f \in Groups THEN threads'[f].number = 0 /\ threads'[f].remote = Nobody
          ELSE threads'[f].number > 0
    BY DEF ImportInv, NumberInv, dirVars, directory
  <2>2. \A q \in Pullers : At(q, "write")' => AboveAll(pull[q].number)'
    BY <1>2, <1>3 DEF At, ImportInv, NumberInv
  <2>3. InStage({"write"})' => AboveAll(run.number)'
    BY <1>3 DEF InStage, extractVars, ImportInv, NumberInv
  <2>4. \A q \in Pullers : \A entry \in LeftOf(q)' :
          /\ entry.thread.remote # Nobody
          /\ entry.file # Nobody => CopyOf(entry.file, entry)'
    <3>1. \A f, entry : CopyOf(f, entry)' <=> CopyOf(f, entry)
      BY DEF CopyOf, Numbered, dirVars, directory
    <3> QED BY <1>2, <3>1 DEF ImportInv, NumberInv
  <2>5. \A q, r \in Pullers : \A entry \in LeftOf(q)', other \in LeftOf(r)' :
          entry.file = other.file /\ entry.file # Nobody => SameThread(entry.thread, other.thread)
    BY <1>2 DEF ImportInv, NumberInv
  <2> QED BY <1>3, <2>1, <2>2, <2>3, <2>4, <2>5 DEF NumberInv
<1> QED BY <1>4, <1>5, <1>6 DEF ImportInv

LEMMA WriteInv ==
  ASSUME ImportInv, NEW p \in Pullers, Write(p), UNCHANGED <<inputs, exposed, extractVars>>
  PROVE  ImportInv'
<1>1. PICK entry \in LeftOf(p), file \in Numbered \cup {NewFile} :
        /\ pull[p] \in Writing /\ lock = p
        /\ entry.file = Nobody => file = NewFile
        /\ entry.file # Nobody => file = entry.file
        /\ DirTypeOK' /\ Numbered \subseteq Numbered'
        /\ revived \subseteq revived' /\ file \in DOMAIN threads \cup revived' \cup {NewFile}
        /\ DOMAIN threads' = DOMAIN threads \cup {file}
        /\ threads'[file].remote = entry.thread.remote
        /\ threads'[file].number = IF entry.file = Nobody THEN pull[p].number ELSE entry.thread.number
        /\ \A f \in DOMAIN threads : f # file => threads'[f] = threads[f]
        /\ pull' = [pull EXCEPT ![p].left = Tail(@),
                                ![p].number = IF entry.file = Nobody THEN @ + 1 ELSE @]
        /\ pull'[p] \in Writing /\ pull'[p].stage = "write" /\ LeftOf(p)' \subseteq LeftOf(p)
  BY WriteOf
<1>2. DirTypeOK /\ PullTypeOK /\ NumbersApart /\ GroupsPlain
  BY UnlinkedOf DEF ImportInv, ImportTypeOK, NumberInv
<1>3. remote' = remote /\ shared' = shared /\ lock' = lock
  BY DEF Write
<1>4. \A q \in Pullers : q # p => pull'[q] = pull[q]
  BY <1>1, <1>2 DEF PullTypeOK
<1>5. At(p, "write") /\ AboveAll(pull[p].number) /\ pull[p].number \in Nat
  BY <1>1 DEF ImportInv, LockInv, NumberInv, Writing
<1>6. \/ file = NewFile /\ AboveAll(threads'[file].number) /\ threads'[file].number > 0
      \/ file \in Numbered \cap DOMAIN threads /\ SameThread(threads'[file], threads[file])
      \/ file \in Numbered \cap revived' /\ file \notin DOMAIN threads /\ threads'[file].number > 0
  <2>1. CASE entry.file = Nobody
    BY <1>1, <1>5, <2>1 DEF AboveAll
  <2>2. CASE entry.file # Nobody
    <3>1. CopyOf(entry.file, entry)
      BY <2>2 DEF ImportInv, NumberInv
    <3>2. file # NewFile
      BY <1>1, <1>2, <2>2, <3>1, NewFileOf DEF CopyOf
    <3> QED BY <1>1, <2>2, <3>1, <3>2 DEF CopyOf, SameThread
  <2> QED BY <2>1, <2>2
<1>7. /\ NumbersApart' /\ GroupsPlain'
      /\ \A e : CopyOf(e.file, e)
             /\ (e.file = file /\ file \notin DOMAIN threads => SameThread(e.thread, threads'[file]))
             => CopyOf(e.file, e)'
      /\ \A n \in Nat : AboveAll(n) /\ (file # NewFile \/ threads'[file].number < n) => AboveAll(n)'
  BY <1>1, <1>2, <1>6, NumbersStep
<1>8. PullTypeOK'
  <2>1. pull' \in [Pullers -> Waiting \cup Fetching \cup Writing]
    <3>1. DOMAIN pull' = Pullers /\ pull' = [q \in Pullers |-> pull'[q]]
      BY <1>1, <1>2 DEF PullTypeOK
    <3>2. \A q \in Pullers : pull'[q] \in Waiting \cup Fetching \cup Writing
      BY <1>1, <1>2, <1>4 DEF PullTypeOK
    <3> QED BY <3>1, <3>2
  <2> QED BY <1>2, <1>3, <2>1 DEF PullTypeOK
<1>9. ImportTypeOK'
  BY <1>1, <1>8 DEF ImportInv, ImportTypeOK, RunTypeOK, extractVars, Extraction
<1>10. p # Extractor
  BY ImportAssumption
<1>11. LockInv'
  BY <1>1, <1>3, <1>4, <1>5, <1>10 DEF ImportInv, LockInv, At, InStage, extractVars
<1>12. ~InStage({"write"})' /\ \A q \in Pullers : q # p => ~At(q, "write")'
  BY <1>1, <1>3, <1>10, <1>11 DEF LockInv
<1>13. AboveAll(pull[p].number)'
  <2>1. pull'[p].number = IF entry.file = Nobody THEN pull[p].number + 1 ELSE pull[p].number
    BY <1>1, <1>2 DEF PullTypeOK, Writing
  <2>2. pull'[p].number \in Nat /\ AboveAll(pull'[p].number)
    BY <1>5, <2>1, <1>2 DEF AboveAll, DirTypeOK, ThreadRecords
  <2>3. file # NewFile \/ threads'[file].number < pull'[p].number
    <3>1. CASE entry.file = Nobody
      BY <1>1, <1>5, <2>1, <3>1
    <3>2. CASE entry.file # Nobody
      <4>1. CopyOf(entry.file, entry)
        BY <3>2 DEF ImportInv, NumberInv
      <4> QED BY <1>1, <1>2, <3>2, <4>1, NewFileOf DEF CopyOf
    <3> QED BY <3>1, <3>2
  <2> QED BY <1>7, <2>2, <2>3 DEF AboveAll
<1>14. NumberInv'
  <2>1. \A q \in Pullers : At(q, "write")' => AboveAll(pull[q].number)'
    BY <1>12, <1>13
  <2>2. \A q \in Pullers : \A e \in LeftOf(q)' :
          e.thread.remote # Nobody /\ (e.file # Nobody => CopyOf(e.file, e)')
    <3>1. \A q \in Pullers : LeftOf(q)' \subseteq LeftOf(q)
      BY <1>1, <1>4, LeftSame
    <3> SUFFICES ASSUME NEW q \in Pullers, NEW e \in LeftOf(q)'
                 PROVE  e.thread.remote # Nobody /\ (e.file # Nobody => CopyOf(e.file, e)')
      OBVIOUS
    <3>2. e \in LeftOf(q) /\ e.thread.remote # Nobody /\ (e.file # Nobody => CopyOf(e.file, e))
      BY <3>1 DEF ImportInv, NumberInv
    <3>3. ASSUME e.file # Nobody, e.file = file, file \notin DOMAIN threads
          PROVE  SameThread(e.thread, threads'[file])
      <4>1. entry.file # Nobody /\ entry.file = file
        BY <1>1, <1>2, <3>2, <3>3, NewFileOf DEF CopyOf
      <4>2. SameThread(e.thread, entry.thread)
        BY <3>2, <3>3, <4>1 DEF ImportInv, NumberInv
      <4> QED BY <1>1, <4>1, <4>2 DEF SameThread
    <3> QED BY <1>7, <3>2, <3>3
  <2>3. \A q, r \in Pullers : \A e \in LeftOf(q)', other \in LeftOf(r)' :
          e.file = other.file /\ e.file # Nobody => SameThread(e.thread, other.thread)
    <3>1. \A q \in Pullers : LeftOf(q)' \subseteq LeftOf(q)
      BY <1>1, <1>4, LeftSame
    <3> QED BY <3>1 DEF ImportInv, NumberInv
  <2> QED BY <1>7, <1>12, <2>1, <2>2, <2>3 DEF NumberInv, GroupsPlain
<1> QED BY <1>9, <1>11, <1>14 DEF ImportInv

LEMMA CreateOf ==
  ASSUME DirTypeOK, inputs \in Nat, Create
  PROVE  /\ DirTypeOK' /\ DOMAIN threads' = DOMAIN threads \cup {NewFile} /\ Local \in LocalNames
         /\ threads'[NewFile].number = NextNumber /\ threads'[NewFile].remote = Nobody
         /\ threads'[NewFile].comments = {Comment(Local)}
         /\ \A f \in DOMAIN threads : f # NewFile => threads'[f] = threads[f]
         /\ Numbered \subseteq Numbered' /\ revived' = revived
<1> DEFINE thread == Thread(NextNumber, Nobody, {Comment(Local)})
<1>1. Local \in LocalNames /\ {Comment(Local)} \in SUBSET Comments
  BY LocalType, CommentType
<1>2. /\ thread \in ThreadRecords /\ thread.number = NextNumber /\ thread.remote = Nobody
      /\ thread.comments = {Comment(Local)}
  BY <1>1, NextNumberOf, ThreadType
<1> HIDE DEF thread
<1>3. /\ DirTypeOK' /\ DOMAIN threads' = DOMAIN threads \cup {NewFile} /\ threads'[NewFile] = thread
      /\ Numbered \subseteq Numbered' /\ revived' = revived
      /\ \A f \in DOMAIN threads : f # NewFile => threads'[f] = threads[f]
  BY <1>2, WrittenOf DEF Create, thread
<1> QED BY <1>1, <1>2, <1>3

LEMMA AddCommentOf ==
  ASSUME DirTypeOK, inputs \in Nat, NEW copied, AddComment(copied)
  PROVE  \E f \in DOMAIN threads :
           /\ DirTypeOK' /\ DOMAIN threads' = DOMAIN threads /\ Local \in LocalNames
           /\ threads'[f].number = threads[f].number /\ threads'[f].remote = threads[f].remote
           /\ threads'[f].comments = threads[f].comments \cup {Comment(Local)}
           /\ \A g \in DOMAIN threads : g # f => threads'[g] = threads[g]
           /\ exposed' = IF f \in copied THEN exposed \cup {Local} ELSE exposed
           /\ files' = files /\ revived' = revived
<1>1. PICK f \in DOMAIN threads :
        /\ threads' = [threads EXCEPT ![f].comments = @ \cup {Comment(Local)}]
        /\ exposed' = IF f \in copied THEN exposed \cup {Local} ELSE exposed
        /\ files' = files /\ revived' = revived
  BY DEF AddComment
<1> DEFINE thread == [threads[f] EXCEPT !.comments = @ \cup {Comment(Local)}]
<1>2. Local \in LocalNames /\ Comment(Local) \in Comments /\ threads[f] \in ThreadRecords
  BY LocalType, CommentType DEF DirTypeOK
<1>3. /\ thread \in ThreadRecords /\ thread.number = threads[f].number /\ thread.remote = threads[f].remote
      /\ thread.comments = threads[f].comments \cup {Comment(Local)}
  BY <1>2 DEF ThreadRecords
<1>4. threads' = Written(f, thread)
  BY <1>1 DEF Written, DirTypeOK
<1> HIDE DEF thread
<1>5. /\ DirTypeOK' /\ DOMAIN threads' = DOMAIN threads \cup {f} /\ threads'[f] = thread
      /\ \A g \in DOMAIN threads : g # f => threads'[g] = threads[g]
  BY <1>1, <1>3, <1>4, WrittenOf
<1>6. DOMAIN threads' = DOMAIN threads
  BY <1>5
<1> QED BY <1>1, <1>2, <1>3, <1>5, <1>6

(* Nobody holds the lock, and one file is written with a number that is    *)
(* above all, or with its own.                                             *)
LEMMA CommandStep ==
  ASSUME ImportInv, lock = Nobody, lock' = Nobody, UNCHANGED <<pullVars, extractVars>>,
         inputs' \in Nat, exposed' \subseteq LocalNames, DirTypeOK', Numbered \subseteq Numbered',
         revived' = revived,
         NEW file, DOMAIN threads' = DOMAIN threads \cup {file},
         \A f \in DOMAIN threads : f # file => threads'[f] = threads[f],
         \/ file = NewFile /\ AboveAll(threads'[file].number)
         \/ file \in DOMAIN threads /\ SameThread(threads'[file], threads[file])
  PROVE  ImportInv'
<1>1. DirTypeOK /\ NumbersApart /\ GroupsPlain
  BY UnlinkedOf DEF ImportInv, ImportTypeOK, NumberInv
<1>2. \/ file = NewFile /\ AboveAll(threads'[file].number) /\ threads'[file].number > 0
      \/ file \in Numbered \cap DOMAIN threads /\ SameThread(threads'[file], threads[file])
      \/ file \in Groups /\ threads'[file].number = 0 /\ threads'[file].remote = Nobody
  BY <1>1 DEF AboveAll, DirTypeOK, GroupsPlain, SameThread
<1>3. /\ NumbersApart' /\ GroupsPlain'
      /\ \A entry : CopyOf(entry.file, entry) => CopyOf(entry.file, entry)'
  <2>1. /\ NumbersApart' /\ GroupsPlain'
        /\ \A entry : CopyOf(entry.file, entry)
              /\ (entry.file = file /\ file \notin DOMAIN threads => SameThread(entry.thread, threads'[file]))
              => CopyOf(entry.file, entry)'
    BY <1>1, <1>2, NumbersStep
  <2>2. ASSUME NEW entry, CopyOf(entry.file, entry), entry.file = file PROVE file \in DOMAIN threads
    BY <1>1, <2>2, NewFileOf DEF CopyOf
  <2> QED BY <2>1, <2>2
<1>4. pull' = pull /\ remote' = remote /\ shared' = shared
  BY DEF pullVars
<1>5. ImportTypeOK'
  BY <1>4 DEF ImportInv, ImportTypeOK, RunTypeOK, extractVars, Extraction, PullTypeOK
<1>6. LockInv'
  BY <1>4 DEF ImportInv, LockInv, At, InStage, extractVars
<1>7. (\A q \in Pullers : ~At(q, "write")') /\ ~InStage({"write"})'
  BY <1>6, PullAssumption, ExtractAssumption DEF LockInv
<1>8. NumberInv'
  <2>1. \A q \in Pullers : LeftOf(q)' = LeftOf(q)
    BY <1>4, LeftSame
  <2>2. \A q \in Pullers : \A entry \in LeftOf(q)' :
          entry.thread.remote # Nobody /\ (entry.file # Nobody => CopyOf(entry.file, entry)')
    BY <1>3, <2>1 DEF ImportInv, NumberInv
  <2> QED BY <1>3, <1>7, <2>1, <2>2 DEF NumberInv, GroupsPlain, ImportInv
<1> QED BY <1>5, <1>6, <1>8 DEF ImportInv

(* A thread goes, and with it what pulls need no longer bring. *)
LEMMA RemoveThreadOf ==
  ASSUME DirTypeOK, NEW f, RemoveThread(f)
  PROVE  /\ DirTypeOK' /\ f \in DOMAIN threads /\ DOMAIN threads' = DOMAIN threads \ {f}
         /\ \A g \in DOMAIN threads' : threads'[g] = threads[g]
         /\ files' = files /\ lock' = lock /\ exposed' = exposed /\ revived' = revived
         /\ removed' = removed \cup NamesIn(threads[f])
<1>1. threads' = [g \in DOMAIN threads \ {f} |-> threads[g]]
  BY DEF RemoveThread, Restrict
<1>2. IsFiniteSet(DOMAIN threads')
  BY <1>1, FS_Subset DEF DirTypeOK
<1>3. DirTypeOK'
  BY <1>1, <1>2 DEF RemoveThread, DirTypeOK, Numbered
<1> QED BY <1>1, <1>3 DEF RemoveThread

LEMMA ForgetOf ==
  ASSUME PullTypeOK, NEW f, Forget(f)
  PROVE  /\ PullTypeOK' /\ remote' = remote /\ shared' = shared
         /\ \A p \in Pullers :
               /\ \E there \in SUBSET pull[p].there : pull'[p] = [pull[p] EXCEPT !.there = there]
               /\ pull'[p].stage = pull[p].stage /\ pull'[p].there \subseteq pull[p].there
               /\ LeftOf(p)' = LeftOf(p) /\ Got(p)' = Got(p)
               /\ At(p, "write") => pull'[p].number = pull[p].number
               /\ At(p, "lock") \/ At(p, "write") => pull'[p].left = pull[p].left
<1> DEFINE There(p) == IF WillWrite(p, f) THEN pull[p].there
                       ELSE {c \in pull[p].there : <<"remote", c.id>> \notin NamesIn(threads[f])}
<1>1. /\ remote' = remote /\ shared' = shared
      /\ pull' = [p \in Pullers |-> pull'[p]]
  BY DEF Forget
<1>2. ASSUME NEW p \in Pullers
      PROVE  /\ pull'[p] = [pull[p] EXCEPT !.there = There(p)]
             /\ There(p) \in SUBSET pull[p].there
  <2>1. CASE WillWrite(p, f)
    <3>1. pull'[p] = pull[p]
      BY <2>1 DEF Forget
    <3>2. pull[p] = [pull[p] EXCEPT !.there = pull[p].there]
      BY PullShape DEF Waiting, Fetching, Writing
    <3> QED BY <2>1, <3>1, <3>2
  <2>2. CASE ~WillWrite(p, f)
    BY <2>2 DEF Forget
  <2> QED BY <2>1, <2>2
<1> HIDE DEF There
<1>3. ASSUME NEW p \in Pullers
      PROVE  /\ pull'[p] \in Waiting \cup Fetching \cup Writing
             /\ \E there \in SUBSET pull[p].there : pull'[p] = [pull[p] EXCEPT !.there = there]
             /\ pull'[p].stage = pull[p].stage /\ pull'[p].there \subseteq pull[p].there
             /\ LeftOf(p)' = LeftOf(p) /\ Got(p)' = Got(p)
             /\ At(p, "write") => pull'[p].number = pull[p].number
             /\ At(p, "lock") \/ At(p, "write") => pull'[p].left = pull[p].left
  <2>1. PICK there \in SUBSET pull[p].there : pull'[p] = [pull[p] EXCEPT !.there = there]
    BY <1>2
  <2>2. there \subseteq RemoteComments
    BY PullShape
  <2>3. CASE pull[p] \in Waiting
    <3>1. pull'[p] \in Waiting
      BY <2>1, <2>2, <2>3 DEF Waiting
    <3> QED BY <2>1, <2>3, <3>1 DEF Waiting, LeftOf, Got, At
  <2>4. CASE pull[p] \in Fetching
    <3>1. pull'[p] \in Fetching
      BY <2>1, <2>2, <2>4 DEF Fetching
    <3>2. /\ pull'[p].stage = pull[p].stage /\ pull'[p].got = pull[p].got
          /\ pull'[p].there \subseteq pull[p].there
          /\ pull[p].stage \in {"comments", "conversation", "index"}
      BY <2>1, <2>4 DEF Fetching
    <3> QED BY <2>1, <3>1, <3>2 DEF LeftOf, Got, At
  <2>5. CASE pull[p] \in Writing
    <3>1. pull'[p] \in Writing
      BY <2>1, <2>2, <2>5 DEF Writing
    <3>2. /\ pull'[p].stage = pull[p].stage /\ pull'[p].left = pull[p].left
          /\ pull'[p].number = pull[p].number /\ pull'[p].there \subseteq pull[p].there
          /\ pull[p].stage \in {"lock", "write"}
      BY <2>1, <2>5 DEF Writing
    <3> QED BY <2>1, <3>1, <3>2 DEF LeftOf, Got, At
  <2> QED BY <2>3, <2>4, <2>5, PullShape
<1> QED BY <1>1, <1>3 DEF PullTypeOK

LEMMA RemoveInv ==
  ASSUME ImportInv, NEW f, RemoveThread(f), Forget(f), inputs' \in Nat, UNCHANGED extractVars
  PROVE  ImportInv'
<1>1. /\ DirTypeOK' /\ DOMAIN threads' = DOMAIN threads \ {f}
      /\ \A g \in DOMAIN threads' : threads'[g] = threads[g]
      /\ files' = files /\ lock' = lock /\ exposed' = exposed /\ revived' = revived
  BY RemoveThreadOf DEF ImportInv, ImportTypeOK
<1>2. /\ PullTypeOK' /\ remote' = remote /\ shared' = shared
      /\ \A p \in Pullers : /\ pull'[p].stage = pull[p].stage /\ LeftOf(p)' = LeftOf(p)
                            /\ At(p, "write") => pull'[p].number = pull[p].number
  BY ForgetOf DEF ImportInv, ImportTypeOK
<1>3. ImportTypeOK'
  BY <1>1, <1>2 DEF ImportInv, ImportTypeOK, RunTypeOK, extractVars, Extraction
<1>4. LockInv'
  BY <1>1, <1>2 DEF ImportInv, LockInv, At, InStage, extractVars
<1>5. NumbersApart' /\ \A n : AboveAll(n) => AboveAll(n)'
  BY <1>1 DEF ImportInv, NumberInv, NumbersApart, AboveAll
<1>6. \A entry : CopyOf(entry.file, entry) => CopyOf(entry.file, entry)'
  BY <1>1 DEF CopyOf, Numbered
<1>7. NumberInv'
  <2>1. \A g \in DOMAIN threads' :
          IF g \in Groups THEN threads'[g].number = 0 /\ threads'[g].remote = Nobody
          ELSE threads'[g].number > 0
    BY <1>1 DEF ImportInv, NumberInv
  <2>2. \A q \in Pullers : At(q, "write")' => AboveAll(pull[q].number)'
    BY <1>2, <1>5 DEF At, ImportInv, NumberInv
  <2>3. InStage({"write"})' => AboveAll(run.number)'
    BY <1>5 DEF InStage, extractVars, ImportInv, NumberInv
  <2>4. \A q \in Pullers : \A entry \in LeftOf(q)' :
          /\ entry.thread.remote # Nobody
          /\ entry.file # Nobody => CopyOf(entry.file, entry)'
    BY <1>2, <1>6 DEF ImportInv, NumberInv
  <2>5. \A q, r \in Pullers : \A entry \in LeftOf(q)', other \in LeftOf(r)' :
          entry.file = other.file /\ entry.file # Nobody => SameThread(entry.thread, other.thread)
    BY <1>2 DEF ImportInv, NumberInv
  <2> QED BY <1>5, <2>1, <2>2, <2>3, <2>4, <2>5 DEF NumberInv
<1> QED BY <1>3, <1>4, <1>7 DEF ImportInv

LEMMA OtherInv == ASSUME ImportInv, OtherCommand PROVE ImportInv'
<1>1. DirTypeOK /\ inputs \in Nat /\ inputs' \in Nat /\ exposed \subseteq LocalNames
  BY DEF ImportInv, ImportTypeOK, OtherCommand, Input
<1>2. CASE Create /\ UNCHANGED pullVars
  <2>1. /\ DirTypeOK' /\ DOMAIN threads' = DOMAIN threads \cup {NewFile}
        /\ AboveAll(threads'[NewFile].number)
        /\ Numbered \subseteq Numbered' /\ revived' = revived
        /\ \A f \in DOMAIN threads : f # NewFile => threads'[f] = threads[f]
    BY <1>1, <1>2, CreateOf, NextNumberOf
  <2> QED BY <1>1, <1>2, <2>1, CommandStep DEF OtherCommand, Create
<1>3. CASE AddComment(UNION {Copied(p) : p \in Pullers}) /\ UNCHANGED pullVars
  <2>1. PICK f \in DOMAIN threads :
          /\ DirTypeOK' /\ DOMAIN threads' = DOMAIN threads /\ Local \in LocalNames
          /\ threads'[f].number = threads[f].number /\ threads'[f].remote = threads[f].remote
          /\ \A g \in DOMAIN threads : g # f => threads'[g] = threads[g]
          /\ exposed' \in {exposed, exposed \cup {Local}}
          /\ files' = files /\ revived' = revived
    BY <1>1, <1>3, AddCommentOf
  <2>2. /\ exposed' \subseteq LocalNames /\ DOMAIN threads' = DOMAIN threads \cup {f}
        /\ SameThread(threads'[f], threads[f]) /\ Numbered \subseteq Numbered'
    BY <1>1, <2>1 DEF SameThread, Numbered
  <2>3. lock = Nobody /\ lock' = Nobody
    BY <1>3 DEF AddComment
  <2>4. UNCHANGED <<pullVars, extractVars>>
    BY <1>3 DEF OtherCommand
  <2> QED BY <1>1, <2>1, <2>2, <2>3, <2>4, CommandStep
<1>4. CASE \E f \in DOMAIN threads : RemoveThread(f) /\ Forget(f)
  BY <1>1, <1>4, RemoveInv DEF OtherCommand
<1> QED BY <1>2, <1>3, <1>4 DEF OtherCommand

-----------------------------------------------------------------------------
(* What the steps of an extraction make of its state.                      *)

CommentsOf(items) == {item \in items : item.kind = "comment"}

LEMMA ImageFinite ==
  ASSUME NEW S, IsFiniteSet(S), NEW f, DOMAIN f = S
  PROVE  IsFiniteSet({f[x] : x \in S})
BY RangeFinite

(* Every comment is in one group, and nothing else is.                     *)
LEMMA GroupCommentsOf ==
  ASSUME NEW items \in SUBSET Items, IsFiniteSet(items)
  PROVE  LET left == GroupComments(items).names \o GroupComments(items).singles
         IN  /\ left \in Seq(GroupRecords)
             /\ \A item \in CommentsOf(items) : \E i \in DOMAIN left : item.of \in left[i].entries
             /\ \A i \in DOMAIN left : left[i].entries \subseteq {item.of : item \in CommentsOf(items)}
             /\ (\A a, b \in items : a.of = b.of => a = b) =>
                  \A i, j \in DOMAIN left : left[i].entries \cap left[j].entries # {} => i = j
<1> DEFINE comments == {item \in items : item.kind = "comment"}
           Members(name) == {item.of : item \in {i \in comments : i.name = name}}
           References(name) == {item.of : item \in {i \in items : i.kind = "reference" /\ i.name = name}}
           named == {item.name : item \in comments} \ {NoGroup}
           GroupOf(name) == [name |-> name, entries |-> Members(name), refs |-> References(name)]
           Single(of) == [name |-> NoGroup, entries |-> {of}, refs |-> {}]
           N == {GroupOf(name) : name \in named}
           U == {Single(of) : of \in Members(NoGroup)}
           a == SetToSeq(N)
           b == SetToSeq(U)
           left == a \o b
<1>1. GroupComments(items).names = a /\ GroupComments(items).singles = b
  BY DEF GroupComments
<1>2. comments \subseteq Items /\ IsFiniteSet(comments) /\ comments = CommentsOf(items)
  BY FS_Subset DEF CommentsOf
<1>3. \A item \in items : item.of \in LocalNames /\ item.name \in Groups \cup {NoGroup}
  BY DEF Items
<1>4. N \subseteq GroupRecords
  BY <1>3 DEF GroupRecords
<1>5. U \subseteq GroupRecords
  BY <1>3 DEF GroupRecords
<1>6. IsFiniteSet(N)
  <2> DEFINE f == [item \in comments |-> item.name]
             g == [name \in named |-> GroupOf(name)]
  <2>1. IsFiniteSet({f[x] : x \in comments})
    <3>1. DOMAIN f = comments
      OBVIOUS
    <3> HIDE DEF f, comments
    <3> QED BY <1>2, <3>1, ImageFinite
  <2>2. named \subseteq {f[x] : x \in comments}
    OBVIOUS
  <2>3. IsFiniteSet(named)
    <3> HIDE DEF f, comments, named
    <3> QED BY <2>1, <2>2, FS_Subset
  <2>4. N = {g[x] : x \in named} /\ DOMAIN g = named
    OBVIOUS
  <2> HIDE DEF g, named, N
  <2> QED BY <2>3, <2>4, ImageFinite
<1>7. IsFiniteSet(U)
  <2> DEFINE S == {i \in comments : i.name = NoGroup}
             f == [item \in S |-> Single(item.of)]
  <2>1. IsFiniteSet(S)
    BY <1>2, FS_Subset
  <2>2. U = {f[x] : x \in S} /\ DOMAIN f = S
    OBVIOUS
  <2> HIDE DEF S, f, U
  <2> QED BY <2>1, <2>2, ImageFinite
<1>8. /\ a \in Seq(N)
      /\ \A x \in N : \E i \in DOMAIN a : a[i] = x
      /\ \A i, j \in DOMAIN a : a[i] = a[j] => i = j
  <2> HIDE DEF N
  <2> QED BY <1>6, SetToSeqOf
<1>9. /\ b \in Seq(U)
      /\ \A x \in U : \E i \in DOMAIN b : b[i] = x
      /\ \A i, j \in DOMAIN b : b[i] = b[j] => i = j
  <2> HIDE DEF U
  <2> QED BY <1>7, SetToSeqOf
<1> HIDE DEF a, b
<1>10. a \in Seq(GroupRecords) /\ b \in Seq(GroupRecords)
  <2> HIDE DEF N, U
  <2> QED BY <1>4, <1>5, <1>8, <1>9
<1>11. /\ left \in Seq(GroupRecords)
       /\ \A i \in DOMAIN a : i \in DOMAIN left /\ left[i] = a[i]
       /\ \A i \in DOMAIN b : Len(a) + i \in DOMAIN left /\ left[Len(a) + i] = b[i]
       /\ \A i \in DOMAIN left : \/ i \in DOMAIN a /\ left[i] = a[i] /\ left[i] \in N
                                 \/ /\ i - Len(a) \in DOMAIN b /\ left[i] = b[i - Len(a)]
                                    /\ left[i] \in U
  <2> HIDE DEF N, U, left
  <2>1. /\ left \in Seq(GroupRecords) /\ Len(left) = Len(a) + Len(b)
        /\ DOMAIN left = 1 .. Len(left) /\ DOMAIN a = 1 .. Len(a) /\ DOMAIN b = 1 .. Len(b)
        /\ Len(a) \in Nat /\ Len(b) \in Nat
    BY <1>10 DEF left
  <2>2. \A i \in 1 .. Len(left) : left[i] = IF i <= Len(a) THEN a[i] ELSE b[i - Len(a)]
    BY <1>10, <2>1 DEF left
  <2>3. \A i \in DOMAIN a : i \in DOMAIN left /\ left[i] = a[i] /\ a[i] \in N
    BY <1>8, <2>1, <2>2
  <2>4. \A i \in DOMAIN b : Len(a) + i \in DOMAIN left /\ left[Len(a) + i] = b[i] /\ b[i] \in U
    BY <1>9, <2>1, <2>2
  <2>5. ASSUME NEW i \in DOMAIN left
        PROVE  i \in DOMAIN a \/ (i - Len(a) \in DOMAIN b /\ left[i] = b[i - Len(a)])
    BY <2>1, <2>2
  <2> QED BY <2>1, <2>3, <2>4, <2>5, <1>9
<1>12. ASSUME NEW item \in CommentsOf(items)
       PROVE  \E i \in DOMAIN left : item.of \in left[i].entries
  <2>1. CASE item.name = NoGroup
    <3>1. Single(item.of) \in U /\ item.of \in Single(item.of).entries
      BY <1>2, <2>1
    <3>2. PICK i \in DOMAIN b : b[i] = Single(item.of)
      <4> HIDE DEF U, Single
      <4> QED BY <1>9, <3>1
    <3> HIDE DEF left, Single, U
    <3> QED BY <1>11, <3>1, <3>2
  <2>2. CASE item.name # NoGroup
    <3>1. GroupOf(item.name) \in N /\ item.of \in GroupOf(item.name).entries
      BY <1>2, <2>2
    <3>2. PICK i \in DOMAIN a : a[i] = GroupOf(item.name)
      <4> HIDE DEF N, GroupOf
      <4> QED BY <1>8, <3>1
    <3> HIDE DEF left, GroupOf, N
    <3> QED BY <1>11, <3>1, <3>2
  <2> QED BY <2>1, <2>2
<1>13. \A group \in N \cup U : group.entries \subseteq {item.of : item \in CommentsOf(items)}
  BY <1>2
<1>14. ASSUME \A x, y \in items : x.of = y.of => x = y,
              NEW i \in DOMAIN left, NEW j \in DOMAIN left, left[i].entries \cap left[j].entries # {}
       PROVE  i = j
  <2>1. PICK of : of \in left[i].entries /\ of \in left[j].entries
    BY <1>14
  <2>2. PICK item \in comments : item.of = of
    <3> HIDE DEF left, N, U, comments
    <3>1. left[i] \in N \cup U
      BY <1>11
    <3>2. of \in {item.of : item \in comments}
      BY <1>2, <1>13, <2>1, <3>1
    <3> QED BY <3>2
  <2>3. ASSUME NEW name, of \in Members(name) PROVE name = item.name
    <3>1. PICK other \in comments : other.of = of /\ other.name = name
      BY <2>3
    <3>2. other = item
      BY <1>14, <2>2, <3>1
    <3> QED BY <3>1, <3>2
  <2>4. \A group \in N : of \in group.entries =>
          group = GroupOf(item.name) /\ item.name # NoGroup
    <3> SUFFICES ASSUME NEW name \in named, of \in GroupOf(name).entries PROVE name = item.name
      OBVIOUS
    <3>1. GroupOf(name).entries = Members(name)
      OBVIOUS
    <3> HIDE DEF GroupOf, Members
    <3> QED BY <2>3, <3>1
  <2>5. \A group \in U : of \in group.entries => group = Single(of) /\ item.name = NoGroup
    <3> SUFFICES ASSUME NEW x \in Members(NoGroup), of \in Single(x).entries
                 PROVE  x = of /\ item.name = NoGroup
      OBVIOUS
    <3>1. x = of
      OBVIOUS
    <3> HIDE DEF Single, Members
    <3> QED BY <2>3, <3>1
  <2> HIDE DEF left, N, U, GroupOf, Single
  <2>6. CASE item.name = NoGroup
    <3>1. /\ i - Len(a) \in DOMAIN b /\ b[i - Len(a)] = Single(of)
          /\ j - Len(a) \in DOMAIN b /\ b[j - Len(a)] = Single(of)
      BY <1>11, <2>1, <2>4, <2>6, <2>5
    <3>2. i - Len(a) = j - Len(a)
      BY <1>9, <3>1
    <3>3. i \in Int /\ j \in Int /\ Len(a) \in Int
      BY <1>10, <1>11
    <3> QED BY <3>2, <3>3
  <2>7. CASE item.name # NoGroup
    <3>1. i \in DOMAIN a /\ j \in DOMAIN a /\ a[i] = GroupOf(item.name) /\ a[j] = GroupOf(item.name)
      BY <1>11, <2>1, <2>4, <2>7, <2>5
    <3> QED BY <1>8, <3>1
  <2> QED BY <2>6, <2>7
<1>15. \A i \in DOMAIN left : left[i].entries \subseteq {item.of : item \in CommentsOf(items)}
  <2> HIDE DEF left, N, U
  <2> QED BY <1>11, <1>13
<1> HIDE DEF left
<1> QED BY <1>1, <1>11, <1>12, <1>14, <1>15 DEF left

LEMMA RunShape ==
  ASSUME RunTypeOK
  PROVE  /\ InStage({"idle"}) => run = NoRun
         /\ InStage({"read"}) => /\ run = [stage |-> "read", contents |-> run.contents]
                                 /\ DOMAIN run.contents \subseteq Sources
                                 /\ run.contents \in [DOMAIN run.contents -> SUBSET typed]
         /\ InStage({"lock", "write", "delete"}) => run \in Extraction
         /\ run.stage \in {"idle", "read", "lock", "write", "delete"}
BY DEF RunTypeOK, NoRun, InStage, Extraction

LEMMA TypeType ==
  ASSUME RunTypeOK, inputs \in Nat, NEW f \in Sources, NEW kind \in {"comment", "reference", "code"},
         NEW name \in Groups \cup {NoGroup}, Type(f, kind, name)
  PROVE  /\ RunTypeOK' /\ typed' = typed \cup {[of |-> Local, kind |-> kind, name |-> name]}
         /\ Local \in LocalNames
<1> DEFINE item == [of |-> Local, kind |-> kind, name |-> name]
<1>1. Local \in LocalNames
  BY LocalType
<1>2. item \in Items
  BY <1>1 DEF Items
<1> HIDE DEF item
<1>3. /\ source' = [source EXCEPT ![f] = @ \cup {item}] /\ typed' = typed \cup {item}
      /\ run' = run /\ replaced' = replaced /\ broken' = broken
  BY DEF Type, item
<1>4. typed' \subseteq Items /\ IsFiniteSet(typed') /\ typed \subseteq typed'
  BY <1>2, <1>3, FS_AddElement DEF RunTypeOK
<1>5. source' \in [Sources -> SUBSET typed']
  BY <1>3 DEF RunTypeOK
<1>6. \/ run' = NoRun
      \/ /\ run' = [stage |-> "read", contents |-> run'.contents]
         /\ DOMAIN run'.contents \subseteq Sources
         /\ run'.contents \in [DOMAIN run'.contents -> SUBSET typed']
      \/ run' \in Extraction'
  <2>1. CASE run = NoRun
    BY <1>3, <2>1
  <2>2. CASE /\ run = [stage |-> "read", contents |-> run.contents]
             /\ DOMAIN run.contents \subseteq Sources
             /\ run.contents \in [DOMAIN run.contents -> SUBSET typed]
    <3>1. run.contents \in [DOMAIN run.contents -> SUBSET typed']
      BY <1>4, <2>2
    <3> QED BY <1>3, <2>2, <3>1
  <2>3. CASE run \in Extraction
    BY <1>3, <1>4, <2>3 DEF Extraction
  <2> QED BY <2>1, <2>2, <2>3 DEF RunTypeOK
<1> QED BY <1>1, <1>3, <1>4, <1>5, <1>6 DEF RunTypeOK, item

LEMMA ReadFileType ==
  ASSUME RunTypeOK, NEW f \in Sources, ReadFile(f)
  PROVE  /\ RunTypeOK' /\ InStage({"read"}) /\ InStage({"read"})'
         /\ DOMAIN run'.contents = DOMAIN run.contents \cup {f} /\ run'.contents[f] \in {source[f], {}}
         /\ \A g \in DOMAIN run.contents : run'.contents[g] = run.contents[g]
<1>1. /\ run = [stage |-> "read", contents |-> run.contents] /\ f \notin DOMAIN run.contents
      /\ DOMAIN run.contents \subseteq Sources
      /\ run.contents \in [DOMAIN run.contents -> SUBSET typed]
  BY RunShape DEF ReadFile
<1>2. PICK items \in {source[f], {}} : run' = [run EXCEPT !.contents =
                  [g \in DOMAIN @ \cup {f} |-> IF g = f THEN items ELSE @[g]]]
  BY DEF ReadFile
<1> DEFINE contents == [g \in DOMAIN run.contents \cup {f} |-> IF g = f THEN items ELSE run.contents[g]]
<1>3. /\ DOMAIN contents = DOMAIN run.contents \cup {f} /\ contents[f] = items
      /\ \A g \in DOMAIN run.contents : contents[g] = run.contents[g]
      /\ contents \in [DOMAIN contents -> SUBSET typed] /\ DOMAIN contents \subseteq Sources
  BY <1>1, <1>2 DEF RunTypeOK
<1>4. run' = [run EXCEPT !.contents = contents]
  BY <1>2
<1> HIDE DEF contents
<1>5. run' = [stage |-> "read", contents |-> contents]
  BY <1>1, <1>4
<1>6. run'.contents = contents /\ run'.stage = "read"
  BY <1>5
<1>7. RunTypeOK'
  BY <1>3, <1>5, <1>6 DEF RunTypeOK, ReadFile
<1> QED BY <1>1, <1>2, <1>3, <1>6, <1>7 DEF InStage

(* What the workers have read goes to the groups. *)
LEMMA GroupOf ==
  ASSUME RunTypeOK, Group
  PROVE  LET items == UNION {run.contents[f] : f \in Sources}
         IN  /\ RunTypeOK' /\ run' \in Extraction /\ run'.stage = "lock"
             /\ InStage({"read"}) /\ DOMAIN run.contents = Sources
             /\ run'.contents = run.contents /\ items \in SUBSET typed /\ IsFiniteSet(items)
             /\ run'.undone = {f \in Sources : \E item \in run.contents[f] : IsReviewComment(item)}
             /\ run'.left = GroupComments(items).names \o GroupComments(items).singles
<1> DEFINE items == UNION {run.contents[f] : f \in Sources}
           left == GroupComments(items).names \o GroupComments(items).singles
           undone == {f \in Sources : \E item \in run.contents[f] : IsReviewComment(item)}
<1>1. InStage({"read"}) /\ DOMAIN run.contents = Sources /\ run.contents \in [Sources -> SUBSET typed]
  BY RunShape DEF Group
<1>2. items \in SUBSET typed
  BY <1>1
<1>3. items \in SUBSET Items /\ IsFiniteSet(items)
  <2> HIDE DEF items
  <2> QED BY <1>2, FS_Subset DEF RunTypeOK
<1>4. left \in Seq(GroupRecords)
  <2> HIDE DEF items
  <2> QED BY <1>3, GroupCommentsOf
<1>5. run' = [stage |-> "lock", contents |-> run.contents, number |-> 0, left |-> left, undone |-> undone]
  BY DEF Group, HasReviewComments
<1>6. undone \subseteq Sources
  OBVIOUS
<1> HIDE DEF left, undone
<1>7. run' \in Extraction
  BY <1>1, <1>4, <1>5, <1>6 DEF Extraction
<1>8. run'.stage = "lock" /\ run'.contents = run.contents /\ run'.undone = undone /\ run'.left = left
  BY <1>5
<1>9. typed' = typed /\ source' = source /\ replaced' = replaced /\ broken' = broken
  BY DEF Group
<1>10. RunTypeOK'
  BY <1>7, <1>9 DEF RunTypeOK, Extraction
<1> HIDE DEF items
<1>11. /\ RunTypeOK' /\ run' \in Extraction /\ run'.stage = "lock"
       /\ InStage({"read"}) /\ DOMAIN run.contents = Sources
       /\ run'.contents = run.contents /\ items \in SUBSET typed /\ IsFiniteSet(items)
  BY <1>1, <1>2, <1>3, <1>7, <1>8, <1>10
<1> QED BY <1>8, <1>11 DEF items, left, undone

LEMMA DeleteFileOf ==
  ASSUME RunTypeOK, NEW f \in Sources, DeleteFile(f)
  PROVE  /\ RunTypeOK' /\ run \in Extraction /\ InStage({"delete"}) /\ f \in run.undone
         /\ run' \in Extraction /\ run'.stage = "delete" /\ run'.undone = run.undone \ {f}
         /\ run'.contents = run.contents /\ run'.left = run.left
         /\ source' = [source EXCEPT ![f] = {item \in run.contents[f] : ~IsReviewComment(item)}]
         /\ typed' = typed /\ broken' = broken /\ replaced' = replaced
<1>1. run \in Extraction /\ InStage({"delete"}) /\ f \in run.undone
  BY RunShape DEF DeleteFile, InStage
<1>2. run' = [run EXCEPT !.undone = @ \ {f}]
  BY DEF DeleteFile
<1>3. /\ run' \in Extraction /\ run'.stage = "delete" /\ run'.undone = run.undone \ {f}
      /\ run'.contents = run.contents /\ run'.left = run.left
  BY <1>1, <1>2 DEF Extraction, InStage
<1>4. /\ source' = [source EXCEPT ![f] = {item \in run.contents[f] : ~IsReviewComment(item)}]
      /\ typed' = typed /\ broken' = broken /\ replaced' = replaced
  BY DEF DeleteFile
<1>5. run.contents[f] \subseteq typed
  BY <1>1 DEF Extraction
<1>6. RunTypeOK'
  BY <1>3, <1>4, <1>5 DEF RunTypeOK, Extraction
<1> QED BY <1>1, <1>3, <1>4, <1>6

(* The next group is written and is off the list. *)
LEMMA WriteGroupOf ==
  ASSUME ImportInv, WriteGroup
  PROVE  \E group \in GroupRecords, file \in Groups \cup {NewFile} :
           /\ run \in Extraction /\ run.left # <<>> /\ group = Head(run.left) /\ run.left[1] = group
           /\ lock = Extractor /\ InStage({"write"}) /\ InStage({"write"})'
           /\ group.name # NoGroup => file = group.name
           /\ group.name = NoGroup => file = NewFile
           /\ DirTypeOK' /\ Numbered \subseteq Numbered' /\ DOMAIN threads' = DOMAIN threads \cup {file}
           /\ revived' = revived /\ removed' = removed
           /\ threads'[file].comments = {Comment(of) : of \in group.entries}
           /\ threads'[file].remote = Nobody
           /\ threads'[file].number = IF group.name = NoGroup THEN run.number ELSE 0
           /\ \A f \in DOMAIN threads : f # file => threads'[f] = threads[f]
           /\ replaced' = replaced \cup ((IF file \in DOMAIN threads THEN NamesIn(threads[file]) ELSE {})
                                              \ group.entries)
           /\ run' = [run EXCEPT !.left = Tail(@), !.number = IF group.name = NoGroup THEN @ + 1 ELSE @]
           /\ run' \in Extraction /\ run'.left = Tail(run.left) /\ run'.contents = run.contents
           /\ run'.undone = run.undone
           /\ RunTypeOK'
<1> DEFINE group == Head(run.left)
           file == IF group.name # NoGroup THEN group.name ELSE NewFile
           number == IF group.name # NoGroup THEN 0 ELSE run.number
           thread == Thread(number, Nobody, {Comment(of) : of \in group.entries})
           old == IF file \in DOMAIN threads THEN NamesIn(threads[file]) ELSE {}
<1>1. /\ DirTypeOK /\ RunTypeOK
      /\ run \in Extraction /\ run.left # <<>> /\ lock = Extractor /\ InStage({"write"})
  BY RunShape DEF WriteGroup, ImportInv, ImportTypeOK, LockInv, InStage
<1>2. /\ run.left \in Seq(GroupRecords) /\ group \in GroupRecords /\ Tail(run.left) \in Seq(GroupRecords)
      /\ run.left[1] = group /\ run.number \in Nat
  BY <1>1 DEF Extraction
<1>3. file \in Groups \cup {NewFile} /\ number \in Nat
  BY <1>2 DEF GroupRecords
<1>4. {Comment(of) : of \in group.entries} \in SUBSET Comments
  BY <1>2, CommentType DEF GroupRecords
<1>5. /\ run' = [run EXCEPT !.left = Tail(@), !.number = IF group.name # NoGroup THEN @ ELSE @ + 1]
      /\ threads' = Written(file, thread)
      /\ replaced' = replaced \cup (old \ group.entries)
      /\ source' = source /\ typed' = typed /\ broken' = broken
      /\ files' = IF group.name # NoGroup THEN files ELSE NewFile
      /\ revived' = revived /\ removed' = removed
  BY DEF WriteGroup
<1>15. \/ file \in Groups /\ files' = files
       \/ file = NewFile /\ files' = NewFile
  BY <1>2, <1>5 DEF GroupRecords
<1> HIDE DEF group
<1>6. /\ thread \in ThreadRecords /\ thread.number = number /\ thread.remote = Nobody
      /\ thread.comments = {Comment(of) : of \in group.entries}
  <2> HIDE DEF number
  <2> QED BY <1>3, <1>4, ThreadType
<1> HIDE DEF thread
<1>7. /\ DirTypeOK' /\ DOMAIN threads' = DOMAIN threads \cup {file} /\ threads'[file] = thread
      /\ \A f \in DOMAIN threads : f # file => threads'[f] = threads[f]
      /\ Numbered \subseteq Numbered'
  <2> HIDE DEF file
  <2> QED BY <1>1, <1>5, <1>6, <1>15, WrittenOf
<1>8. old \subseteq LocalNames \cup RemoteNames
  BY <1>1 DEF NamesIn, DirTypeOK, ThreadRecords, Comments
<1>9. run' = [run EXCEPT !.left = Tail(@), !.number = IF group.name = NoGroup THEN @ + 1 ELSE @]
  BY <1>5
<1>10. /\ run' \in Extraction /\ run'.left = Tail(run.left) /\ run'.contents = run.contents
       /\ run'.undone = run.undone /\ run'.stage = "write"
  <2> DEFINE next == IF group.name = NoGroup THEN run.number + 1 ELSE run.number
  <2>1. next \in Nat
    BY <1>2
  <2>2. run' = [run EXCEPT !.left = Tail(@), !.number = next]
    BY <1>9
  <2> HIDE DEF next
  <2> QED BY <1>1, <1>2, <2>1, <2>2 DEF Extraction, InStage
<1>11. RunTypeOK'
  <2> HIDE DEF old
  <2>1. run' \in Extraction'
    BY <1>5, <1>10 DEF Extraction
  <2>2. replaced' \subseteq LocalNames \cup RemoteNames
    BY <1>1, <1>5, <1>8 DEF RunTypeOK
  <2> QED BY <1>1, <1>5, <2>1, <2>2 DEF RunTypeOK
<1>12. /\ group.name # NoGroup => file = group.name
       /\ group.name = NoGroup => file = NewFile
       /\ number = IF group.name = NoGroup THEN run.number ELSE 0
       /\ group = Head(run.left)
  BY DEF group
<1>13. InStage({"write"})'
  BY <1>10 DEF InStage
<1>14. replaced' = replaced \cup ((IF file \in DOMAIN threads THEN NamesIn(threads[file]) ELSE {})
                                              \ group.entries)
  BY <1>5
<1> HIDE DEF file, number
<1> QED BY <1>1, <1>2, <1>3, <1>5, <1>6, <1>7, <1>9, <1>10, <1>11, <1>12, <1>13, <1>14

LEMMA SmallRunTypes ==
  ASSUME RunTypeOK, DirTypeOK
  PROVE  /\ Begin => RunTypeOK' /\ run' = [stage |-> "read", contents |-> [f \in {} |-> {}]]
         /\ LockDir => /\ RunTypeOK' /\ run \in Extraction /\ run' \in Extraction
                       /\ run' = [run EXCEPT !.stage = "write", !.number = NextNumber]
         /\ UnlockDir => RunTypeOK' /\ run \in Extraction /\ run' = [run EXCEPT !.stage = "delete"]
         /\ Finish \/ Abort => RunTypeOK' /\ run' = NoRun
<1>1. ASSUME Begin PROVE RunTypeOK' /\ run' = [stage |-> "read", contents |-> [f \in {} |-> {}]]
  BY <1>1 DEF Begin, RunTypeOK
<1>2. ASSUME LockDir
      PROVE  /\ RunTypeOK' /\ run \in Extraction /\ run' \in Extraction
             /\ run' = [run EXCEPT !.stage = "write", !.number = NextNumber]
  <2>1. run \in Extraction /\ run' = [run EXCEPT !.stage = "write", !.number = NextNumber]
    BY <1>2, RunShape DEF LockDir, InStage
  <2>2. run' \in Extraction
    BY <2>1, NextNumberOf DEF Extraction
  <2>3. run' \in Extraction'
    BY <1>2, <2>2 DEF LockDir, Extraction
  <2> QED BY <1>2, <2>1, <2>2, <2>3 DEF LockDir, RunTypeOK
<1>3. ASSUME UnlockDir PROVE RunTypeOK' /\ run \in Extraction /\ run' = [run EXCEPT !.stage = "delete"]
  <2>1. run \in Extraction /\ run' = [run EXCEPT !.stage = "delete"]
    BY <1>3, RunShape DEF UnlockDir, InStage
  <2>2. run' \in Extraction'
    BY <1>3, <2>1 DEF UnlockDir, Extraction
  <2> QED BY <1>3, <2>1, <2>2 DEF UnlockDir, RunTypeOK
<1>4. ASSUME Finish \/ Abort PROVE RunTypeOK' /\ run' = NoRun
  <2>1. broken' \in BOOLEAN
    <3>1. CASE Finish
      BY <3>1 DEF Finish, RunTypeOK
    <3>2. CASE Abort
      <4>1. broken \in BOOLEAN /\ InStage({"write", "delete"}) \in BOOLEAN
        BY DEF RunTypeOK, InStage
      <4> QED BY <3>2, <4>1, Zenon DEF Abort
    <3> QED BY <1>4, <3>1, <3>2
  <2> QED BY <1>4, <2>1 DEF Finish, Abort, RunTypeOK
<1> QED BY <1>1, <1>2, <1>3, <1>4

-----------------------------------------------------------------------------
(* Numbers stay apart: the steps of an extraction.                         *)

(* A step of an extraction that writes no thread. *)
LEMMA RunStep ==
  ASSUME ImportInv, RunTypeOK', UNCHANGED directory, UNCHANGED pullVars,
         inputs' \in Nat, exposed' \subseteq LocalNames,
         InStage({"write"})' <=> lock' = Extractor,
         \/ lock' = lock
         \/ lock = Nobody /\ lock' = Extractor
         \/ lock = Extractor /\ lock' = Nobody,
         InStage({"write"})' => AboveAll(run'.number)
  PROVE  ImportInv'
<1>1. pull' = pull /\ remote' = remote /\ shared' = shared
  BY DEF pullVars
<1>2. DirTypeOK' /\ NumbersApart' /\ (\A n : AboveAll(n)' <=> AboveAll(n))
  BY DEF ImportInv, ImportTypeOK, DirTypeOK, NumberInv, NumbersApart, AboveAll, Numbered, directory
<1>3. ImportTypeOK'
  BY <1>1, <1>2 DEF ImportInv, ImportTypeOK, PullTypeOK
<1>4. Extractor # Nobody /\ \A q \in Pullers : q # Nobody /\ q # Extractor
  BY PullAssumption, ImportAssumption, ExtractAssumption
<1>5. LockInv'
  <2>1. \A q \in Pullers : At(q, "write")' <=> lock' = q
    BY <1>1, <1>4 DEF ImportInv, LockInv, At
  <2> QED BY <2>1 DEF ImportInv, LockInv
<1>6. NumberInv'
  <2>1. \A q \in Pullers : LeftOf(q)' = LeftOf(q)
    BY <1>1, LeftSame
  <2>2. \A f, entry : CopyOf(f, entry)' <=> CopyOf(f, entry)
    BY DEF CopyOf, Numbered, directory
  <2>3. \A q \in Pullers : At(q, "write")' => AboveAll(pull[q].number)'
    BY <1>1, <1>2 DEF At, ImportInv, NumberInv
  <2>4. InStage({"write"})' => AboveAll(run.number)'
    BY <1>2
  <2>5. \A f \in DOMAIN threads' :
          IF f \in Groups THEN threads'[f].number = 0 /\ threads'[f].remote = Nobody
          ELSE threads'[f].number > 0
    BY DEF ImportInv, NumberInv, directory
  <2>6. \A q \in Pullers : \A entry \in LeftOf(q)' :
          entry.thread.remote # Nobody /\ (entry.file # Nobody => CopyOf(entry.file, entry)')
    BY <2>1, <2>2 DEF ImportInv, NumberInv
  <2>7. \A q, r \in Pullers : \A entry \in LeftOf(q)', other \in LeftOf(r)' :
          entry.file = other.file /\ entry.file # Nobody => SameThread(entry.thread, other.thread)
    BY <2>1 DEF ImportInv, NumberInv
  <2> QED BY <1>2, <2>3, <2>4, <2>5, <2>6, <2>7 DEF NumberInv
<1> QED BY <1>3, <1>5, <1>6 DEF ImportInv

LEMMA WriteGroupInv ==
  ASSUME ImportInv, WriteGroup, UNCHANGED <<inputs, exposed, pullVars>>
  PROVE  ImportInv'
<1>1. PICK group \in GroupRecords, file \in Groups \cup {NewFile} :
        /\ run \in Extraction /\ lock = Extractor /\ InStage({"write"}) /\ InStage({"write"})'
        /\ group.name # NoGroup => file = group.name
        /\ group.name = NoGroup => file = NewFile
        /\ DirTypeOK' /\ Numbered \subseteq Numbered' /\ DOMAIN threads' = DOMAIN threads \cup {file}
        /\ revived' = revived
        /\ threads'[file].remote = Nobody
        /\ threads'[file].number = IF group.name = NoGroup THEN run.number ELSE 0
        /\ \A f \in DOMAIN threads : f # file => threads'[f] = threads[f]
        /\ run' = [run EXCEPT !.left = Tail(@), !.number = IF group.name = NoGroup THEN @ + 1 ELSE @]
        /\ RunTypeOK'
  BY WriteGroupOf
<1>2. DirTypeOK /\ NumbersApart /\ GroupsPlain /\ run.number \in Nat /\ AboveAll(run.number)
  BY <1>1, UnlinkedOf DEF ImportInv, ImportTypeOK, NumberInv, Extraction
<1>3. pull' = pull /\ remote' = remote /\ shared' = shared /\ lock' = lock
  BY DEF pullVars, WriteGroup
<1>4. group.name # NoGroup => file \in Groups
  BY <1>1 DEF GroupRecords
<1>5. \/ file = NewFile /\ AboveAll(threads'[file].number) /\ threads'[file].number > 0
      \/ file \in Groups /\ threads'[file].number = 0 /\ threads'[file].remote = Nobody
  BY <1>1, <1>2, <1>4 DEF AboveAll
<1>6. /\ NumbersApart' /\ GroupsPlain'
      /\ \A entry : CopyOf(entry.file, entry) => CopyOf(entry.file, entry)'
      /\ \A n \in Nat : AboveAll(n) /\ (file # NewFile \/ threads'[file].number < n) => AboveAll(n)'
  <2>1. /\ NumbersApart' /\ GroupsPlain'
        /\ \A entry : CopyOf(entry.file, entry)
              /\ (entry.file = file /\ file \notin DOMAIN threads => SameThread(entry.thread, threads'[file]))
              => CopyOf(entry.file, entry)'
        /\ \A n \in Nat : AboveAll(n) /\ (file # NewFile \/ threads'[file].number < n) => AboveAll(n)'
    BY <1>1, <1>2, <1>5, NumbersStep
  <2>2. ASSUME NEW entry, CopyOf(entry.file, entry) PROVE entry.file # file
    BY <1>2, <1>5, <2>2, NewFileOf DEF CopyOf
  <2> QED BY <2>1, <2>2
<1>7. ImportTypeOK'
  BY <1>1, <1>3 DEF ImportInv, ImportTypeOK, PullTypeOK
<1>8. LockInv'
  BY <1>1, <1>3 DEF ImportInv, LockInv, At
<1>9. \A q \in Pullers : ~At(q, "write")'
  BY <1>1, <1>3, <1>8, ImportAssumption DEF LockInv
<1>10. AboveAll(run.number)'
  <2>1. run'.number = IF group.name = NoGroup THEN run.number + 1 ELSE run.number
    BY <1>1 DEF Extraction
  <2>2. run'.number \in Nat /\ AboveAll(run'.number)
    BY <1>2, <2>1 DEF AboveAll, DirTypeOK, ThreadRecords
  <2>3. file # NewFile \/ threads'[file].number < run'.number
    <3>1. CASE group.name = NoGroup
      BY <1>1, <1>2, <2>1, <3>1
    <3>2. CASE group.name # NoGroup
      BY <1>2, <1>4, <3>2, NewFileOf
    <3> QED BY <3>1, <3>2
  <2> QED BY <1>6, <2>2, <2>3 DEF AboveAll
<1>11. NumberInv'
  <2>1. \A q \in Pullers : LeftOf(q)' = LeftOf(q)
    BY <1>3, LeftSame
  <2>2. \A q \in Pullers : \A entry \in LeftOf(q)' :
          entry.thread.remote # Nobody /\ (entry.file # Nobody => CopyOf(entry.file, entry)')
    BY <1>6, <2>1 DEF ImportInv, NumberInv
  <2> QED BY <1>6, <1>9, <1>10, <2>1, <2>2 DEF NumberInv, GroupsPlain, ImportInv
<1> QED BY <1>7, <1>8, <1>11 DEF ImportInv

LEMMA ExtractInv == ASSUME ImportInv, ExtractNext, UNCHANGED pullVars PROVE ImportInv'
<1>1. /\ RunTypeOK /\ DirTypeOK /\ inputs \in Nat /\ exposed \subseteq LocalNames
      /\ (InStage({"write"}) <=> lock = Extractor)
      /\ (InStage({"write"}) => AboveAll(run.number))
      /\ Extractor # Nobody
  BY ExtractAssumption DEF ImportInv, ImportTypeOK, LockInv, NumberInv
<1>2. inputs' \in Nat
  BY <1>1 DEF ExtractNext, Input
<1>3. CASE Begin
  <2>1. RunTypeOK' /\ run'.stage = "read"
    BY <1>1, <1>3, SmallRunTypes
  <2>2. InStage({"idle"}) /\ UNCHANGED directory /\ lock' = lock /\ exposed' = exposed
    BY <1>3 DEF Begin, dirVars
  <2> QED BY <1>1, <1>2, <2>1, <2>2, RunStep DEF InStage
<1>4. CASE Abort \/ (Finish /\ UNCHANGED <<inputs, exposed>>)
  <2>1. RunTypeOK' /\ run'.stage = "idle"
    BY <1>1, <1>4, SmallRunTypes DEF NoRun
  <2>2. /\ UNCHANGED directory /\ exposed' = exposed
        /\ lock' = IF lock = Extractor THEN Nobody ELSE lock
    <3>1. CASE Abort
      BY <3>1 DEF Abort
    <3>2. CASE Finish /\ UNCHANGED <<inputs, exposed>>
      BY <1>1, <3>2 DEF Finish, InStage, dirVars
    <3> QED BY <1>4, <3>1, <3>2
  <2> QED BY <1>1, <1>2, <2>1, <2>2, RunStep DEF InStage
<1>5. ASSUME NEW f \in Sources, NEW kind \in {"comment", "reference", "code"},
             NEW name \in Groups \cup {NoGroup}, Type(f, kind, name)
      PROVE  ImportInv'
  <2>1. RunTypeOK' /\ Local \in LocalNames
    BY <1>1, <1>5, TypeType
  <2>2. /\ UNCHANGED directory /\ lock' = lock /\ run' = run
        /\ exposed' = IF f \in Stale THEN exposed \cup {Local} ELSE exposed
    BY <1>5 DEF Type, dirVars
  <2> QED BY <1>1, <1>2, <2>1, <2>2, RunStep DEF InStage
<1>6. CASE Group /\ UNCHANGED <<inputs, exposed>>
  <2>1. RunTypeOK' /\ run'.stage = "lock" /\ InStage({"read"})
    BY <1>1, <1>6, GroupOf
  <2>2. UNCHANGED directory /\ lock' = lock
    BY <1>6 DEF Group, dirVars
  <2> QED BY <1>1, <1>2, <1>6, <2>1, <2>2, RunStep DEF InStage
<1>7. CASE LockDir /\ UNCHANGED <<inputs, exposed>>
  <2>1. /\ RunTypeOK' /\ run \in Extraction
        /\ run' = [run EXCEPT !.stage = "write", !.number = NextNumber]
    BY <1>1, <1>7, SmallRunTypes
  <2>2. run'.stage = "write" /\ run'.number = NextNumber
    BY <2>1 DEF Extraction
  <2>3. UNCHANGED directory /\ lock = Nobody /\ lock' = Extractor
    BY <1>7 DEF LockDir
  <2>4. AboveAll(run'.number)
    BY <1>1, <2>2, NextNumberOf
  <2> QED BY <1>1, <1>2, <1>7, <2>1, <2>2, <2>3, <2>4, RunStep DEF InStage
<1>8. CASE WriteGroup /\ UNCHANGED <<inputs, exposed>>
  BY <1>8, WriteGroupInv
<1>9. CASE UnlockDir /\ UNCHANGED <<inputs, exposed>>
  <2>1. RunTypeOK' /\ run \in Extraction /\ run' = [run EXCEPT !.stage = "delete"]
    BY <1>1, <1>9, SmallRunTypes
  <2>2. run'.stage = "delete"
    BY <2>1 DEF Extraction
  <2>3. UNCHANGED directory /\ lock = Extractor /\ lock' = Nobody
    BY <1>1, <1>9 DEF UnlockDir, InStage
  <2> QED BY <1>1, <1>2, <1>9, <2>1, <2>2, <2>3, RunStep DEF InStage
<1>10. ASSUME NEW f \in Sources, ReadFile(f), UNCHANGED <<inputs, exposed>>
       PROVE  ImportInv'
  <2>1. RunTypeOK' /\ InStage({"read"}) /\ InStage({"read"})'
    BY <1>1, <1>10, ReadFileType
  <2>2. UNCHANGED directory /\ lock' = lock
    BY <1>10 DEF ReadFile, dirVars
  <2> QED BY <1>1, <1>2, <1>10, <2>1, <2>2, RunStep DEF InStage
<1>11. ASSUME NEW f \in Sources, DeleteFile(f), UNCHANGED <<inputs, exposed>>
       PROVE  ImportInv'
  <2>1. RunTypeOK' /\ InStage({"delete"}) /\ run'.stage = "delete"
    BY <1>1, <1>11, DeleteFileOf
  <2>2. UNCHANGED directory /\ lock' = lock
    BY <1>11 DEF DeleteFile, dirVars
  <2> QED BY <1>1, <1>2, <1>11, <2>1, <2>2, RunStep DEF InStage
<1>12. ASSUME NEW f \in Sources,
              \/ \E kind \in {"comment", "code"} : Type(f, kind, NoGroup)
              \/ \E kind \in {"comment", "reference"}, name \in Groups : Type(f, kind, name)
       PROVE  ImportInv'
  <2>1. CASE \E kind \in {"comment", "code"} : Type(f, kind, NoGroup)
    BY <1>5, <2>1
  <2>2. CASE \E kind \in {"comment", "reference"}, name \in Groups : Type(f, kind, name)
    BY <1>5, <2>2
  <2> QED BY <1>12, <2>1, <2>2
<1> QED BY <1>3, <1>4, <1>6, <1>7, <1>8, <1>9, <1>10, <1>11, <1>12 DEF ExtractNext

-----------------------------------------------------------------------------
LEMMA InitImport == ASSUME Init PROVE ImportInv
<1>1. DOMAIN threads = {} /\ files = 0 /\ lock = Nobody /\ inputs = 0 /\ exposed = {}
  BY DEF Init, DirInit
<1>2. DirTypeOK
  <2>1. IsFiniteSet(DOMAIN threads)
    BY <1>1, FS_EmptySet
  <2>2. threads = [f \in DOMAIN threads |-> threads[f]]
    BY DEF Init, DirInit
  <2> QED BY <1>1, <2>1, <2>2 DEF DirTypeOK
<1>3. PullTypeOK
  <2>1. /\ remote = [t \in RemoteThreads |-> <<>>]
        /\ pull = [p \in Pullers |-> Resting] /\ shared = FALSE
    BY DEF Init, PullInit
  <2>2. Resting \in Waiting
    BY DEF Resting, Waiting
  <2>3. remote \in [RemoteThreads -> Seq(RemoteComments)]
    BY <2>1
  <2> QED BY <2>1, <2>2, <2>3 DEF PullTypeOK
<1>4. RunTypeOK
  <2>1. source = [f \in Sources |-> {}] /\ run = NoRun /\ typed = {} /\ replaced = {} /\ broken = FALSE
    BY DEF Init, ExtractInit
  <2>2. source \in [Sources -> SUBSET typed]
    BY <2>1
  <2> QED BY <2>1, <2>2, FS_EmptySet DEF RunTypeOK
<1>5. (\A p \in Pullers : pull[p] = Resting) /\ run = NoRun
  BY DEF Init, PullInit, ExtractInit
<1>6. LockInv
  BY <1>1, <1>5, PullAssumption, ExtractAssumption DEF LockInv, At, InStage, Resting, NoRun
<1>7. NumberInv
  BY <1>1, <1>5 DEF NumberInv, NumbersApart, LeftOf, At, InStage, Resting, NoRun
<1> QED BY <1>1, <1>2, <1>3, <1>4, <1>6, <1>7 DEF ImportInv, ImportTypeOK

LEMMA PullNextInv == ASSUME ImportInv, PullNext, UNCHANGED extractVars PROVE ImportInv'
<1>1. inputs' \in Nat
  BY DEF PullNext, Input, ImportInv, ImportTypeOK
<1>2. CASE RemoteInput /\ UNCHANGED <<dirVars, exposed>>
  BY <1>1, <1>2, RemoteInv
<1>3. ASSUME NEW p \in Pullers, Start(p) \/ Fetch(p), UNCHANGED <<dirVars, exposed>> PROVE ImportInv'
  BY <1>1, <1>3, FetchInv
<1>4. ASSUME NEW p \in Pullers, Stop(p) \/ Unlock(p), UNCHANGED exposed PROVE ImportInv'
  BY <1>1, <1>4, UnlockInv
<1>5. ASSUME NEW p \in Pullers, Index(p) \/ Lock(p) \/ Write(p), UNCHANGED <<inputs, exposed>> PROVE ImportInv'
  BY <1>5, IndexInv, LockInvariance, WriteInv
<1> QED BY <1>2, <1>3, <1>4, <1>5 DEF PullNext

LEMMA StutterInv == ASSUME ImportInv, UNCHANGED allVars PROVE ImportInv'
<1>1. /\ UNCHANGED <<dirVars, inputs, exposed, remote, pull, shared, extractVars>>
  BY DEF allVars, pullVars
<1>2. RunTypeOK'
  BY <1>1 DEF ImportInv, ImportTypeOK, RunTypeOK, extractVars, Extraction
<1> QED BY <1>1, <1>2, RunStep DEF allVars, dirVars, extractVars, InStage, ImportInv, ImportTypeOK, LockInv, NumberInv

LEMMA NextImport == ASSUME ImportInv, [Next]_allVars PROVE ImportInv'
BY PullNextInv, ExtractInv, OtherInv, StutterInv DEF Next

LEMMA ImportInvariance == Spec => []ImportInv
<1>1. Init => ImportInv
  BY InitImport
<1>2. ImportInv /\ [Next]_allVars => ImportInv'
  BY NextImport
<1> QED BY <1>1, <1>2, PTL DEF Spec

(* Two threads never have one number, whoever creates them: a pull, an     *)
(* extraction or another command, whatever users remove, and wherever      *)
(* these stop half-way (NextNumber under the lock, writeThreads,           *)
(* WriteThreadFilesTo).  Of this are excepted the threads in `revived`,    *)
(* which a user removed after a pull had read them and the pull wrote back *)
(* with the number that they had (buildMatchIndex before LockDir).         *)
THEOREM ImportNumbersApart == Spec => []NumbersApart
<1>1. ImportInv => NumbersApart
  BY DEF ImportInv, NumberInv
<1> QED BY <1>1, ImportInvariance, PTL

-----------------------------------------------------------------------------
(* Comments are kept.                                                      *)

(* A step that leaves the threads that are there as they were, and adds    *)
(* nothing to what pulls are to write.                                     *)
LEMMA CopiesFrame ==
  ASSUME CopiesInv, exposed \subseteq exposed', shared => shared',
         \A f \in DOMAIN threads' : f \in DOMAIN threads /\ threads'[f] = threads[f],
         SharedInv', LeftApart', \A p \in Pullers : LeftOf(p)' \subseteq LeftOf(p)
  PROVE  CopiesInv'
<1>1. ASSUME NEW p \in Pullers, NEW entry \in LeftOf(p)', entry.file \in DOMAIN threads'
      PROVE  /\ Covers(entry.thread, threads[entry.file])'
             /\ CoveredBy(entry.thread, threads[entry.file])'
  <2>1. /\ Covers(entry.thread, threads[entry.file])
        /\ CoveredBy(entry.thread, threads[entry.file])
    BY <1>1 DEF CopiesInv
  <2>2. threads'[entry.file] = threads[entry.file]
    BY <1>1
  <2> QED BY <2>1, <2>2 DEF Covers, CoveredBy, NamesIn
<1>2. ASSUME NEW p \in Pullers, NEW q \in Pullers, NEW entry \in LeftOf(p)', NEW other \in LeftOf(q)',
             entry.file = other.file, entry.file # Nobody
      PROVE  Covers(entry.thread, other.thread)'
  <2>1. Covers(entry.thread, other.thread)
    BY <1>2 DEF CopiesInv
  <2> QED BY <2>1 DEF Covers, NamesIn
<1> QED BY <1>1, <1>2 DEF CopiesInv

(* A write to a file that no pull has a copy of. *)
LEMMA CopiesElsewhere ==
  ASSUME ImportInv, CopiesInv, exposed' = exposed, UNCHANGED pullVars, NEW file,
         file \notin Numbered \cup {Nobody}, DOMAIN threads' = DOMAIN threads \cup {file},
         \A f \in DOMAIN threads : f # file => threads'[f] = threads[f]
  PROVE  CopiesInv'
<1>1. pull' = pull /\ shared' = shared
  BY DEF pullVars
<1>2. SharedInv' /\ LeftApart' /\ \A p \in Pullers : LeftOf(p)' = LeftOf(p)
  BY <1>1, LeftSame DEF CopiesInv, SharedInv, LeftApart, Running, At
<1>3. ASSUME NEW p \in Pullers, NEW entry \in LeftOf(p)', entry.file \in DOMAIN threads'
      PROVE  /\ Covers(entry.thread, threads[entry.file])'
             /\ CoveredBy(entry.thread, threads[entry.file])'
  <2>1. entry \in LeftOf(p) /\ entry.file # file
    BY <1>2, <1>3 DEF ImportInv, NumberInv, CopyOf
  <2>2. /\ Covers(entry.thread, threads[entry.file])
        /\ CoveredBy(entry.thread, threads[entry.file])
    BY <1>3, <2>1 DEF CopiesInv
  <2>3. threads'[entry.file] = threads[entry.file]
    BY <1>3, <2>1
  <2> QED BY <1>1, <2>2, <2>3 DEF Covers, CoveredBy, NamesIn
<1>4. ASSUME NEW p \in Pullers, NEW q \in Pullers, NEW entry \in LeftOf(p)', NEW other \in LeftOf(q)',
             entry.file = other.file, entry.file # Nobody
      PROVE  Covers(entry.thread, other.thread)'
  <2>1. Covers(entry.thread, other.thread)
    BY <1>2, <1>4 DEF CopiesInv
  <2> QED BY <1>1, <2>1 DEF Covers, NamesIn
<1> QED BY <1>2, <1>3, <1>4 DEF CopiesInv

(* Pulls that run are still alone unless `shared` says otherwise. *)
LEMMA SharedStep ==
  ASSUME SharedInv, shared => shared', \A p \in Pullers : Running(p)' => Running(p)
  PROVE  SharedInv'
BY DEF SharedInv

LEMMA FetchCopies ==
  ASSUME ImportInv, CopiesInv, NEW p \in Pullers, Start(p) \/ Fetch(p), UNCHANGED <<dirVars, exposed>>
  PROVE  CopiesInv'
<1>1. PullTypeOK
  BY DEF ImportInv, ImportTypeOK
<1>2. PICK new \in Waiting \cup Fetching : pull' = [pull EXCEPT ![p] = new]
  BY <1>1, FetchOf
<1>3. (\A q \in Pullers : q # p => pull'[q] = pull[q]) /\ pull'[p] = new
      /\ new.stage \notin {"lock", "write"}
  BY <1>1, <1>2 DEF PullTypeOK, Waiting, Fetching
<1>4. SharedInv'
  <2>1. CASE Start(p)
    <3> SUFFICES ASSUME NEW q \in Pullers, NEW r \in Pullers, Running(q)', Running(r)', q # r
                 PROVE  shared'
      BY DEF SharedInv
    <3>1. CASE q # p /\ r # p
      <4>1. Running(q) /\ Running(r)
        BY <1>3, <3>1 DEF Running
      <4>2. shared
        BY <4>1 DEF CopiesInv, SharedInv
      <4> QED BY <2>1, <4>2 DEF Start
    <3>2. CASE q = p
      <4>1. Running(r) /\ r \in Pullers \ {p}
        BY <1>3, <3>2 DEF Running
      <4> QED BY <2>1, <4>1 DEF Start
    <3>3. CASE r = p
      <4>1. Running(q) /\ q \in Pullers \ {p}
        BY <1>3, <3>3 DEF Running
      <4> QED BY <2>1, <4>1 DEF Start
    <3> QED BY <3>1, <3>2, <3>3
  <2>2. CASE Fetch(p)
    <3>1. Running(p) /\ shared' = shared
      BY <2>2 DEF Fetch, FetchThreads, CheckCounts, FetchConversation, FetchRemaining, At, Running
    <3>2. \A q \in Pullers : Running(q)' => Running(q)
      BY <1>3, <3>1 DEF Running
    <3> QED BY <3>1, <3>2, SharedStep DEF CopiesInv
  <2> QED BY <2>1, <2>2
<1>5. LeftApart'
  BY <1>3 DEF LeftApart, At, CopiesInv
<1>6. \A q \in Pullers : LeftOf(q)' \subseteq LeftOf(q)
  <2>1. LeftOf(p)' = {}
    BY <1>3 DEF LeftOf, At
  <2> QED BY <1>3, <2>1, LeftSame
<1>7. shared => shared'
  BY DEF Start, Fetch, FetchThreads, CheckCounts, FetchConversation, FetchRemaining
<1> QED BY <1>4, <1>5, <1>6, <1>7, CopiesFrame DEF dirVars, directory

(* A merged thread has the names of the thread and of what was fetched. *)
LEMMA MergedNames ==
  ASSUME NEW thread \in ThreadRecords, NEW got \in Seq(RemoteComments)
  PROVE  NamesIn(MergeThread(thread, got)) = NamesIn(thread) \cup {Names(c) : c \in Mapped(got)}
<1> DEFINE merged == MergeThread(thread, got)
<1>1. /\ \A m \in merged.comments :
            \/ m \in thread.comments
            \/ \E k \in thread.comments, c \in Mapped(got) : k.of = Names(c) /\ m = Updated(k, c)
            \/ \E c \in Mapped(got) : m = Pulled(c)
      /\ \A k \in thread.comments : \E m \in merged.comments :
            \/ m = k
            \/ \E c \in Mapped(got) : k.of = Names(c) /\ m = Updated(k, c)
      /\ \A c \in Mapped(got) : Names(c) \notin NamesIn(thread) => Pulled(c) \in merged.comments
  BY MergeThreadOf
<1>2. thread.comments \subseteq Comments /\ Mapped(got) \subseteq RemoteComments
  BY MappedType DEF ThreadRecords
<1>3. \A k \in thread.comments, c \in Mapped(got) : Updated(k, c).of = k.of
  BY <1>2, UpdatedType
<1>4. \A c \in Mapped(got) : Pulled(c).of = Names(c)
  BY <1>2, PulledType
<1> HIDE DEF merged
<1>5. \A m \in merged.comments : m.of \in NamesIn(thread) \cup {Names(c) : c \in Mapped(got)}
  BY <1>1, <1>3, <1>4 DEF NamesIn
<1>6. \A of \in NamesIn(thread) : of \in NamesIn(merged)
  BY <1>1, <1>3 DEF NamesIn
<1>7. \A c \in Mapped(got) : Names(c) \in NamesIn(merged)
  <2> SUFFICES ASSUME NEW c \in Mapped(got) PROVE Names(c) \in NamesIn(merged)
    OBVIOUS
  <2>1. CASE Names(c) \in NamesIn(thread)
    BY <1>6, <2>1
  <2>2. CASE Names(c) \notin NamesIn(thread)
    BY <1>1, <1>4, <2>2 DEF NamesIn
  <2> QED BY <2>1, <2>2
<1>8. NamesIn(merged) \subseteq NamesIn(thread) \cup {Names(c) : c \in Mapped(got)}
  BY <1>5 DEF NamesIn
<1> QED BY <1>6, <1>7, <1>8 DEF merged

LEMMA IndexCopies ==
  ASSUME ImportInv, CopiesInv, NEW p \in Pullers, Index(p), UNCHANGED exposed
  PROVE  CopiesInv'
<1>1. PullTypeOK /\ DirTypeOK /\ GroupsUnlinked /\ GroupsPlain
  BY UnlinkedOf DEF ImportInv, ImportTypeOK
<1>2. PICK new \in Waiting \cup Writing :
        /\ pull' = [pull EXCEPT ![p] = new]
        /\ \/ new \in Waiting
           \/ /\ new \in Writing /\ new.stage = "lock"
              /\ \A i \in DOMAIN new.left : \E t \in RemoteThreads :
                    new.left[i] = Entry(t, pull[p].got[t])
              /\ \A i, j \in DOMAIN new.left :
                    new.left[i].thread.remote = new.left[j].thread.remote => i = j
  BY ZenonT(60), <1>1, IndexOf
<1>3. pull[p] \in Fetching /\ pull[p].stage = "index"
  BY <1>1, IndexOf
<1>4. (\A q \in Pullers : q # p => pull'[q] = pull[q]) /\ pull'[p] = new /\ threads' = threads /\ shared' = shared
  BY <1>1, <1>2 DEF PullTypeOK, Index, dirVars, directory
<1>5. SharedInv'
  <2>1. Running(p)
    BY <1>3 DEF Running
  <2>2. \A q \in Pullers : Running(q)' => Running(q)
    BY <1>4, <2>1 DEF Running
  <2> QED BY <1>4, <2>2, SharedStep DEF CopiesInv
<1>6. LeftApart'
  <2>1. new \in Waiting => new.stage \notin {"lock", "write"}
    BY DEF Waiting
  <2> QED BY <1>2, <1>4, <2>1 DEF LeftApart, At, CopiesInv
<1>7. ASSUME NEW entry \in LeftOf(p)', entry.file # Nobody
      PROVE  /\ entry.file \in DOMAIN threads /\ SameThread(entry.thread, threads[entry.file])
             /\ Covers(entry.thread, threads[entry.file])
             /\ CoveredBy(entry.thread, threads[entry.file])
  <2>1. new.stage \in {"lock", "write"} /\ \E i \in DOMAIN new.left : entry = new.left[i]
    BY <1>4, <1>7 DEF LeftOf, At
  <2>2. new \notin Waiting
    BY <2>1 DEF Waiting
  <2>3. PICK t \in RemoteThreads : entry = Entry(t, pull[p].got[t])
    BY <1>2, <2>1, <2>2
  <2> DEFINE got == pull[p].got[t]
  <2>4. got \in Seq(RemoteComments)
    BY <1>3 DEF Fetching
  <2>5. /\ entry.file \in Numbered \cap DOMAIN threads
        /\ entry.thread = MergeThread(threads[entry.file], got)
        /\ CopyOf(entry.file, entry)
    BY <1>1, <1>7, <2>3, <2>4, EntryOf, EntryType DEF GroupsUnlinked
  <2>6. threads[entry.file] \in ThreadRecords
    BY <1>1, <2>5 DEF DirTypeOK
  <2>7. NamesIn(entry.thread) = NamesIn(threads[entry.file]) \cup {Names(c) : c \in Mapped(got)}
    BY <2>4, <2>5, <2>6, MergedNames
  <2>8. {Names(c) : c \in Mapped(got)} \subseteq RemoteNames
    BY <2>4, MappedType, PulledType
  <2>9. Covers(entry.thread, threads[entry.file])
    BY <2>7 DEF Covers
  <2>10. CoveredBy(entry.thread, threads[entry.file])
    BY <2>7, <2>8 DEF CoveredBy
  <2> QED BY <2>5, <2>9, <2>10 DEF CopyOf
<1>8. \A q \in Pullers : q # p => LeftOf(q)' = LeftOf(q)
  BY <1>4, LeftSame
<1>9. Nobody \notin DOMAIN threads /\ exposed' = exposed
  BY <1>1, NewFileOf
<1>10. ASSUME NEW q \in Pullers, NEW entry \in LeftOf(q)', entry.file \in DOMAIN threads
       PROVE  /\ Covers(entry.thread, threads[entry.file])
              /\ CoveredBy(entry.thread, threads[entry.file])
  BY <1>7, <1>8, <1>9, <1>10 DEF CopiesInv
<1>11. ASSUME NEW q \in Pullers, NEW r \in Pullers, NEW entry \in LeftOf(q)', NEW other \in LeftOf(r)',
              entry.file = other.file, entry.file # Nobody
       PROVE  Covers(entry.thread, other.thread)
  <2>1. CASE q # p /\ r # p
    BY <1>8, <1>11, <2>1 DEF CopiesInv
  <2>2. CASE q = p /\ r = p
    <3>1. entry.thread.remote = other.thread.remote
      BY <1>7, <1>11, <2>2 DEF SameThread
    <3>2. entry = other
      BY <1>6, <1>11, <2>2, <3>1 DEF LeftOf, LeftApart, At
    <3> QED BY <3>2 DEF Covers
  <2>3. CASE q # r /\ (q = p \/ r = p)
    <3>1. entry.file \in DOMAIN threads
      BY <1>7, <1>11, <2>3
    <3>2. shared
      <4>1. Running(q)' /\ Running(r)'
        BY <1>11 DEF LeftOf, At, Running
      <4> QED BY <1>4, <1>5, <2>3, <4>1 DEF SharedInv
    <3>3. Covers(entry.thread, threads[entry.file]) /\ CoveredBy(other.thread, threads[entry.file])
      BY <1>10, <1>11, <3>1
    <3> QED BY <3>2, <3>3 DEF Covers, CoveredBy
  <2> QED BY <2>1, <2>2, <2>3
<1>12. ASSUME NEW q \in Pullers, NEW entry \in LeftOf(q)', entry.file \in DOMAIN threads'
       PROVE  /\ Covers(entry.thread, threads[entry.file])'
              /\ CoveredBy(entry.thread, threads[entry.file])'
  <2>1. /\ Covers(entry.thread, threads[entry.file])
        /\ CoveredBy(entry.thread, threads[entry.file])
    BY <1>4, <1>10, <1>12
  <2> QED BY <1>4, <1>9, <2>1 DEF Covers, CoveredBy, NamesIn
<1>13. ASSUME NEW q \in Pullers, NEW r \in Pullers, NEW entry \in LeftOf(q)', NEW other \in LeftOf(r)',
              entry.file = other.file, entry.file # Nobody
       PROVE  Covers(entry.thread, other.thread)'
  <2>1. Covers(entry.thread, other.thread)
    BY <1>11, <1>13
  <2> QED BY <1>4, <1>9, <2>1 DEF Covers, NamesIn
<1> QED BY <1>5, <1>6, <1>12, <1>13 DEF CopiesInv

LEMMA LockCopies ==
  ASSUME ImportInv, CopiesInv, NEW p \in Pullers, Lock(p) \/ Unlock(p) \/ Stop(p), UNCHANGED exposed
  PROVE  CopiesInv'
<1>1. PullTypeOK /\ threads' = threads /\ shared' = shared /\ Running(p)
  BY DEF ImportInv, ImportTypeOK, Lock, Unlock, Stop, At, Running, directory
<1>2. CASE Lock(p)
  <2>1. pull[p] \in Writing /\ pull[p].stage = "lock"
    BY <1>1, <1>2, PullShape DEF Lock, At
  <2>2. pull' = [pull EXCEPT ![p].stage = "write", ![p].number = NextNumber]
    BY <1>2 DEF Lock
  <2>3. pull'[p].stage = "write" /\ pull'[p].left = pull[p].left /\ \A q \in Pullers : q # p => pull'[q] = pull[q]
    BY <1>1, <2>1, <2>2 DEF PullTypeOK, Writing
  <2>4. LeftOf(p)' = LeftOf(p)
    BY <2>1, <2>3 DEF LeftOf, At
  <2>5. \A q \in Pullers : LeftOf(q)' \subseteq LeftOf(q)
    BY <2>3, <2>4, LeftSame
  <2>6. LeftApart'
    BY <2>1, <2>3 DEF LeftApart, At, CopiesInv
  <2>7. \A q \in Pullers : Running(q)' => Running(q)
    BY <1>1, <2>3 DEF Running
  <2>8. SharedInv'
    BY <1>1, <2>7, SharedStep DEF CopiesInv
  <2> QED BY <1>1, <2>5, <2>6, <2>8, CopiesFrame
<1>3. CASE Unlock(p) \/ Stop(p)
  <2>1. pull'[p].stage \in {"idle", "done"} /\ \A q \in Pullers : q # p => pull'[q] = pull[q]
    BY <1>1, <1>3 DEF PullTypeOK, Unlock, Stop, Resting
  <2>2. LeftOf(p)' = {}
    BY <2>1 DEF LeftOf, At
  <2>3. \A q \in Pullers : LeftOf(q)' \subseteq LeftOf(q)
    BY <2>1, <2>2, LeftSame
  <2>4. LeftApart'
    BY <2>1 DEF LeftApart, At, CopiesInv
  <2>5. \A q \in Pullers : Running(q)' => Running(q)
    BY <1>1, <2>1 DEF Running
  <2>6. SharedInv'
    BY <1>1, <2>5, SharedStep DEF CopiesInv
  <2> QED BY <1>1, <2>3, <2>4, <2>6, CopiesFrame
<1> QED BY <1>2, <1>3

LEMMA RemoteCopies ==
  ASSUME ImportInv, CopiesInv, RemoteInput, UNCHANGED <<dirVars, exposed>>
  PROVE  CopiesInv'
<1>1. PICK t \in RemoteThreads : Post(t) \/ \E i \in DOMAIN remote[t] : Edit(t, i) \/ Delete(t, i)
  BY DEF RemoteInput
<1>2. /\ shared' = shared
      /\ \A p \in Pullers : /\ pull'[p].stage = pull[p].stage /\ LeftOf(p)' = LeftOf(p)
                            /\ At(p, "lock") \/ At(p, "write") => pull'[p].left = pull[p].left
  BY <1>1, RemoteOf DEF ImportInv, ImportTypeOK
<1>3. LeftApart'
  BY <1>2 DEF LeftApart, At, CopiesInv
<1>4. SharedInv'
  BY <1>2 DEF SharedInv, Running, CopiesInv
<1> QED BY <1>2, <1>3, <1>4, CopiesFrame DEF dirVars, directory

(* What is still to be written is of other remote threads. *)
LEMMA OthersLeft ==
  ASSUME ImportInv, CopiesInv, NEW p \in Pullers, Write(p)
  PROVE  /\ LeftApart'
         /\ \A entry \in LeftOf(p)' : /\ entry \in LeftOf(p)
                                      /\ entry.thread.remote # Head(pull[p].left).thread.remote
<1>1. /\ pull[p] \in Writing /\ pull[p].left # <<>> /\ pull[p].stage = "write"
      /\ pull'[p] \in Writing /\ pull'[p].stage = "write"
      /\ pull' = [pull EXCEPT ![p].left = Tail(@), ![p].number = pull'[p].number]
  <2>1. PICK entry \in LeftOf(p) :
          /\ pull[p] \in Writing /\ lock = p /\ pull[p].left # <<>>
          /\ pull' = [pull EXCEPT ![p].left = Tail(@),
                                  ![p].number = IF entry.file = Nobody THEN @ + 1 ELSE @]
          /\ pull'[p] \in Writing /\ pull'[p].stage = "write"
    BY WriteOf
  <2>2. pull'[p].number = IF entry.file = Nobody THEN pull[p].number + 1 ELSE pull[p].number
    BY <2>1 DEF ImportInv, ImportTypeOK, PullTypeOK, Writing
  <2> QED BY <2>1, <2>2 DEF Write, At
<1>2. pull'[p].left = Tail(pull[p].left) /\ \A q \in Pullers : q # p => pull'[q] = pull[q]
  BY <1>1 DEF ImportInv, ImportTypeOK, PullTypeOK, Writing
<1>3. /\ pull[p].left \in Seq(Entries) /\ 1 \in DOMAIN pull[p].left /\ Head(pull[p].left) = pull[p].left[1]
      /\ \A i \in DOMAIN Tail(pull[p].left) :
            /\ i + 1 \in DOMAIN pull[p].left /\ i \in Nat /\ i # 0
            /\ Tail(pull[p].left)[i] = pull[p].left[i + 1]
  BY <1>1 DEF Writing
<1>4. \A i, j \in DOMAIN pull[p].left :
        pull[p].left[i].thread.remote = pull[p].left[j].thread.remote => i = j
  BY <1>1 DEF CopiesInv, LeftApart, At
<1>5. LeftApart'
  <2>1. \A i, j \in DOMAIN pull'[p].left :
          pull'[p].left[i].thread.remote = pull'[p].left[j].thread.remote => i = j
    <3> SUFFICES ASSUME NEW i \in DOMAIN Tail(pull[p].left), NEW j \in DOMAIN Tail(pull[p].left),
                        Tail(pull[p].left)[i].thread.remote = Tail(pull[p].left)[j].thread.remote
                 PROVE  i = j
      BY <1>2
    <3>1. i + 1 = j + 1 /\ i \in Nat /\ j \in Nat
      BY <1>3, <1>4
    <3> QED BY <3>1
  <2> QED BY <1>2, <2>1 DEF LeftApart, At, CopiesInv
<1>6. ASSUME NEW entry \in LeftOf(p)'
      PROVE  /\ entry \in LeftOf(p)
             /\ entry.thread.remote # Head(pull[p].left).thread.remote
  <2>1. PICK i \in DOMAIN Tail(pull[p].left) : entry = Tail(pull[p].left)[i]
    BY <1>1, <1>2, <1>6 DEF LeftOf, At
  <2>2. i + 1 \in DOMAIN pull[p].left /\ i + 1 # 1 /\ entry = pull[p].left[i + 1]
    BY <1>3, <2>1
  <2>3. entry \in LeftOf(p)
    BY <1>1, <2>2 DEF LeftOf, At
  <2>4. entry.thread.remote # pull[p].left[1].thread.remote
    BY <1>3, <1>4, <2>2
  <2> QED BY <1>3, <2>3, <2>4
<1> QED BY <1>5, <1>6

LEMMA WriteCopies ==
  ASSUME ImportInv, CopiesInv, NEW p \in Pullers, Write(p), UNCHANGED exposed
  PROVE  CopiesInv'
<1>1. PICK entry \in LeftOf(p), file \in Numbered \cup {NewFile} :
        /\ pull[p] \in Writing /\ lock = p /\ entry = Head(pull[p].left)
        /\ entry.file = Nobody => file = NewFile
        /\ entry.file # Nobody => file = entry.file
        /\ DOMAIN threads' = DOMAIN threads \cup {file}
        /\ threads'[file].comments = entry.thread.comments
        /\ \A f \in DOMAIN threads : f # file => threads'[f] = threads[f]
        /\ pull' = [pull EXCEPT ![p].left = Tail(@),
                                ![p].number = IF entry.file = Nobody THEN @ + 1 ELSE @]
        /\ pull'[p].stage = "write"
  BY WriteOf
<1>2. DirTypeOK /\ PullTypeOK /\ shared' = shared
  BY DEF ImportInv, ImportTypeOK, Write
<1>3. (\A q \in Pullers : q # p => pull'[q] = pull[q]) /\ Running(p)
  BY <1>1, <1>2 DEF PullTypeOK, Write, At, Running
<1>4. /\ LeftApart'
      /\ \A e \in LeftOf(p)' : e \in LeftOf(p) /\ e.thread.remote # entry.thread.remote
  BY <1>1, OthersLeft
<1>5. SharedInv'
  <2>1. \A q \in Pullers : Running(q)' => Running(q)
    BY <1>3 DEF Running
  <2> QED BY <1>2, <2>1, SharedStep DEF CopiesInv
<1>6. NewFile \notin Numbered /\ NewFile # Nobody /\ Nobody \notin Numbered
  BY <1>2, NewFileOf, SharedAssumption
<1>7. \A q \in Pullers : LeftOf(q)' \subseteq LeftOf(q)
  BY <1>3, <1>4, LeftSame
<1>8. ASSUME NEW q \in Pullers, NEW e \in LeftOf(q)', e.file \in DOMAIN threads'
      PROVE  /\ Covers(e.thread, threads[e.file])'
             /\ CoveredBy(e.thread, threads[e.file])'
  <2>1. e \in LeftOf(q)
    BY <1>7, <1>8
  <2>2. CASE e.file # file
    <3>1. threads'[e.file] = threads[e.file]
      BY <1>1, <1>8, <2>2
    <3>2. /\ Covers(e.thread, threads[e.file])
          /\ CoveredBy(e.thread, threads[e.file])
      BY <1>1, <1>8, <2>1, <2>2 DEF CopiesInv
    <3> QED BY <1>2, <3>1, <3>2 DEF Covers, CoveredBy, NamesIn
  <2>3. CASE e.file = file
    <3>1. e.file # Nobody
      BY <1>6, <2>3
    <3>2. e.file \in Numbered
      BY <2>1, <3>1 DEF ImportInv, NumberInv, CopyOf
    <3>3. entry.file = e.file
      BY <1>1, <1>6, <2>3, <3>2
    <3>4. Covers(e.thread, entry.thread) /\ Covers(entry.thread, e.thread)
      BY <2>1, <3>1, <3>3 DEF CopiesInv
    <3>5. NamesIn(threads'[e.file]) = NamesIn(entry.thread)
      BY <1>1, <2>3 DEF NamesIn
    <3> QED BY <1>2, <3>4, <3>5 DEF Covers, CoveredBy, NamesIn
  <2> QED BY <2>2, <2>3
<1>9. ASSUME NEW q \in Pullers, NEW r \in Pullers, NEW e \in LeftOf(q)', NEW other \in LeftOf(r)',
             e.file = other.file, e.file # Nobody
      PROVE  Covers(e.thread, other.thread)'
  <2>1. Covers(e.thread, other.thread)
    BY <1>7, <1>9 DEF CopiesInv
  <2> QED BY <1>2, <2>1 DEF Covers, NamesIn
<1> QED BY <1>4, <1>5, <1>8, <1>9 DEF CopiesInv

LEMMA OtherCopies ==
  ASSUME ImportInv, CopiesInv, OtherCommand
  PROVE  CopiesInv'
<1>1. DirTypeOK /\ PullTypeOK /\ inputs \in Nat
  BY DEF ImportInv, ImportTypeOK
<1>2. CASE Create /\ UNCHANGED pullVars
  <2>1. /\ DOMAIN threads' = DOMAIN threads \cup {NewFile}
        /\ \A f \in DOMAIN threads : f # NewFile => threads'[f] = threads[f]
    BY <1>1, <1>2, CreateOf
  <2>2. NewFile \notin Numbered \cup {Nobody}
    BY <1>1, NewFileOf, SharedAssumption
  <2> QED BY <1>2, <2>1, <2>2, CopiesElsewhere DEF Create
<1>3. CASE AddComment(UNION {Copied(p) : p \in Pullers}) /\ UNCHANGED pullVars
  <2> DEFINE copied == UNION {Copied(p) : p \in Pullers}
  <2>1. PICK f \in DOMAIN threads :
          /\ DOMAIN threads' = DOMAIN threads
          /\ threads'[f].comments = threads[f].comments \cup {Comment(Local)}
          /\ \A g \in DOMAIN threads : g # f => threads'[g] = threads[g]
          /\ exposed' = IF f \in copied THEN exposed \cup {Local} ELSE exposed
    <3> HIDE DEF copied
    <3> QED BY <1>1, <1>3, AddCommentOf DEF copied
  <2>2. NamesIn(threads'[f]) = NamesIn(threads[f]) \cup {Local}
    <3>1. Comment(Local).of = Local
      BY DEF Comment
    <3> QED BY <2>1, <3>1 DEF NamesIn
  <2>3. pull' = pull /\ shared' = shared /\ exposed \subseteq exposed'
    BY <1>3, <2>1 DEF pullVars
  <2>4. SharedInv' /\ LeftApart' /\ \A p \in Pullers : LeftOf(p)' = LeftOf(p)
    BY <2>3, LeftSame DEF CopiesInv, SharedInv, LeftApart, Running, At
  <2>5. ASSUME NEW p \in Pullers, NEW entry \in LeftOf(p)', entry.file \in DOMAIN threads'
        PROVE  /\ Covers(entry.thread, threads[entry.file])'
               /\ CoveredBy(entry.thread, threads[entry.file])'
    <3>1. entry \in LeftOf(p) /\ entry.file \in DOMAIN threads
      BY <2>1, <2>4, <2>5
    <3>2. /\ Covers(entry.thread, threads[entry.file])
          /\ CoveredBy(entry.thread, threads[entry.file])
      BY <3>1 DEF CopiesInv
    <3>3. CASE entry.file # f
      <4>1. threads'[entry.file] = threads[entry.file]
        BY <2>1, <3>1, <3>3
      <4> QED BY <2>3, <3>2, <4>1 DEF Covers, CoveredBy, NamesIn
    <3>4. CASE entry.file = f
      <4>1. f \in Copied(p)
        BY <3>1, <3>4 DEF LeftOf, Copied, At
      <4>2. exposed' = exposed \cup {Local}
        BY <2>1, <4>1
      <4>3. NamesIn(threads'[entry.file]) = NamesIn(threads[entry.file]) \cup {Local}
        BY <2>2, <3>4
      <4>4. Covers(entry.thread, threads[entry.file])'
        BY <2>3, <3>2, <4>2, <4>3 DEF Covers, NamesIn
      <4>5. CoveredBy(entry.thread, threads[entry.file])'
        BY <2>3, <3>2, <4>2, <4>3 DEF CoveredBy, NamesIn
      <4> QED BY <4>4, <4>5
    <3> QED BY <3>3, <3>4
  <2>6. ASSUME NEW p \in Pullers, NEW q \in Pullers, NEW entry \in LeftOf(p)', NEW other \in LeftOf(q)',
               entry.file = other.file, entry.file # Nobody
        PROVE  Covers(entry.thread, other.thread)'
    <3>1. Covers(entry.thread, other.thread)
      BY <2>4, <2>6 DEF CopiesInv
    <3> QED BY <2>3, <3>1 DEF Covers, NamesIn
  <2> QED BY <2>4, <2>5, <2>6 DEF CopiesInv
<1>4. ASSUME NEW f \in DOMAIN threads, RemoveThread(f), Forget(f) PROVE CopiesInv'
  <2>1. /\ \A g \in DOMAIN threads' : g \in DOMAIN threads /\ threads'[g] = threads[g]
        /\ exposed' = exposed
    BY <1>1, <1>4, RemoveThreadOf
  <2>2. /\ shared' = shared
        /\ \A p \in Pullers : /\ pull'[p].stage = pull[p].stage /\ LeftOf(p)' = LeftOf(p)
                              /\ At(p, "lock") \/ At(p, "write") => pull'[p].left = pull[p].left
    BY <1>1, <1>4, ForgetOf
  <2>3. LeftApart'
    BY <2>2 DEF LeftApart, At, CopiesInv
  <2>4. SharedInv'
    BY <2>2 DEF SharedInv, Running, CopiesInv
  <2> QED BY <2>1, <2>2, <2>3, <2>4, CopiesFrame
<1> QED BY <1>2, <1>3, <1>4 DEF OtherCommand

LEMMA OnlyWriteGroup ==
  ASSUME ExtractNext
  PROVE  \/ threads' = threads /\ exposed \subseteq exposed'
         \/ WriteGroup /\ UNCHANGED <<inputs, exposed>>
<1>1. ASSUME NEW f \in Sources, NEW kind, NEW name, Type(f, kind, name)
      PROVE  threads' = threads /\ exposed \subseteq exposed'
  BY <1>1 DEF Type, dirVars, directory
<1>2. Begin \/ Abort => threads' = threads /\ exposed \subseteq exposed'
  BY DEF Begin, Abort, dirVars, directory
<1>3. Group \/ LockDir \/ UnlockDir \/ Finish => threads' = threads
  BY DEF Group, LockDir, UnlockDir, Finish, dirVars, directory
<1>4. \A f \in Sources : ReadFile(f) \/ DeleteFile(f) => threads' = threads
  BY DEF ReadFile, DeleteFile, dirVars, directory
<1> QED BY <1>1, <1>2, <1>3, <1>4 DEF ExtractNext

LEMMA ExtractCopies ==
  ASSUME ImportInv, CopiesInv, ExtractNext, UNCHANGED pullVars
  PROVE  CopiesInv'
<1>1. CASE WriteGroup /\ UNCHANGED <<inputs, exposed>>
  <2>1. PICK file \in Groups \cup {NewFile} :
          /\ DOMAIN threads' = DOMAIN threads \cup {file}
          /\ \A f \in DOMAIN threads : f # file => threads'[f] = threads[f]
    BY <1>1, WriteGroupOf
  <2>2. file \notin Numbered \cup {Nobody}
    BY NewFileOf, SharedAssumption DEF ImportInv, ImportTypeOK
  <2> QED BY <1>1, <2>1, <2>2, CopiesElsewhere
<1>2. CASE threads' = threads /\ exposed \subseteq exposed'
  <2>1. pull' = pull /\ shared' = shared
    BY DEF pullVars
  <2>2. SharedInv' /\ LeftApart' /\ \A p \in Pullers : LeftOf(p)' = LeftOf(p)
    BY <2>1, LeftSame DEF CopiesInv, SharedInv, LeftApart, Running, At
  <2> QED BY <1>2, <2>1, <2>2, CopiesFrame
<1> QED BY <1>1, <1>2, OnlyWriteGroup

LEMMA InitCopies == ASSUME Init PROVE CopiesInv
<1>1. \A p \in Pullers : pull[p] = Resting
  BY DEF Init, PullInit
<1> QED BY <1>1 DEF CopiesInv, SharedInv, LeftApart, LeftOf, At, Running, Resting

LEMMA NextCopies == ASSUME ImportInv, CopiesInv, [Next]_allVars PROVE CopiesInv'
<1>1. CASE PullNext
  <2>1. CASE RemoteInput /\ UNCHANGED <<dirVars, exposed>>
    BY <2>1, RemoteCopies
  <2>2. ASSUME NEW p \in Pullers, Start(p) \/ Fetch(p), UNCHANGED <<dirVars, exposed>> PROVE CopiesInv'
    BY <2>2, FetchCopies
  <2>3. ASSUME NEW p \in Pullers, Index(p) \/ Write(p), UNCHANGED exposed PROVE CopiesInv'
    BY <2>3, IndexCopies, WriteCopies
  <2>4. ASSUME NEW p \in Pullers, Lock(p) \/ Unlock(p) \/ Stop(p), UNCHANGED exposed PROVE CopiesInv'
    BY <2>4, LockCopies
  <2> QED BY <1>1, <2>1, <2>2, <2>3, <2>4 DEF PullNext
<1>2. CASE UNCHANGED allVars
  <2>1. threads' = threads /\ exposed' = exposed /\ pull' = pull /\ shared' = shared
    BY <1>2 DEF allVars, dirVars, directory, pullVars
  <2>2. SharedInv' /\ LeftApart' /\ \A p \in Pullers : LeftOf(p)' = LeftOf(p)
    BY <2>1, LeftSame DEF CopiesInv, SharedInv, LeftApart, Running, At
  <2> QED BY <2>1, <2>2, CopiesFrame
<1> QED BY <1>1, <1>2, ExtractCopies, OtherCopies DEF Next

LEMMA CopiesInvariance == Spec => [](ImportInv /\ CopiesInv)
<1>1. Init => ImportInv /\ CopiesInv
  BY InitImport, InitCopies
<1>2. ImportInv /\ CopiesInv /\ [Next]_allVars => (ImportInv /\ CopiesInv)'
  BY NextImport, NextCopies
<1> QED BY <1>1, <1>2, PTL DEF Spec

KeptBy(f, c) ==
    \/ f \in DOMAIN threads' /\ c.of \in NamesIn(threads'[f])
    \/ f \notin DOMAIN threads' /\ c.of \in removed'
    \/ c.of \in exposed
    \/ shared /\ c.of[1] = "remote"

(* Whatever writes over a numbered thread had read all that is in it.      *)
LEMMA StepKeeps ==
  ASSUME ImportInv, CopiesInv, Next, NEW f \in DOMAIN threads \ Groups, NEW c \in threads[f].comments
  PROVE  KeptBy(f, c)
<1>1. DirTypeOK /\ inputs \in Nat /\ f \in Numbered /\ NewFile \notin DOMAIN threads /\ f # Nobody
  BY NewFileOf DEF ImportInv, ImportTypeOK, DirTypeOK
<1>2. CASE f \in DOMAIN threads' /\ threads[f].comments \subseteq threads'[f].comments
  BY <1>2 DEF KeptBy, NamesIn
<1>3. ASSUME NEW p \in Pullers, Write(p) PROVE KeptBy(f, c)
  <2>1. PICK entry \in LeftOf(p), file \in Numbered \cup {NewFile} :
          /\ entry.file = Nobody => file = NewFile
          /\ entry.file # Nobody => file = entry.file
          /\ DOMAIN threads' = DOMAIN threads \cup {file}
          /\ threads'[file].comments = entry.thread.comments
          /\ \A g \in DOMAIN threads : g # file => threads'[g] = threads[g]
    BY ZenonT(60), <1>3, WriteOf
  <2>2. CASE f # file
    BY <1>2, <2>1, <2>2
  <2>3. CASE f = file
    <3>1. entry.file = f /\ entry.file # Nobody
      BY <1>1, <2>1, <2>3
    <3>2. Covers(entry.thread, threads[f])
      BY <3>1 DEF CopiesInv
    <3>3. \/ c.of \in NamesIn(entry.thread) \cup exposed
          \/ shared /\ c.of \in RemoteNames
      BY <3>1, <3>2 DEF Covers, NamesIn
    <3>4. c.of \in RemoteNames => c.of[1] = "remote"
      BY DEF RemoteNames
    <3> QED BY <2>1, <2>3, <3>3, <3>4 DEF KeptBy, NamesIn
  <2> QED BY <2>2, <2>3
<1>4. CASE PullNext
  <2>1. \A p \in Pullers : Stop(p) \/ Index(p) \/ Lock(p) \/ Unlock(p) => threads' = threads
    BY DEF Stop, Index, Lock, Unlock, dirVars, directory
  <2>2. threads' = threads => KeptBy(f, c)
    BY <1>2
  <2> QED BY <1>3, <1>4, <2>1, <2>2 DEF PullNext, dirVars, directory
<1>5. CASE ExtractNext
  <2>1. CASE WriteGroup
    <3>1. PICK file \in Groups \cup {NewFile} :
            /\ DOMAIN threads' = DOMAIN threads \cup {file}
            /\ \A g \in DOMAIN threads : g # file => threads'[g] = threads[g]
      BY <2>1, WriteGroupOf
    <3> QED BY <1>1, <1>2, <3>1
  <2>2. CASE threads' = threads
    BY <1>2, <2>2
  <2> QED BY <1>5, <2>1, <2>2, OnlyWriteGroup
<1>6. CASE OtherCommand
  <2>1. CASE Create
    BY <1>1, <1>2, <2>1, CreateOf
  <2>2. CASE AddComment(UNION {Copied(p) : p \in Pullers})
    <3>1. PICK g \in DOMAIN threads :
            /\ DOMAIN threads' = DOMAIN threads
            /\ threads'[g].comments = threads[g].comments \cup {Comment(Local)}
            /\ \A h \in DOMAIN threads : h # g => threads'[h] = threads[h]
      BY <1>1, <2>2, AddCommentOf
    <3> QED BY <1>2, <3>1
  <2>3. ASSUME NEW g \in DOMAIN threads, RemoveThread(g) PROVE KeptBy(f, c)
    <3>1. /\ DOMAIN threads' = DOMAIN threads \ {g} /\ removed' = removed \cup NamesIn(threads[g])
          /\ \A h \in DOMAIN threads' : threads'[h] = threads[h]
      BY <1>1, <2>3, RemoveThreadOf
    <3>2. CASE f = g
      BY <3>1, <3>2 DEF KeptBy, NamesIn
    <3>3. CASE f # g
      BY <1>2, <3>1, <3>3
    <3> QED BY <3>2, <3>3
  <2> QED BY <1>6, <2>1, <2>2, <2>3 DEF OtherCommand
<1> QED BY <1>4, <1>5, <1>6 DEF Next

(* No step of a pull, an extraction or another command takes a comment     *)
(* from a numbered thread, except those of a thread that a user removes,   *)
(* what was typed into it while a pull held a copy of it, or what one of   *)
(* two pulls brought that were under way at once (buildMatchIndex before   *)
(* LockDir, mergeThread, writeThreads).                                    *)
THEOREM CommentsStayed == Spec => CommentsKept
<1>1. ImportInv /\ CopiesInv /\ [Next]_allVars =>
        [\A f \in DOMAIN threads \ Groups : \A c \in threads[f].comments :
            \/ f \in DOMAIN threads' /\ c.of \in NamesIn(threads'[f])
            \/ f \notin DOMAIN threads' /\ c.of \in removed'
            \/ c.of \in exposed
            \/ shared /\ c.of[1] = "remote"]_threads
  <2>1. CASE UNCHANGED allVars
    BY <2>1 DEF allVars, dirVars, directory
  <2> QED BY <2>1, StepKeeps DEF KeptBy
<1> QED BY <1>1, CopiesInvariance, PTL DEF Spec, CommentsKept

-----------------------------------------------------------------------------
(* What was typed is not lost.                                             *)

LEMMA PullThreads ==
  ASSUME PullNext
  PROVE  threads' = threads \/ \E p \in Pullers : Write(p)
<1>1. \A p \in Pullers : Stop(p) \/ Index(p) \/ Lock(p) \/ Unlock(p) => threads' = threads
  BY DEF Stop, Index, Lock, Unlock, dirVars, directory
<1> QED BY <1>1 DEF PullNext, dirVars, directory

LEMMA HistoryGrows ==
  ASSUME inputs \in Nat, [Next]_allVars
  PROVE  /\ exposed \subseteq exposed' /\ replaced \subseteq replaced' /\ removed \subseteq removed'
         /\ inputs' \in Nat /\ inputs <= inputs'
<1>1. inputs' \in Nat /\ inputs <= inputs'
  BY DEF Next, PullNext, ExtractNext, OtherCommand, Input, allVars
<1>2. CASE PullNext /\ UNCHANGED extractVars
  <2>1. \A p \in Pullers : Stop(p) \/ Index(p) \/ Lock(p) \/ Write(p) \/ Unlock(p) => removed' = removed
    BY DEF Stop, Index, Lock, Write, Unlock, dirVars, directory
  <2>2. removed' = removed
    BY <1>2, <2>1 DEF PullNext, dirVars, directory
  <2> QED BY <1>1, <1>2, <2>2 DEF PullNext, extractVars
<1>3. CASE ExtractNext
  <2>1. exposed \subseteq exposed'
    BY <1>3, OnlyWriteGroup
  <2>2. \A f \in Sources : \A kind, name : Type(f, kind, name) => replaced' = replaced /\ removed' = removed
    BY DEF Type, dirVars, directory
  <2>3. Begin \/ Abort \/ Group \/ LockDir \/ UnlockDir \/ Finish =>
          replaced' = replaced /\ removed' = removed
    BY DEF Begin, Abort, Group, LockDir, UnlockDir, Finish, dirVars, directory
  <2>4. \A f \in Sources : ReadFile(f) \/ DeleteFile(f) => replaced' = replaced /\ removed' = removed
    BY DEF ReadFile, DeleteFile, dirVars, directory
  <2>5. WriteGroup => replaced \subseteq replaced' /\ removed' = removed
    BY DEF WriteGroup
  <2> QED BY <1>1, <1>3, <2>1, <2>2, <2>3, <2>4, <2>5 DEF ExtractNext
<1>4. CASE OtherCommand
  BY <1>1, <1>4 DEF OtherCommand, Create, AddComment, RemoveThread, extractVars
<1>5. CASE UNCHANGED allVars
  BY <1>1, <1>5 DEF allVars, extractVars, dirVars, directory
<1> QED BY <1>2, <1>3, <1>4, <1>5 DEF Next

(* Only the same group takes a comment from a group's thread. *)
LEMMA GroupKeeps ==
  ASSUME ImportInv, Next, NEW f \in DOMAIN threads \cap Groups, NEW of \in NamesIn(threads[f])
  PROVE  InThreads(of)' \/ of \in replaced' \/ of \in removed'
<1>1. DirTypeOK /\ inputs \in Nat /\ NewFile \notin Groups /\ f \notin Numbered
  BY NewFileOf DEF ImportInv, ImportTypeOK
<1>2. ASSUME f \in DOMAIN threads', threads[f].comments \subseteq threads'[f].comments
      PROVE  InThreads(of)'
  BY <1>2 DEF InThreads, NamesIn
<1>3. ASSUME NEW p \in Pullers, Write(p) PROVE InThreads(of)'
  <2>1. PICK file \in Numbered \cup {NewFile} :
          /\ DOMAIN threads' = DOMAIN threads \cup {file}
          /\ \A g \in DOMAIN threads : g # file => threads'[g] = threads[g]
    BY <1>3, WriteOf
  <2> QED BY <1>1, <1>2, <2>1
<1>4. CASE WriteGroup
  <2>1. PICK group \in GroupRecords, file \in Groups \cup {NewFile} :
          /\ DOMAIN threads' = DOMAIN threads \cup {file}
          /\ threads'[file].comments = {Comment(x) : x \in group.entries}
          /\ \A g \in DOMAIN threads : g # file => threads'[g] = threads[g]
          /\ replaced' = replaced \cup ((IF file \in DOMAIN threads THEN NamesIn(threads[file]) ELSE {})
                                             \ group.entries)
    BY <1>4, WriteGroupOf
  <2>2. CASE f # file
    BY <1>2, <2>1, <2>2
  <2>3. CASE f = file /\ of \notin group.entries
    BY <2>1, <2>3
  <2>4. CASE f = file /\ of \in group.entries
    <3>1. Comment(of) \in threads'[f].comments /\ Comment(of).of = of
      BY <2>1, <2>4 DEF Comment
    <3> QED BY <2>1, <2>4, <3>1 DEF InThreads, NamesIn
  <2> QED BY <2>2, <2>3, <2>4
<1>5. CASE threads' = threads
  BY <1>2, <1>5
<1>6. CASE OtherCommand
  <2>1. CASE Create
    BY <1>1, <1>2, <2>1, CreateOf
  <2>2. CASE AddComment(UNION {Copied(p) : p \in Pullers})
    <3>1. PICK g \in DOMAIN threads :
            /\ DOMAIN threads' = DOMAIN threads
            /\ threads'[g].comments = threads[g].comments \cup {Comment(Local)}
            /\ \A h \in DOMAIN threads : h # g => threads'[h] = threads[h]
      BY <1>1, <2>2, AddCommentOf
    <3> QED BY <1>2, <3>1
  <2>3. ASSUME NEW g \in DOMAIN threads, RemoveThread(g) PROVE InThreads(of)' \/ of \in removed'
    <3>1. /\ DOMAIN threads' = DOMAIN threads \ {g} /\ removed' = removed \cup NamesIn(threads[g])
          /\ \A h \in DOMAIN threads' : threads'[h] = threads[h]
      BY <1>1, <2>3, RemoveThreadOf
    <3> QED BY <1>2, <3>1
  <2> QED BY <1>6, <2>1, <2>2, <2>3 DEF OtherCommand
<1> QED BY <1>3, <1>4, <1>5, <1>6, PullThreads, OnlyWriteGroup DEF Next

(* A comment that was typed, and is in a thread or accounted for, stays so. *)
LEMMA SafeKept ==
  ASSUME ImportInv, CopiesInv, [Next]_allVars, NEW of \in LocalNames, Safe(of)
  PROVE  Safe(of)'
<1>1. exposed \subseteq exposed' /\ replaced \subseteq replaced' /\ removed \subseteq removed'
  BY HistoryGrows DEF ImportInv, ImportTypeOK
<1>2. CASE of \in exposed \cup replaced \cup removed
  BY <1>1, <1>2 DEF Safe
<1>3. CASE InThreads(of)
  <2>1. PICK f \in DOMAIN threads : of \in NamesIn(threads[f])
    BY <1>3 DEF InThreads
  <2>2. PICK c \in threads[f].comments : c.of = of
    BY <2>1 DEF NamesIn
  <2>3. CASE UNCHANGED allVars
    <3>1. threads' = threads
      BY <2>3 DEF allVars, dirVars, directory
    <3> QED BY <2>1, <3>1 DEF Safe, InThreads
  <2>4. CASE Next /\ f \in Groups
    BY <2>1, <2>4, GroupKeeps DEF Safe
  <2>5. CASE Next /\ f \notin Groups
    <3>1. KeptBy(f, c)
      BY <2>2, <2>5, StepKeeps
    <3>2. of[1] # "remote"
      BY DEF LocalNames
    <3> QED BY <1>1, <2>2, <3>1, <3>2 DEF KeptBy, Safe, InThreads, NamesIn
  <2> QED BY <2>3, <2>4, <2>5
<1> QED BY <1>2, <1>3 DEF Safe

LEMMA LostOrSafe ==
  NothingLost <=> \A item \in typed : \/ InSources(item.of)
                                      \/ item.kind = "comment" /\ InThreads(item.of)
                                      \/ item.kind = "reference"
                                      \/ item.of \in exposed \cup replaced \cup removed
BY DEF NothingLost, InThreads, NamesIn, AllComments

(* A step that leaves the sources and the extraction as they are. *)
LEMMA LossFrame ==
  ASSUME ImportInv, CopiesInv, LossInv, [Next]_allVars, UNCHANGED extractVars
  PROVE  LossInv'
<1>1. /\ source' = source /\ run' = run /\ typed' = typed /\ replaced' = replaced
      /\ exposed \subseteq exposed' /\ removed \subseteq removed'
      /\ inputs \in Nat /\ inputs' \in Nat /\ inputs <= inputs'
  BY HistoryGrows DEF extractVars, ImportInv, ImportTypeOK
<1>2. \A item \in typed : item.of \in LocalNames
  BY DEF ImportInv, ImportTypeOK, RunTypeOK, Items
<1>3. TypedInv'
  <2>1. \A item \in typed : item.of[2] \in Nat
    BY <1>2 DEF LocalNames
  <2> QED BY <1>1, <2>1 DEF LossInv, TypedInv
<1>4. Stale' = Stale /\ ToWrite' = ToWrite /\ Grouped' = Grouped
  BY <1>1 DEF Stale, HasReviewComments, ToWrite, Grouped, InStage
<1>5. \A item \in typed : Safe(item.of) => Safe(item.of)'
  BY <1>2, SafeKept
<1>6. \A f \in Stale' : \A item \in source'[f] \ run'.contents[f] : item.of \in exposed'
  BY <1>1, <1>4 DEF LossInv
<1>7. ASSUME Grouped', NEW f \in Sources, NEW item \in run'.contents[f], item.kind = "comment"
      PROVE  Safe(item.of)' \/ item.of \in ToWrite'
  <2>1. run \in Extraction
    BY <1>4, <1>7, RunShape DEF Grouped, InStage, ImportInv, ImportTypeOK
  <2>2. item \in typed
    BY <1>1, <1>7, <2>1 DEF Extraction
  <2> QED BY <1>1, <1>4, <1>5, <1>7, <2>2 DEF LossInv
<1>8. InStage({"delete"})' => run'.left = <<>>
  BY <1>1 DEF LossInv, InStage
<1>9. NothingLost'
  <2>1. \A of : InSources(of)' = InSources(of)
    BY <1>1 DEF InSources
  <2>2. ASSUME NEW item \in typed
        PROVE  \/ InSources(item.of)'
               \/ item.kind = "comment" /\ InThreads(item.of)'
               \/ item.kind = "reference"
               \/ item.of \in exposed' \cup replaced' \cup removed'
    BY <1>1, <1>5, <2>1, LostOrSafe DEF LossInv, Safe
  <2> QED BY <1>1, <2>2 DEF NothingLost, InThreads, NamesIn, AllComments
<1> QED BY <1>3, <1>6, <1>7, <1>8, <1>9 DEF LossInv

StaleExposed == \A f \in Stale : \A item \in source[f] \ run.contents[f] : item.of \in exposed

GroupedSafe ==
    Grouped => \A f \in Sources : \A item \in run.contents[f] :
        item.kind = "comment" => Safe(item.of) \/ item.of \in ToWrite

(* A step of an extraction that leaves the sources as they are. *)
LEMMA LossRun ==
  ASSUME ImportInv, CopiesInv, LossInv, Next, typed' = typed, source' = source,
         StaleExposed', GroupedSafe', InStage({"delete"})' => run'.left = <<>>
  PROVE  LossInv'
<1>1. /\ exposed \subseteq exposed' /\ replaced \subseteq replaced' /\ removed \subseteq removed'
      /\ inputs \in Nat /\ inputs' \in Nat /\ inputs <= inputs'
  BY HistoryGrows DEF ImportInv, ImportTypeOK
<1>2. \A item \in typed : item.of \in LocalNames
  BY DEF ImportInv, ImportTypeOK, RunTypeOK, Items
<1>3. TypedInv'
  <2>1. \A item \in typed : item.of[2] \in Nat
    BY <1>2 DEF LocalNames
  <2> QED BY <1>1, <2>1 DEF LossInv, TypedInv
<1>4. \A item \in typed : Safe(item.of) => Safe(item.of)'
  BY <1>2, SafeKept
<1>5. NothingLost'
  <2>1. \A of : InSources(of)' = InSources(of)
    BY DEF InSources
  <2>2. ASSUME NEW item \in typed
        PROVE  \/ InSources(item.of)'
               \/ item.kind = "comment" /\ InThreads(item.of)'
               \/ item.kind = "reference"
               \/ item.of \in exposed' \cup replaced' \cup removed'
    BY <1>1, <1>4, <2>1, LostOrSafe DEF LossInv, Safe
  <2> QED BY <2>2 DEF NothingLost, InThreads, NamesIn, AllComments
<1> QED BY <1>3, <1>5 DEF LossInv, StaleExposed, GroupedSafe

LEMMA TypeLoss ==
  ASSUME ImportInv, CopiesInv, LossInv, Next, Input, NEW f \in Sources,
         NEW kind \in {"comment", "reference", "code"}, NEW name \in Groups \cup {NoGroup},
         Type(f, kind, name)
  PROVE  LossInv'
<1>0. PICK new : new = [of |-> Local, kind |-> kind, name |-> name]
  OBVIOUS
<1>1. /\ RunTypeOK /\ inputs \in Nat /\ inputs' = inputs + 1 /\ exposed \subseteq exposed'
      /\ removed' = removed
      /\ replaced' = replaced /\ run' = run
      /\ typed' = typed \cup {new} /\ source' = [source EXCEPT ![f] = @ \cup {new}]
      /\ f \in Stale => Local \in exposed'
  BY <1>0 DEF ImportInv, ImportTypeOK, Input, Type, dirVars, directory
<1>2. new.of = Local /\ Local = <<"local", inputs>>
  BY <1>0 DEF Local
<1>3. \A item \in typed : item.of \in LocalNames
  BY <1>1 DEF RunTypeOK, Items
<1>4. TypedInv'
  <2>1. Local[2] = inputs /\ \A item \in typed : item.of[2] \in Nat /\ item.of[2] < inputs
    BY <1>2, <1>3 DEF LocalNames, LossInv, TypedInv
  <2>2. \A item \in typed' : item.of[2] < inputs'
    BY <1>1, <1>2, <2>1
  <2>3. \A item \in typed : item.of # new.of
    BY <1>1, <1>2, <2>1
  <2>4. \A a, b \in typed : a.of = b.of => a = b
    BY DEF LossInv, TypedInv
  <2> QED BY <1>1, <2>2, <2>3, <2>4 DEF TypedInv
<1>5. Stale' = Stale /\ ToWrite' = ToWrite /\ Grouped' = Grouped /\ Stale \subseteq Sources
  BY <1>1, RunShape DEF Stale, HasReviewComments, ToWrite, Grouped, InStage, Extraction
<1>6. \A item \in typed : Safe(item.of) => Safe(item.of)'
  BY <1>3, SafeKept
<1>7. StaleExposed'
  <2> SUFFICES ASSUME NEW g \in Stale, NEW item \in source'[g] \ run.contents[g]
               PROVE  item.of \in exposed'
    BY <1>1, <1>5 DEF StaleExposed
  <2>1. CASE item \in source[g]
    BY <1>1, <2>1 DEF LossInv
  <2>2. CASE item \notin source[g]
    <3>1. g = f /\ item = new
      BY <1>1, <1>5, <2>2 DEF RunTypeOK
    <3> QED BY <1>1, <1>2, <3>1
  <2> QED BY <2>1, <2>2
<1>8. GroupedSafe'
  <2> SUFFICES ASSUME Grouped, NEW g \in Sources, NEW item \in run.contents[g], item.kind = "comment"
               PROVE  Safe(item.of)' \/ item.of \in ToWrite
    BY <1>1, <1>5 DEF GroupedSafe
  <2>1. item \in typed
    BY <1>1, RunShape DEF Grouped, Extraction
  <2> QED BY <1>6, <2>1 DEF LossInv
<1>9. NothingLost'
  <2>1. \A g \in Sources : source[g] \subseteq source'[g]
    BY <1>1 DEF RunTypeOK
  <2>2. \A item \in typed : InSources(item.of) => InSources(item.of)'
    BY <2>1 DEF InSources
  <2>3. InSources(new.of)'
    <3>1. new \in source'[f]
      BY <1>1 DEF RunTypeOK
    <3>2. new.of \in {item.of : item \in source'[f]}
      BY <3>1
    <3> QED BY <3>2 DEF InSources
  <2>4. ASSUME NEW item \in typed
        PROVE  \/ InSources(item.of)'
               \/ item.kind = "comment" /\ InThreads(item.of)'
               \/ item.kind = "reference"
               \/ item.of \in exposed' \cup replaced' \cup removed'
    BY <1>1, <1>6, <2>2, LostOrSafe DEF LossInv, Safe
  <2>5. \A item \in typed' :
          \/ InSources(item.of)'
          \/ item.kind = "comment" /\ InThreads(item.of)'
          \/ item.kind = "reference"
          \/ item.of \in exposed' \cup replaced' \cup removed'
    BY <1>1, <2>3, <2>4
  <2> QED BY <2>5 DEF NothingLost, InThreads, NamesIn, AllComments
<1>10. InStage({"delete"})' => run'.left = <<>>
  BY <1>1 DEF InStage, LossInv
<1> QED BY <1>4, <1>7, <1>8, <1>9, <1>10 DEF LossInv, StaleExposed, GroupedSafe

LEMMA ReadFileLoss ==
  ASSUME ImportInv, CopiesInv, LossInv, Next, NEW f \in Sources, ReadFile(f)
  PROVE  LossInv'
<1>1. /\ RunTypeOK' /\ InStage({"read"}) /\ InStage({"read"})'
      /\ DOMAIN run'.contents = DOMAIN run.contents \cup {f} /\ run'.contents[f] \in {source[f], {}}
      /\ \A g \in DOMAIN run.contents : run'.contents[g] = run.contents[g]
  BY ReadFileType DEF ImportInv, ImportTypeOK
<1>2. typed' = typed /\ source' = source
  BY DEF ReadFile
<1>3. exposed \subseteq exposed'
  BY HistoryGrows DEF ImportInv, ImportTypeOK
<1>4. StaleExposed'
  <2>1. \A g \in Stale : \A item \in source[g] \ run.contents[g] : item.of \in exposed
    BY DEF LossInv
  <2>2. \A g \in Stale' : g \in Stale \cap DOMAIN run.contents \/ (g = f /\ run'.contents[g] = source[g])
    BY <1>1 DEF Stale, HasReviewComments
  <2> QED BY <1>1, <1>2, <1>3, <2>1, <2>2 DEF StaleExposed
<1>5. GroupedSafe' /\ ~InStage({"delete"})'
  BY <1>1 DEF GroupedSafe, Grouped, InStage
<1> QED BY <1>2, <1>4, <1>5, LossRun

LEMMA GroupLoss ==
  ASSUME ImportInv, CopiesInv, LossInv, Next, Group
  PROVE  LossInv'
<1> DEFINE items == UNION {run.contents[f] : f \in Sources}
<1>1. /\ RunTypeOK' /\ run' \in Extraction /\ run'.stage = "lock"
      /\ InStage({"read"}) /\ DOMAIN run.contents = Sources
      /\ run'.contents = run.contents /\ run'.undone = {f \in Sources : HasReviewComments(f)} /\ items \in SUBSET typed /\ IsFiniteSet(items)
      /\ run'.left = GroupComments(items).names \o GroupComments(items).singles
  BY GroupOf DEF ImportInv, ImportTypeOK, HasReviewComments
<1>2. typed' = typed /\ source' = source /\ typed \subseteq Items
  BY DEF Group, ImportInv, ImportTypeOK, RunTypeOK
<1>3. exposed \subseteq exposed'
  BY HistoryGrows DEF ImportInv, ImportTypeOK
<1>4. StaleExposed'
  <2>1. \A g \in Stale : \A item \in source[g] \ run.contents[g] : item.of \in exposed
    BY DEF LossInv
  <2>2. Stale' \subseteq Stale
    BY <1>1 DEF Stale, InStage
  <2> QED BY <1>1, <1>2, <1>3, <2>1, <2>2 DEF StaleExposed
<1>5. \A item \in CommentsOf(items) : \E i \in DOMAIN run'.left : item.of \in run'.left[i].entries
  <2> HIDE DEF items
  <2>1. items \in SUBSET Items
    BY <1>1, <1>2
  <2> QED BY <1>1, <2>1, GroupCommentsOf
<1>6. GroupedSafe'
  <2>1. \A f \in Sources : \A item \in run'.contents[f] : item.kind = "comment" => item \in CommentsOf(items)
    BY <1>1 DEF CommentsOf
  <2>2. \A item \in CommentsOf(items) : item.of \in ToWrite'
    BY <1>5 DEF ToWrite
  <2> HIDE DEF items
  <2> QED BY <2>1, <2>2 DEF GroupedSafe
<1>7. ~InStage({"delete"})'
  BY <1>1 DEF InStage
<1> QED BY <1>2, <1>4, <1>6, <1>7, LossRun

LEMMA WriteGroupLoss ==
  ASSUME ImportInv, CopiesInv, LossInv, Next, WriteGroup
  PROVE  LossInv'
<1>1. PICK group \in GroupRecords, file \in Groups \cup {NewFile} :
        /\ run \in Extraction /\ run.left # <<>> /\ run.left[1] = group
        /\ InStage({"write"}) /\ InStage({"write"})'
        /\ DOMAIN threads' = DOMAIN threads \cup {file}
        /\ threads'[file].comments = {Comment(of) : of \in group.entries}
        /\ run'.left = Tail(run.left) /\ run'.contents = run.contents /\ run'.undone = run.undone
  BY WriteGroupOf
<1>2. typed' = typed /\ source' = source
  BY DEF WriteGroup
<1>3. exposed \subseteq exposed'
  BY HistoryGrows DEF ImportInv, ImportTypeOK
<1>4. StaleExposed'
  <2>1. Stale' = Stale /\ Stale = run.undone
    BY <1>1 DEF Stale, InStage
  <2> QED BY <1>1, <1>2, <1>3, <2>1 DEF StaleExposed, LossInv
<1>5. GroupedSafe'
  <2> SUFFICES ASSUME NEW f \in Sources, NEW item \in run.contents[f], item.kind = "comment",
                      ~Safe(item.of)'
               PROVE  item.of \in ToWrite'
    BY <1>1 DEF GroupedSafe
  <2>1. item \in typed /\ item.of \in LocalNames
    BY <1>1 DEF Extraction, ImportInv, ImportTypeOK, RunTypeOK, Items
  <2>2. ~Safe(item.of)
    BY <2>1, SafeKept
  <2>3. item.of \in ToWrite
    BY <1>1, <2>2 DEF LossInv, Grouped, InStage
  <2>4. item.of \notin group.entries
    <3>1. SUFFICES ASSUME item.of \in group.entries PROVE InThreads(item.of)'
      BY DEF Safe
    <3>2. Comment(item.of) \in threads'[file].comments /\ Comment(item.of).of = item.of
      BY <1>1, <3>1 DEF Comment
    <3> QED BY <1>1, <3>2 DEF InThreads, NamesIn
  <2>5. PICK i \in DOMAIN run.left : item.of \in run.left[i].entries
    BY <2>3 DEF ToWrite
  <2>6. i # 1 /\ run.left \in Seq(GroupRecords)
    BY <1>1, <2>4, <2>5 DEF Extraction
  <2>7. i - 1 \in DOMAIN Tail(run.left) /\ Tail(run.left)[i - 1] = run.left[i]
    BY <1>1, <2>5, <2>6
  <2> QED BY <1>1, <2>5, <2>7 DEF ToWrite
<1>6. ~InStage({"delete"})'
  BY <1>1 DEF InStage
<1> QED BY <1>2, <1>4, <1>5, <1>6, LossRun

LEMMA LockDirLoss ==
  ASSUME ImportInv, CopiesInv, LossInv, Next, LockDir \/ UnlockDir
  PROVE  LossInv'
<1>1. run \in Extraction /\ InStage({"lock", "write"})
  BY RunShape DEF LockDir, UnlockDir, InStage, ImportInv, ImportTypeOK
<1>2. /\ run'.left = run.left /\ run'.contents = run.contents /\ run'.undone = run.undone
      /\ run'.stage \in {"write", "delete"}
  BY <1>1 DEF LockDir, UnlockDir, Extraction
<1>3. typed' = typed /\ source' = source
  BY DEF LockDir, UnlockDir
<1>4. exposed \subseteq exposed'
  BY HistoryGrows DEF ImportInv, ImportTypeOK
<1>5. StaleExposed'
  <2>1. Stale' = Stale
    BY <1>1, <1>2 DEF Stale, InStage
  <2> QED BY <1>2, <1>3, <1>4, <2>1 DEF StaleExposed, LossInv
<1>6. GroupedSafe'
  <2> SUFFICES ASSUME NEW f \in Sources, NEW item \in run.contents[f], item.kind = "comment"
               PROVE  Safe(item.of)' \/ item.of \in ToWrite'
    BY <1>2 DEF GroupedSafe
  <2>1. item \in typed /\ item.of \in LocalNames
    BY <1>1 DEF Extraction, ImportInv, ImportTypeOK, RunTypeOK, Items
  <2>2. Safe(item.of) \/ item.of \in ToWrite
    BY <1>1 DEF LossInv, Grouped, InStage
  <2>3. ToWrite' = ToWrite
    BY <1>2 DEF ToWrite
  <2> QED BY <2>1, <2>2, <2>3, SafeKept
<1>7. InStage({"delete"})' => run'.left = <<>>
  <2>1. LockDir => run'.stage = "write"
    BY <1>1 DEF LockDir, Extraction
  <2>2. UnlockDir => run.left = <<>>
    BY DEF UnlockDir
  <2> QED BY <1>2, <2>1, <2>2 DEF InStage
<1> QED BY <1>3, <1>5, <1>6, <1>7, LossRun

(* What an extraction deletes from a file is in a thread. *)
LEMMA DeleteFileLoss ==
  ASSUME ImportInv, CopiesInv, LossInv, Next, NEW f \in Sources, DeleteFile(f)
  PROVE  LossInv'
<1>1. /\ RunTypeOK /\ run \in Extraction /\ InStage({"delete"}) /\ f \in run.undone
      /\ run' \in Extraction /\ InStage({"delete"})' /\ run'.undone = run.undone \ {f}
      /\ run'.contents = run.contents /\ run'.left = run.left /\ run.left = <<>>
      /\ source' = [source EXCEPT ![f] = {item \in run.contents[f] : ~IsReviewComment(item)}]
      /\ typed' = typed
  BY DeleteFileOf DEF ImportInv, ImportTypeOK, InStage, LossInv
<1>2. /\ exposed \subseteq exposed' /\ replaced \subseteq replaced' /\ removed \subseteq removed'
      /\ inputs \in Nat /\ inputs' \in Nat /\ inputs <= inputs'
  BY HistoryGrows DEF ImportInv, ImportTypeOK
<1>3. \A item \in typed : item.of \in LocalNames
  BY <1>1 DEF RunTypeOK, Items
<1>4. TypedInv'
  <2>1. \A item \in typed : item.of[2] \in Nat
    BY <1>3 DEF LocalNames
  <2> QED BY <1>1, <1>2, <2>1 DEF LossInv, TypedInv
<1>5. \A item \in typed : Safe(item.of) => Safe(item.of)'
  BY <1>3, SafeKept
<1>6. source[f] \subseteq typed /\ run.contents[f] \subseteq typed
  BY <1>1 DEF RunTypeOK, Extraction
<1>7. \A g \in Sources : g # f => source'[g] = source[g]
  BY <1>1
<1>8. source'[f] = {item \in run.contents[f] : ~IsReviewComment(item)}
  BY <1>1 DEF RunTypeOK
<1>9. Stale = run.undone /\ Stale' = run.undone \ {f} /\ run.undone \subseteq Sources
  BY <1>1 DEF Stale, InStage, Extraction
<1>10. StaleExposed'
  <2> SUFFICES ASSUME NEW g \in run.undone, g # f, NEW item \in source'[g] \ run'.contents[g]
               PROVE  item.of \in exposed'
    BY <1>9 DEF StaleExposed
  <2> QED BY <1>1, <1>2, <1>7, <1>9 DEF LossInv
<1>11. ToWrite = {} /\ Grouped
  BY <1>1 DEF ToWrite, Grouped, InStage
<1>12. GroupedSafe'
  <2> SUFFICES ASSUME NEW g \in Sources, NEW item \in run.contents[g], item.kind = "comment"
               PROVE  Safe(item.of)'
    BY <1>1 DEF GroupedSafe
  <2>1. item \in typed
    BY <1>1 DEF Extraction
  <2> QED BY <1>5, <1>11, <2>1 DEF LossInv
<1>13. ASSUME NEW item \in typed, InSources(item.of), item.kind # "reference"
       PROVE  InSources(item.of)' \/ (item.kind = "comment" /\ Safe(item.of)') \/ item.of \in exposed'
  <2>1. PICK g \in Sources : item.of \in {i.of : i \in source[g]}
    BY <1>13 DEF InSources
  <2>2. PICK i \in source[g] : i.of = item.of
    BY <2>1
  <2>3. i = item
    BY <1>1, <2>2 DEF RunTypeOK, LossInv, TypedInv
  <2>4. CASE g # f
    <3>1. item.of \in {j.of : j \in source'[g]}
      BY <1>7, <2>2, <2>3, <2>4
    <3> QED BY <3>1 DEF InSources
  <2>5. CASE g = f /\ item \notin run.contents[f]
    BY <1>1, <1>2, <1>9, <2>2, <2>3, <2>5 DEF LossInv
  <2>6. CASE g = f /\ item \in run.contents[f] /\ ~IsReviewComment(item)
    <3>1. item \in source'[f]
      BY <1>8, <2>6
    <3>2. item.of \in {j.of : j \in source'[f]}
      BY <3>1
    <3> QED BY <3>2 DEF InSources
  <2>7. CASE g = f /\ item \in run.contents[f] /\ IsReviewComment(item)
    <3>1. item.kind = "comment"
      BY <1>13, <2>7 DEF IsReviewComment
    <3>2. Safe(item.of)
      BY <1>11, <2>7, <3>1 DEF LossInv
    <3> QED BY <1>5, <3>1, <3>2
  <2> QED BY <2>4, <2>5, <2>6, <2>7
<1>14. \A item \in typed : \/ InSources(item.of)'
                           \/ item.kind = "comment" /\ InThreads(item.of)'
                           \/ item.kind = "reference"
                           \/ item.of \in exposed' \cup replaced' \cup removed'
  <2> SUFFICES ASSUME NEW item \in typed, item.kind # "reference"
               PROVE  \/ InSources(item.of)'
                      \/ item.kind = "comment" /\ InThreads(item.of)'
                      \/ item.of \in exposed' \cup replaced' \cup removed'
    OBVIOUS
  <2>1. \/ InSources(item.of)
        \/ item.kind = "comment" /\ InThreads(item.of)
        \/ item.of \in exposed \cup replaced \cup removed
    BY LostOrSafe DEF LossInv
  <2>2. CASE InSources(item.of)
    BY <1>13, <2>2 DEF Safe
  <2>3. CASE item.kind = "comment" /\ InThreads(item.of)
    BY <1>5, <2>3 DEF Safe
  <2>4. CASE item.of \in exposed \cup replaced \cup removed
    BY <1>2, <2>4
  <2> QED BY <2>1, <2>2, <2>3, <2>4
<1>15. NothingLost'
  BY <1>1, <1>14 DEF NothingLost, InThreads, NamesIn, AllComments
<1> QED BY <1>1, <1>4, <1>10, <1>12, <1>15 DEF LossInv, StaleExposed, GroupedSafe

LEMMA EndLoss ==
  ASSUME ImportInv, CopiesInv, LossInv, Next, Begin \/ Abort \/ Finish
  PROVE  LossInv'
<1>1. typed' = typed /\ source' = source
  BY DEF Begin, Abort, Finish
<1>2. Stale' = {} /\ ~Grouped' /\ ~InStage({"delete"})'
  BY DEF Begin, Abort, Finish, NoRun, Stale, Grouped, InStage
<1> QED BY <1>1, <1>2, LossRun DEF StaleExposed, GroupedSafe

LEMMA InitLoss == ASSUME Init PROVE LossInv
<1>1. typed = {} /\ run = NoRun
  BY DEF Init, ExtractInit
<1> QED BY <1>1 DEF LossInv, TypedInv, Stale, Grouped, InStage, NoRun, NothingLost

LEMMA NextLoss == ASSUME ImportInv, CopiesInv, LossInv, [Next]_allVars PROVE LossInv'
<1>1. CASE PullNext /\ UNCHANGED extractVars
  BY <1>1, LossFrame
<1>2. CASE OtherCommand
  BY <1>2, LossFrame DEF OtherCommand
<1>3. CASE UNCHANGED allVars
  BY <1>3, LossFrame DEF allVars
<1>4. CASE ExtractNext /\ Next
  <2>1. CASE Input /\ (Begin \/ Abort)
    BY <1>4, <2>1, EndLoss
  <2>2. ASSUME Input, NEW f \in Sources, NEW kind \in {"comment", "code"}, Type(f, kind, NoGroup)
        PROVE  LossInv'
    BY <1>4, <2>2, TypeLoss
  <2>3. ASSUME Input, NEW f \in Sources, NEW kind \in {"comment", "reference"}, NEW name \in Groups,
               Type(f, kind, name)
        PROVE  LossInv'
    BY <1>4, <2>3, TypeLoss
  <2>4. CASE Group \/ LockDir \/ WriteGroup \/ UnlockDir \/ Finish
    BY <1>4, <2>4, GroupLoss, LockDirLoss, WriteGroupLoss, EndLoss
  <2>5. ASSUME NEW f \in Sources, ReadFile(f) \/ DeleteFile(f) PROVE LossInv'
    BY <1>4, <2>5, ReadFileLoss, DeleteFileLoss
  <2> QED BY <1>4, <2>1, <2>2, <2>3, <2>4, <2>5 DEF ExtractNext
<1> QED BY <1>1, <1>2, <1>3, <1>4 DEF Next

(* Whatever was typed into a source file is there, or in a thread, or is   *)
(* accounted for by a write over it or a user's `rm` of the thread,        *)
(* wherever extractions, pulls and other commands interleave and stop      *)
(* (Run, WriteThreadFilesTo, DeleteFromFiles).                             *)
THEOREM ExtractLosesNothing == Spec => []NothingLost
<1>1. Init => LossInv
  BY InitLoss
<1>2. ImportInv /\ CopiesInv /\ LossInv /\ [Next]_allVars => LossInv'
  BY NextLoss
<1>3. LossInv => NothingLost
  BY DEF LossInv
<1> QED BY <1>1, <1>2, <1>3, CopiesInvariance, PTL DEF Spec

-----------------------------------------------------------------------------
(* Where what is in the directory, and what is to be written, comes from.  *)

GroupFile == IF run.left[1].name = NoGroup THEN NewFile ELSE run.left[1].name

(* A pull begins to hold an entry when it merges what it fetched. *)
LEMMA LeftFrom ==
  ASSUME ImportInv, CopiesInv, [Next]_allVars, NEW p \in Pullers, NEW entry \in LeftOf(p)'
  PROVE  \/ entry \in LeftOf(p)
         \/ /\ Index(p) /\ pull[p] \in Fetching /\ pull[p].stage = "index"
            /\ \E t \in RemoteThreads : entry = Entry(t, pull[p].got[t])
<1>1. PullTypeOK /\ DirTypeOK /\ GroupsUnlinked /\ GroupsPlain /\ inputs \in Nat
  BY UnlinkedOf DEF ImportInv, ImportTypeOK
<1>2. CASE UNCHANGED pullVars
  <2>1. pull' = pull
    BY <1>2 DEF pullVars
  <2> QED BY <2>1, LeftSame
<1>3. CASE RemoteInput
  <2>1. LeftOf(p)' = LeftOf(p)
    BY <1>1, <1>3, RemoteOf DEF RemoteInput
  <2> QED BY <2>1
<1>4. ASSUME NEW q \in Pullers, Start(q) \/ Fetch(q) PROVE entry \in LeftOf(p)
  <2>1. PICK new \in Waiting \cup Fetching : pull' = [pull EXCEPT ![q] = new]
    BY <1>1, <1>4, FetchOf
  <2>2. (\A r \in Pullers : r # q => pull'[r] = pull[r]) /\ pull'[q].stage \notin {"lock", "write"}
    BY <1>1, <2>1 DEF PullTypeOK, Waiting, Fetching
  <2>3. LeftOf(q)' = {}
    BY <2>2 DEF LeftOf, At
  <2> QED BY <2>2, <2>3, LeftSame
<1>5. ASSUME NEW q \in Pullers, Lock(q) \/ Unlock(q) \/ Stop(q) PROVE entry \in LeftOf(p)
  <2>1. CASE Lock(q)
    <3>1. pull[q] \in Writing /\ pull[q].stage = "lock"
      BY <1>1, <2>1, PullShape DEF Lock, At
    <3>2. pull' = [pull EXCEPT ![q].stage = "write", ![q].number = NextNumber]
      BY <2>1 DEF Lock
    <3>3. pull'[q].stage = "write" /\ pull'[q].left = pull[q].left /\ \A r \in Pullers : r # q => pull'[r] = pull[r]
      BY <1>1, <3>1, <3>2 DEF PullTypeOK, Writing
    <3>4. LeftOf(q)' = LeftOf(q)
      BY <3>1, <3>3 DEF LeftOf, At
    <3> QED BY <3>3, <3>4, LeftSame
  <2>2. CASE Unlock(q) \/ Stop(q)
    <3>1. pull'[q].stage \in {"idle", "done"} /\ \A r \in Pullers : r # q => pull'[r] = pull[r]
      BY <1>1, <2>2 DEF PullTypeOK, Unlock, Stop, Resting
    <3>2. LeftOf(q)' = {}
      BY <3>1 DEF LeftOf, At
    <3> QED BY <3>1, <3>2, LeftSame
  <2> QED BY <1>5, <2>1, <2>2
<1>6. ASSUME NEW q \in Pullers, Write(q) PROVE entry \in LeftOf(p)
  <2>1. LeftOf(q)' \subseteq LeftOf(q)
    BY <1>6, WriteOf
  <2>2. \A r \in Pullers : r # q => pull'[r] = pull[r]
    BY <1>1, <1>6 DEF PullTypeOK, Write
  <2> QED BY <2>1, <2>2, LeftSame
<1>7. ASSUME NEW q \in Pullers, Index(q)
      PROVE  \/ entry \in LeftOf(p)
             \/ /\ Index(p) /\ pull[p] \in Fetching /\ pull[p].stage = "index"
                /\ \E t \in RemoteThreads : entry = Entry(t, pull[p].got[t])
  <2>1. PICK new \in Waiting \cup Writing :
          /\ pull' = [pull EXCEPT ![q] = new]
          /\ \/ new \in Waiting
             \/ /\ new \in Writing /\ new.stage = "lock"
                /\ \A i \in DOMAIN new.left : \E t \in RemoteThreads :
                      new.left[i] = Entry(t, pull[q].got[t])
    BY <1>1, <1>7, IndexOf
  <2>2. (\A r \in Pullers : r # q => pull'[r] = pull[r]) /\ pull'[q] = new
    BY <1>1, <2>1 DEF PullTypeOK
  <2>3. CASE q # p
    BY <2>2, <2>3, LeftSame
  <2>4. CASE q = p
    <3>1. PICK i \in DOMAIN new.left : entry = new.left[i]
      BY <2>2, <2>4 DEF LeftOf, At
    <3>2. new.stage \in {"lock", "write"}
      BY <2>2, <2>4 DEF LeftOf, At
    <3>3. new \notin Waiting
      BY <3>2 DEF Waiting
    <3> QED BY <1>1, <1>7, <2>1, <2>4, <3>1, <3>3, IndexOf
  <2> QED BY <2>3, <2>4
<1>8. UNCHANGED pullVars \/ PullNext \/ \E f \in DOMAIN threads : Forget(f)
  BY DEF Next, OtherCommand, allVars
<1>9. ASSUME NEW f \in DOMAIN threads, Forget(f) PROVE entry \in LeftOf(p)
  <2>1. LeftOf(p)' = LeftOf(p)
    BY <1>1, <1>9, ForgetOf
  <2> QED BY <2>1
<1> QED BY <1>2, <1>3, <1>4, <1>5, <1>6, <1>7, <1>8, <1>9 DEF PullNext

(* A comment was in its file before, or it is in what the step writes. *)
LEMMA CommentsFrom ==
  ASSUME ImportInv, [Next]_allVars, NEW f \in DOMAIN threads', NEW c \in threads'[f].comments
  PROVE  \/ f \in DOMAIN threads /\ c \in threads[f].comments /\ threads'[f].remote = threads[f].remote
         \/ \E p \in Pullers : \E entry \in LeftOf(p) :
                Write(p) /\ entry = Head(pull[p].left) /\ c \in entry.thread.comments
         \/ OtherCommand /\ c = Comment(Local)
         \/ /\ WriteGroup /\ f = GroupFile /\ threads'[f].remote = Nobody
            /\ \E of \in run.left[1].entries : c = Comment(of)
<1>1. DirTypeOK /\ inputs \in Nat
  BY DEF ImportInv, ImportTypeOK
<1>2. ASSUME NEW p \in Pullers, Write(p)
      PROVE  \/ f \in DOMAIN threads /\ c \in threads[f].comments /\ threads'[f].remote = threads[f].remote
             \/ \E entry \in LeftOf(p) : entry = Head(pull[p].left) /\ c \in entry.thread.comments
  <2>1. PICK entry \in LeftOf(p), file \in Numbered \cup {NewFile} :
          /\ entry = Head(pull[p].left) /\ DOMAIN threads' = DOMAIN threads \cup {file}
          /\ threads'[file].comments = entry.thread.comments
          /\ \A g \in DOMAIN threads : g # file => threads'[g] = threads[g]
    BY ZenonT(60), <1>2, WriteOf
  <2> QED BY <2>1
<1>3. CASE WriteGroup
  <2>1. PICK group \in GroupRecords, file \in Groups \cup {NewFile} :
          /\ run.left[1] = group
          /\ group.name # NoGroup => file = group.name
          /\ group.name = NoGroup => file = NewFile
          /\ DOMAIN threads' = DOMAIN threads \cup {file}
          /\ threads'[file].comments = {Comment(x) : x \in group.entries}
          /\ threads'[file].remote = Nobody
          /\ \A g \in DOMAIN threads : g # file => threads'[g] = threads[g]
    BY <1>3, WriteGroupOf
  <2>2. CASE f # file
    BY <2>1, <2>2
  <2>3. CASE f = file
    <3>1. f = GroupFile
      BY <2>1, <2>3 DEF GroupFile
    <3>2. PICK of \in group.entries : c = Comment(of)
      BY <2>1, <2>3
    <3>3. \E of2 \in run.left[1].entries : c = Comment(of2)
      BY <2>1, <3>2
    <3> QED BY <1>3, <2>1, <2>3, <3>1, <3>3
  <2> QED BY <2>2, <2>3
<1>4. CASE threads' = threads
  BY <1>4
<1>5. CASE OtherCommand
  <2>1. CASE Create
    BY <1>1, <1>5, <2>1, CreateOf
  <2>2. CASE AddComment(UNION {Copied(p) : p \in Pullers})
    <3>1. PICK g \in DOMAIN threads :
            /\ DOMAIN threads' = DOMAIN threads /\ threads'[g].remote = threads[g].remote
            /\ threads'[g].comments = threads[g].comments \cup {Comment(Local)}
            /\ \A h \in DOMAIN threads : h # g => threads'[h] = threads[h]
      BY <1>1, <2>2, AddCommentOf
    <3> QED BY <1>5, <3>1
  <2>3. ASSUME NEW g \in DOMAIN threads, RemoveThread(g)
        PROVE  f \in DOMAIN threads /\ c \in threads[f].comments /\ threads'[f].remote = threads[f].remote
    BY <1>1, <2>3, RemoveThreadOf
  <2> QED BY <1>5, <2>1, <2>2, <2>3 DEF OtherCommand
<1>6. UNCHANGED allVars => threads' = threads
  BY DEF allVars, dirVars, directory
<1>7. \/ threads' = threads \/ WriteGroup \/ OtherCommand \/ \E p \in Pullers : Write(p)
  BY <1>6, PullThreads, OnlyWriteGroup DEF Next
<1> QED BY <1>2, <1>3, <1>4, <1>5, <1>7

-----------------------------------------------------------------------------
(* A comment becomes one thread's.                                         *)

(* Only a user's typing adds to what was typed, under a name of its own. *)
LEMMA TypedFrom ==
  ASSUME ImportInv, [Next]_allVars
  PROVE  \/ typed' = typed
         \/ \E f \in Sources, item \in Items :
              /\ item.of = Local /\ typed' = typed \cup {item}
              /\ source' = [source EXCEPT ![f] = @ \cup {item}]
              /\ inputs' = inputs + 1 /\ run' = run /\ broken' = broken
              /\ threads' = threads /\ UNCHANGED pullVars
<1>1. inputs \in Nat
  BY DEF ImportInv, ImportTypeOK
<1>2. ASSUME NEW f \in Sources, NEW kind \in {"comment", "reference", "code"},
             NEW name \in Groups \cup {NoGroup}, Type(f, kind, name), Input, UNCHANGED pullVars
      PROVE  \E item \in Items :
              /\ item.of = Local /\ typed' = typed \cup {item}
              /\ source' = [source EXCEPT ![f] = @ \cup {item}]
              /\ inputs' = inputs + 1 /\ run' = run /\ broken' = broken
              /\ threads' = threads /\ UNCHANGED pullVars
  <2>1. PICK item : item = [of |-> Local, kind |-> kind, name |-> name]
    OBVIOUS
  <2>2. item \in Items /\ item.of = Local
    BY <1>1, <2>1, LocalType DEF Items
  <2>3. /\ typed' = typed \cup {item} /\ source' = [source EXCEPT ![f] = @ \cup {item}]
        /\ inputs' = inputs + 1 /\ run' = run /\ broken' = broken /\ threads' = threads
    BY <1>2, <2>1 DEF Type, Input, dirVars, directory
  <2> QED BY <1>2, <2>2, <2>3
<1>3. CASE UNCHANGED extractVars \/ UNCHANGED allVars
  BY <1>3 DEF extractVars, allVars
<1>4. CASE ExtractNext /\ UNCHANGED pullVars
  <2>1. CASE Input /\ \E f \in Sources :
               \/ \E kind \in {"comment", "code"} : Type(f, kind, NoGroup)
               \/ \E kind \in {"comment", "reference"}, name \in Groups : Type(f, kind, name)
    BY <1>2, <1>4, <2>1
  <2>2. CASE Begin \/ Abort \/ Group \/ LockDir \/ UnlockDir \/ Finish \/ WriteGroup
    BY <2>2 DEF Begin, Abort, Group, LockDir, UnlockDir, Finish, WriteGroup
  <2>3. CASE \E f \in Sources : ReadFile(f) \/ DeleteFile(f)
    BY <2>3 DEF ReadFile, DeleteFile
  <2> QED BY <1>4, <2>1, <2>2, <2>3 DEF ExtractNext
<1> QED BY <1>3, <1>4 DEF Next, OtherCommand

(* The first of the groups to be written has typed comments. *)
LEMMA FirstTyped ==
  ASSUME ImportInv, LossInv, GroupsInv, WriteGroup, NEW of \in run.left[1].entries
  PROVE  /\ of \in ToWrite /\ of \in LocalNames /\ of[2] < inputs
         /\ \E f \in Sources : \E item \in run.contents[f] \cap typed : item.kind = "comment" /\ item.of = of
<1>1. run \in Extraction /\ run.left # <<>> /\ Grouped
  BY WriteGroupOf DEF Grouped, InStage
<1>2. 1 \in DOMAIN run.left
  BY <1>1 DEF Extraction
<1>3. of \in ToWrite
  BY <1>2 DEF ToWrite
<1>4. PICK f \in Sources : \E item \in run.contents[f] : item.kind = "comment" /\ item.of = of
  BY <1>1, <1>3 DEF GroupsInv
<1>5. PICK item \in run.contents[f] : item.kind = "comment" /\ item.of = of
  BY <1>4
<1>6. item \in typed
  BY <1>1, <1>5 DEF Extraction
<1>7. of \in LocalNames /\ of[2] < inputs
  BY <1>5, <1>6 DEF LossInv, TypedInv, ImportInv, ImportTypeOK, RunTypeOK, Items
<1> QED BY <1>3, <1>5, <1>6, <1>7

LEMMA NamesStep ==
  ASSUME ImportInv, CopiesInv, LossInv, OnceInv, [Next]_allVars
  PROVE  NamesInv'
<1>1. DirTypeOK /\ PullTypeOK /\ GroupsUnlinked /\ inputs \in Nat /\ inputs' \in Nat /\ inputs <= inputs'
  BY UnlinkedOf, HistoryGrows DEF ImportInv, ImportTypeOK
<1>2. Local = <<"local", inputs>> /\ typed \subseteq Items
  BY DEF Local, ImportInv, ImportTypeOK, RunTypeOK
<1>3. \A item \in typed : item.of \in LocalNames /\ item.of # Local /\ item.of[1] = "local" /\ item.of[2] < inputs
  BY <1>1, <1>2 DEF Items, LocalNames, LossInv, TypedInv
<1>4. OtherCommand => inputs' = inputs + 1 /\ typed' = typed
  BY DEF OtherCommand, Input, extractVars
<1>5. WriteGroup => typed' = typed
  BY DEF WriteGroup
<1>6. \A of \in LocalNames \cup RemoteNames : Past(of) => Past(of)'
  BY <1>1 DEF Past, LocalNames, RemoteNames
<1>7. ASSUME NEW f \in DOMAIN threads, NEW c \in threads[f].comments
      PROVE  Past(c.of) /\ Past(c.of)' /\ c.of \in LocalNames \cup RemoteNames
  <2>1. c.of \in LocalNames \cup RemoteNames
    BY <1>1, <1>7 DEF DirTypeOK, ThreadRecords, Comments
  <2> QED BY <1>6, <1>7, <2>1 DEF OnceInv, NamesInv, NamesIn
<1>8. ASSUME NEW p \in Pullers, NEW entry \in LeftOf(p), NEW c \in entry.thread.comments
      PROVE  Past(c.of) /\ Past(c.of)' /\ c.of \notin TypedNames /\ c.of \in LocalNames \cup RemoteNames
  <2>1. c.of \in LocalNames \cup RemoteNames
    BY <1>1, <1>8, PullShape DEF Entries, ThreadRecords, Comments
  <2> QED BY <1>6, <1>8, <2>1 DEF OnceInv, NamesInv, NamesIn
<1>9. ASSUME NEW of, Past(of), of \notin TypedNames PROVE of \notin TypedNames'
  <2>1. CASE typed' = typed
    BY <1>9, <2>1 DEF TypedNames
  <2>2. ASSUME NEW item \in Items, item.of = Local, typed' = typed \cup {item} PROVE of \notin TypedNames'
    <3>1. of # Local
      BY <1>1, <1>2, <1>9 DEF Past
    <3> QED BY <1>9, <2>2, <3>1 DEF TypedNames
  <2> QED BY <2>1, <2>2, TypedFrom
<1>10. ASSUME NEW f \in DOMAIN threads', NEW c \in threads'[f].comments PROVE Past(c.of)'
  <2>1. CASE f \in DOMAIN threads /\ c \in threads[f].comments
    BY <1>7, <2>1
  <2>2. CASE \E p \in Pullers : \E entry \in LeftOf(p) : c \in entry.thread.comments
    BY <1>8, <2>2
  <2>3. CASE OtherCommand /\ c = Comment(Local)
    <3>1. c.of = Local
      BY <2>3 DEF Comment
    <3> QED BY <1>1, <1>2, <1>4, <2>3, <3>1 DEF Past
  <2>4. CASE WriteGroup /\ \E of \in run.left[1].entries : c = Comment(of)
    <3>1. PICK of \in run.left[1].entries : c = Comment(of)
      BY <2>4
    <3>2. of \in LocalNames /\ of[2] < inputs /\ c.of = of
      BY <2>4, <3>1, FirstTyped DEF OnceInv, Comment
    <3>3. of[2] \in Nat
      BY <3>2 DEF LocalNames
    <3> QED BY <1>1, <3>2, <3>3 DEF Past
  <2> QED BY <2>1, <2>2, <2>3, <2>4, CommentsFrom
<1>11. ASSUME NEW p \in Pullers, NEW entry \in LeftOf(p)', NEW c \in entry.thread.comments
       PROVE  Past(c.of)' /\ c.of \notin TypedNames'
  <2>1. CASE entry \in LeftOf(p)
    BY <1>8, <1>9, <2>1
  <2>2. CASE /\ Index(p) /\ pull[p] \in Fetching
             /\ \E t \in RemoteThreads : entry = Entry(t, pull[p].got[t])
    <3>1. PICK t \in RemoteThreads : entry = Entry(t, pull[p].got[t])
      BY <2>2
    <3> DEFINE got == pull[p].got[t]
    <3>2. got \in Seq(RemoteComments)
      BY <2>2 DEF Fetching
    <3>3. \A d \in Mapped(got) : Names(d) \in RemoteNames /\ Pulled(d).of = Names(d)
      BY <3>2, MappedType, PulledType
    <3>4. ASSUME c.of \in RemoteNames PROVE Past(c.of)' /\ Past(c.of) /\ c.of \notin TypedNames
      <4>1. c.of[1] # "local"
        BY <3>4 DEF RemoteNames
      <4> QED BY <1>3, <4>1 DEF Past, TypedNames
    <3>5. CASE entry.thread = MapThread(t, got)
      <4>1. PICK d \in Mapped(got) : c = Pulled(d)
        BY <3>2, <3>5, MapThreadOf
      <4> QED BY <1>9, <3>3, <3>4, <4>1
    <3>6. CASE /\ entry.file \in Numbered \cap DOMAIN threads /\ threads[entry.file].remote = t
               /\ entry.thread = MergeThread(threads[entry.file], got)
      <4>1. entry.file \in DOMAIN threads /\ threads[entry.file] \in ThreadRecords
        BY <1>1, <3>6 DEF DirTypeOK
      <4>2. c.of \in NamesIn(threads[entry.file]) \cup {Names(d) : d \in Mapped(got)}
        <5>1. c.of \in NamesIn(entry.thread)
          BY DEF NamesIn
        <5>2. NamesIn(entry.thread) = NamesIn(threads[entry.file]) \cup {Names(d) : d \in Mapped(got)}
          BY <3>2, <3>6, <4>1, MergedNames
        <5> QED BY <5>1, <5>2
      <4>3. CASE c.of \in RemoteNames
        BY <1>9, <3>4, <4>3
      <4>4. CASE c.of \in NamesIn(threads[entry.file])
        <5>1. Past(c.of) /\ Past(c.of)'
          BY <1>7, <4>1, <4>4 DEF NamesIn
        <5>2. t # Nobody
          BY PullAssumption DEF RemoteThreads
        <5>3. c.of \notin TypedNames
          BY <3>6, <4>1, <4>4, <5>2 DEF OnceInv, NamesInv, TypedNames
        <5> QED BY <1>9, <5>1, <5>3
      <4> QED BY <3>3, <4>2, <4>3, <4>4
    <3> QED BY <1>1, <3>1, <3>2, <3>5, <3>6, EntryOf DEF GroupsUnlinked
  <2> QED BY <2>1, <2>2, LeftFrom
<1>12. ASSUME NEW item \in typed, NEW f \in DOMAIN threads', NEW c \in threads'[f].comments, c.of = item.of
       PROVE  threads'[f].remote = Nobody /\ item.kind = "comment"
  <2>1. CASE f \in DOMAIN threads /\ c \in threads[f].comments /\ threads'[f].remote = threads[f].remote
    BY <1>12, <2>1 DEF OnceInv, NamesInv, NamesIn
  <2>2. CASE \E p \in Pullers : \E entry \in LeftOf(p) : c \in entry.thread.comments
    BY <1>8, <1>12, <2>2 DEF TypedNames
  <2>3. CASE OtherCommand /\ c = Comment(Local)
    BY <1>3, <1>12, <2>3 DEF Comment
  <2>4. CASE /\ WriteGroup /\ threads'[f].remote = Nobody
             /\ \E of \in run.left[1].entries : c = Comment(of)
    <3>1. PICK of \in run.left[1].entries : c = Comment(of)
      BY <2>4
    <3>2. PICK g \in Sources : \E other \in run.contents[g] \cap typed : other.kind = "comment" /\ other.of = of
      BY <2>4, FirstTyped DEF OnceInv
    <3>3. PICK other \in typed : other.kind = "comment" /\ other.of = of
      BY <3>2
    <3>4. other = item
      BY <1>12, <3>1, <3>3 DEF Comment, LossInv, TypedInv
    <3> QED BY <2>4, <3>3, <3>4
  <2> QED BY <2>1, <2>2, <2>3, <2>4, CommentsFrom
<1>13. ASSUME NEW item \in typed', NEW f \in DOMAIN threads', NEW c \in threads'[f].comments, c.of = item.of
       PROVE  threads'[f].remote = Nobody /\ item.kind = "comment"
  <2>1. CASE item \in typed
    BY <1>12, <1>13, <2>1
  <2>2. CASE item \notin typed
    <3>1. item.of = Local /\ threads' = threads
      BY <1>13, <2>2, TypedFrom
    <3> QED BY <1>1, <1>2, <1>7, <1>13, <3>1 DEF Past
  <2> QED BY <2>1, <2>2
<1> QED BY <1>10, <1>11, <1>13 DEF NamesInv, NamesIn

LEMMA TypedStay ==
  ASSUME ImportInv, LossInv, OnceInv, [Next]_allVars, ~WriteGroup,
         NEW item \in typed', NEW f \in DOMAIN threads', item.of \in NamesIn(threads'[f])
  PROVE  item \in typed /\ f \in DOMAIN threads /\ item.of \in NamesIn(threads[f])
<1>1. inputs \in Nat /\ Local = <<"local", inputs>> /\ \A other \in typed : other.of[2] < inputs
  BY DEF Local, ImportInv, ImportTypeOK, LossInv, TypedInv
<1>2. PICK c \in threads'[f].comments : c.of = item.of
  BY DEF NamesIn
<1>3. CASE item \in typed
  <2>1. CASE f \in DOMAIN threads /\ c \in threads[f].comments
    BY <1>2, <1>3, <2>1 DEF NamesIn
  <2>2. CASE \E p \in Pullers : \E entry \in LeftOf(p) : c \in entry.thread.comments
    BY <1>2, <1>3, <2>2 DEF OnceInv, NamesInv, NamesIn, TypedNames
  <2>3. CASE c = Comment(Local)
    <3>1. item.of = Local
      BY <1>2, <2>3 DEF Comment
    <3> QED BY <1>1, <1>3, <3>1
  <2> QED BY <2>1, <2>2, <2>3, CommentsFrom
<1>4. CASE item \notin typed
  <2>1. item.of = Local /\ threads' = threads
    BY <1>4, TypedFrom
  <2>2. Past(Local)
    BY <1>2, <2>1 DEF OnceInv, NamesInv, NamesIn
  <2> QED BY <1>1, <2>2 DEF Past
<1> QED BY <1>3, <1>4

(* A step that leaves the extraction where it is. *)
LEMMA OnceFrame ==
  ASSUME ImportInv, CopiesInv, LossInv, OnceInv, [Next]_allVars, ~WriteGroup,
         run' = run, broken' = broken, typed' = typed => source' = source
  PROVE  OnceInv'
<1>1. NamesInv'
  BY NamesStep
<1>2. /\ source \in [Sources -> SUBSET typed] /\ inputs \in Nat /\ Local = <<"local", inputs>>
      /\ \A other \in typed : other.of[2] < inputs
  BY DEF Local, ImportInv, ImportTypeOK, RunTypeOK, LossInv, TypedInv
<1>3. Stale' = Stale /\ Stale \subseteq Sources /\ ToWrite' = ToWrite
  BY RunShape DEF Stale, HasReviewComments, ToWrite, InStage, Extraction, ImportInv, ImportTypeOK, RunTypeOK
<1>4. \/ source' = source
      \/ \E f \in Sources, item \in Items : item \notin typed /\ source' = [source EXCEPT ![f] = @ \cup {item}]
  BY <1>2, TypedFrom
<1>5. \A f \in Sources : source[f] \subseteq source'[f] /\ source'[f] \cap typed \subseteq source[f]
  BY <1>2, <1>4
<1>6. ASSUME NEW f \in Sources, NEW g \in Sources, NEW item \in source'[f] \cap source'[g] PROVE f = g
  <2>1. CASE item \in typed
    BY <1>5, <1>6, <2>1 DEF OnceInv, FilesInv
  <2>2. CASE item \notin typed
    <3>1. PICK h \in Sources, new \in Items : source' = [source EXCEPT ![h] = @ \cup {new}]
      BY <1>2, <1>4, <1>6, <2>2
    <3> QED BY <1>2, <1>6, <2>2, <3>1
  <2> QED BY <2>1, <2>2
<1>7. FilesInv'
  <2>1. \A f \in Stale : run.contents[f] \subseteq source'[f]
    BY <1>3, <1>5 DEF OnceInv, FilesInv
  <2> QED BY <1>3, <1>6, <2>1 DEF FilesInv
<1>8. GroupsInv'
  BY <1>3 DEF OnceInv, GroupsInv, Grouped, InStage
<1>9. ASSUME ~broken PROVE ApartInv'
  <2>1. HomesApart'
    <3> SUFFICES ASSUME NEW item \in typed', NEW f \in DOMAIN threads', NEW g \in DOMAIN threads',
                        item.of \in NamesIn(threads'[f]), item.of \in NamesIn(threads'[g])
                 PROVE  f = g
      BY DEF HomesApart, NamesIn
    <3>1. item \in typed /\ f \in DOMAIN threads /\ item.of \in NamesIn(threads[f])
      BY TypedStay
    <3>2. g \in DOMAIN threads /\ item.of \in NamesIn(threads[g])
      BY TypedStay
    <3> QED BY <1>9, <3>1, <3>2 DEF OnceInv, ApartInv, HomesApart
  <2>2. ASSUME NEW item \in typed', InThreads(item.of)' PROVE item \in typed /\ InThreads(item.of)
    <3>1. PICK f \in DOMAIN threads' : item.of \in NamesIn(threads'[f])
      BY <2>2 DEF InThreads, NamesIn
    <3> QED BY <3>1, TypedStay DEF InThreads
  <2>3. ASSUME InStage({"write"}), NEW of \in ToWrite PROVE ~InThreads(of)'
    <3>1. run \in Extraction /\ Grouped
      BY <2>3, RunShape DEF Grouped, InStage, ImportInv, ImportTypeOK
    <3>2. PICK f \in Sources : \E item \in run.contents[f] : item.of = of
      BY <2>3, <3>1 DEF OnceInv, GroupsInv
    <3>3. PICK item \in typed : item.of = of
      BY <3>1, <3>2 DEF Extraction
    <3>4. item \in typed'
      BY <3>3, TypedFrom
    <3>5. ~InThreads(of)
      BY <1>9, <2>3 DEF OnceInv, ApartInv
    <3> QED BY <2>2, <3>3, <3>4, <3>5
  <2>4. ASSUME NEW f \in Sources, NEW item \in source'[f], InThreads(item.of)'
        PROVE  InStage({"write", "delete"}) /\ f \in run.undone /\ item \in run.contents[f]
    <3>1. item \in typed'
      <4>1. RunTypeOK'
        BY NextImport DEF ImportInv, ImportTypeOK
      <4> QED BY <2>4, <4>1 DEF RunTypeOK
    <3>2. item \in typed /\ InThreads(item.of)
      BY <2>2, <2>4, <3>1
    <3>3. item \in source[f]
      BY <1>5, <2>4, <3>2
    <3> QED BY <1>9, <3>2, <3>3 DEF OnceInv, ApartInv
  <2>5. InStage({"write"})' = InStage({"write"}) /\ InStage({"write", "delete"})' = InStage({"write", "delete"})
    BY DEF InStage
  <2> QED BY <1>3, <2>1, <2>3, <2>4, <2>5 DEF ApartInv
<1> QED BY <1>1, <1>7, <1>8, <1>9 DEF OnceInv

(* A step of an extraction that does not write a thread. *)
LEMMA OnceRun ==
  ASSUME ImportInv, CopiesInv, LossInv, OnceInv, [Next]_allVars,
         threads' = threads, typed' = typed, broken => broken', FilesInv', GroupsInv',
         ~broken' /\ InStage({"write"})' => \A of \in ToWrite' : ~InThreads(of),
         ~broken' => \A f \in Sources : \A item \in source'[f] : InThreads(item.of) =>
                (InStage({"write", "delete"}) /\ f \in run.undone /\ item \in run.contents[f])'
  PROVE  OnceInv'
<1>1. NamesInv'
  BY NamesStep
<1>2. \A of : InThreads(of)' = InThreads(of)
  BY DEF InThreads
<1>3. ASSUME ~broken' PROVE HomesApart'
  BY <1>3 DEF OnceInv, ApartInv, HomesApart
<1> QED BY <1>1, <1>2, <1>3 DEF OnceInv, ApartInv

LEMMA EndOnce ==
  ASSUME ImportInv, CopiesInv, LossInv, OnceInv, Next, Begin \/ Abort \/ Finish
  PROVE  OnceInv'
<1>1. threads' = threads /\ typed' = typed /\ source' = source /\ (broken => broken')
  <2>1. Abort => broken' = (broken \/ InStage({"write", "delete"}))
    BY DEF Abort
  <2>2. broken => broken'
    BY <2>1, Zenon DEF Begin, Finish
  <2> QED BY <2>2 DEF Begin, Abort, Finish, dirVars, directory
<1>2. Stale' = {} /\ ~Grouped' /\ ~InStage({"lock", "write"})' /\ ~InStage({"write"})'
  BY DEF Begin, Abort, Finish, NoRun, Stale, Grouped, InStage
<1>3. FilesInv'
  BY <1>1, <1>2 DEF FilesInv, OnceInv
<1>4. GroupsInv'
  BY <1>2 DEF GroupsInv
<1>5. ASSUME ~broken', NEW f \in Sources, NEW item \in source[f], InThreads(item.of) PROVE FALSE
  <2>1. ~broken
    BY <1>1, <1>5
  <2>2. InStage({"write", "delete"}) /\ f \in run.undone
    BY <1>5, <2>1 DEF OnceInv, ApartInv
  <2>3. CASE Begin
    BY <2>2, <2>3 DEF Begin, InStage
  <2>4. CASE Abort
    BY <1>5, <2>2, <2>4 DEF Abort
  <2>5. CASE Finish
    BY <2>2, <2>5 DEF Finish
  <2> QED BY <2>3, <2>4, <2>5
<1>6. ~broken' => \A f \in Sources : \A item \in source'[f] : ~InThreads(item.of)
  BY <1>1, <1>5
<1> QED BY <1>1, <1>2, <1>3, <1>4, <1>6, OnceRun

LEMMA ReadFileOnce ==
  ASSUME ImportInv, CopiesInv, LossInv, OnceInv, Next, NEW f \in Sources, ReadFile(f)
  PROVE  OnceInv'
<1>1. /\ InStage({"read"}) /\ InStage({"read"})'
      /\ DOMAIN run'.contents = DOMAIN run.contents \cup {f} /\ run'.contents[f] \in {source[f], {}}
      /\ \A g \in DOMAIN run.contents : run'.contents[g] = run.contents[g]
  BY ReadFileType DEF ImportInv, ImportTypeOK
<1>2. threads' = threads /\ typed' = typed /\ source' = source /\ broken' = broken
  BY DEF ReadFile, dirVars, directory
<1>3. FilesInv'
  <2>1. \A g \in Stale' : g \in Stale \cap DOMAIN run.contents \/ (g = f /\ run'.contents[g] = source[g])
    BY <1>1 DEF Stale, HasReviewComments
  <2> QED BY <1>1, <1>2, <2>1 DEF OnceInv, FilesInv
<1>4. GroupsInv' /\ ~InStage({"write"})'
  BY <1>1 DEF GroupsInv, Grouped, InStage
<1>5. ~InStage({"write", "delete"})
  BY <1>1 DEF InStage
<1>6. ~broken => \A g \in Sources : \A item \in source[g] : ~InThreads(item.of)
  BY <1>5 DEF OnceInv, ApartInv
<1> QED BY <1>2, <1>3, <1>4, <1>6, OnceRun

LEMMA GroupOnce ==
  ASSUME ImportInv, CopiesInv, LossInv, OnceInv, Next, Group
  PROVE  OnceInv'
<1> DEFINE items == UNION {run.contents[f] : f \in Sources}
<1>1. /\ run' \in Extraction /\ run'.stage = "lock"
      /\ InStage({"read"}) /\ DOMAIN run.contents = Sources
      /\ run'.contents = run.contents /\ items \in SUBSET typed /\ IsFiniteSet(items)
      /\ run'.undone = {f \in Sources : \E item \in run.contents[f] : IsReviewComment(item)}
      /\ run'.left = GroupComments(items).names \o GroupComments(items).singles
  BY GroupOf DEF ImportInv, ImportTypeOK
<1>2. threads' = threads /\ typed' = typed /\ source' = source /\ broken' = broken /\ typed \subseteq Items
  BY DEF Group, dirVars, directory, ImportInv, ImportTypeOK, RunTypeOK
<1>3. FilesInv'
  <2>1. Stale' \subseteq Stale
    BY <1>1 DEF Stale, HasReviewComments, InStage
  <2> QED BY <1>1, <1>2, <2>1 DEF OnceInv, FilesInv
<1>4. /\ \A i \in DOMAIN run'.left : run'.left[i].entries \subseteq {item.of : item \in CommentsOf(items)}
      /\ \A i, j \in DOMAIN run'.left : run'.left[i].entries \cap run'.left[j].entries # {} => i = j
  <2>1. \A a, b \in items : a.of = b.of => a = b
    <3> HIDE DEF items
    <3> QED BY <1>1 DEF LossInv, TypedInv
  <2> HIDE DEF items
  <2>2. items \in SUBSET Items
    BY <1>1, <1>2
  <2> QED BY <1>1, <2>1, <2>2, GroupCommentsOf
<1>5. GroupsInv'
  <2>1. ASSUME NEW of \in ToWrite'
        PROVE  \E f \in Sources : \E item \in run.contents[f] : item.kind = "comment" /\ item.of = of
    <3>1. of \in {item.of : item \in CommentsOf(items)}
      <4> HIDE DEF items
      <4>1. PICK i \in DOMAIN run'.left : of \in run'.left[i].entries
        BY <2>1 DEF ToWrite
      <4>2. run'.left[i].entries \subseteq {item.of : item \in CommentsOf(items)}
        BY <1>4
      <4> QED BY <4>1, <4>2
    <3>2. PICK item \in items : item.kind = "comment" /\ item.of = of
      BY <3>1 DEF CommentsOf
    <3> QED BY <3>2
  <2>2. \A f \in Sources : (\E item \in run'.contents[f] : IsReviewComment(item)) => f \in run'.undone
    BY <1>1
  <2>3. \A of \in ToWrite' : \E f \in Sources : \E item \in run'.contents[f] : item.kind = "comment" /\ item.of = of
    BY <1>1, <2>1
  <2> HIDE DEF items
  <2> QED BY <1>4, <2>2, <2>3 DEF GroupsInv
<1>6. ~InStage({"write"})' /\ ~InStage({"write", "delete"})
  BY <1>1 DEF InStage
<1>7. ~broken => \A g \in Sources : \A item \in source[g] : ~InThreads(item.of)
  BY <1>6 DEF OnceInv, ApartInv
<1> QED BY <1>2, <1>3, <1>5, <1>6, <1>7, OnceRun

LEMMA LockDirOnce ==
  ASSUME ImportInv, CopiesInv, LossInv, OnceInv, Next, LockDir \/ UnlockDir
  PROVE  OnceInv'
<1>1. run \in Extraction /\ InStage({"lock", "write"}) /\ Grouped
  BY RunShape DEF LockDir, UnlockDir, InStage, Grouped, ImportInv, ImportTypeOK
<1>2. /\ run'.left = run.left /\ run'.contents = run.contents /\ run'.undone = run.undone
      /\ run'.stage = IF LockDir THEN "write" ELSE "delete"
  BY <1>1 DEF LockDir, UnlockDir, Extraction, InStage
<1>3. threads' = threads /\ typed' = typed /\ source' = source /\ broken' = broken
  BY DEF LockDir, UnlockDir, directory
<1>4. FilesInv'
  <2>1. Stale' = Stale
    BY <1>1, <1>2 DEF Stale, InStage
  <2> QED BY <1>2, <1>3, <2>1 DEF OnceInv, FilesInv
<1>5. GroupsInv'
  <2>1. ToWrite' = ToWrite
    BY <1>2 DEF ToWrite
  <2> QED BY <1>1, <1>2, <2>1 DEF OnceInv, GroupsInv
<1>6. InStage({"write", "delete"})'
  BY <1>2 DEF InStage
<1>7. ASSUME ~broken, InStage({"write"})', NEW of \in ToWrite PROVE ~InThreads(of)
  <2>1. InStage({"lock"}) /\ ~InStage({"write", "delete"})
    BY <1>2, <1>7 DEF LockDir, InStage
  <2>2. PICK f \in Sources : \E item \in run.contents[f] : item.kind = "comment" /\ item.of = of
    BY <1>1, <1>7 DEF OnceInv, GroupsInv
  <2>3. PICK item \in run.contents[f] : item.kind = "comment" /\ item.of = of
    BY <2>2
  <2>4. f \in run.undone
    BY <1>1, <2>3 DEF OnceInv, GroupsInv, IsReviewComment
  <2>5. item \in source[f]
    BY <2>1, <2>3, <2>4 DEF OnceInv, FilesInv, Stale, InStage
  <2> QED BY <1>7, <2>1, <2>3, <2>5 DEF OnceInv, ApartInv
<1>8. ToWrite' = ToWrite
  BY <1>2 DEF ToWrite
<1>9. ASSUME ~broken, NEW f \in Sources, NEW item \in source[f], InThreads(item.of)
      PROVE  f \in run'.undone /\ item \in run'.contents[f]
  BY <1>2, <1>9 DEF OnceInv, ApartInv
<1> QED BY <1>3, <1>4, <1>5, <1>6, <1>7, <1>8, <1>9, OnceRun

LEMMA DeleteFileOnce ==
  ASSUME ImportInv, CopiesInv, LossInv, OnceInv, Next, NEW f \in Sources, DeleteFile(f)
  PROVE  OnceInv'
<1>1. /\ RunTypeOK /\ run \in Extraction /\ InStage({"delete"}) /\ f \in run.undone
      /\ run' \in Extraction /\ run'.stage = "delete" /\ run'.undone = run.undone \ {f}
      /\ run'.contents = run.contents /\ run'.left = run.left
      /\ source' = [source EXCEPT ![f] = {item \in run.contents[f] : ~IsReviewComment(item)}]
      /\ typed' = typed /\ broken' = broken
  BY DeleteFileOf DEF ImportInv, ImportTypeOK
<1>2. threads' = threads
  BY DEF DeleteFile, dirVars, directory
<1>3. /\ \A g \in Sources : g # f => source'[g] = source[g]
      /\ source'[f] = {item \in run.contents[f] : ~IsReviewComment(item)}
  BY <1>1 DEF RunTypeOK
<1>4. Stale = run.undone /\ Stale' = run.undone \ {f} /\ run.undone \subseteq Sources
  BY <1>1 DEF Stale, InStage, Extraction
<1>5. FilesInv'
  <2>1. run.contents[f] \subseteq source[f]
    BY <1>1, <1>4 DEF OnceInv, FilesInv
  <2>2. \A g \in Sources : source'[g] \subseteq source[g]
    BY <1>3, <2>1
  <2>3. \A g, h \in Sources : source'[g] \cap source'[h] # {} => g = h
    BY <2>2 DEF OnceInv, FilesInv
  <2>4. \A g \in Stale' : run'.contents[g] \subseteq source'[g]
    BY <1>1, <1>3, <1>4 DEF OnceInv, FilesInv
  <2> QED BY <2>3, <2>4 DEF FilesInv
<1>6. GroupsInv'
  <2>1. ToWrite' = ToWrite
    BY <1>1 DEF ToWrite
  <2>2. Grouped /\ ~InStage({"lock", "write"})'
    BY <1>1 DEF Grouped, InStage
  <2> QED BY <1>1, <2>1, <2>2 DEF OnceInv, GroupsInv
<1>7. InStage({"write", "delete"})' /\ ~InStage({"write"})'
  BY <1>1 DEF InStage
<1>8. ASSUME ~broken, NEW g \in Sources, NEW item \in source'[g], InThreads(item.of)
      PROVE  g \in run'.undone /\ item \in run'.contents[g]
  <2>1. CASE g # f
    <3>1. item \in source[g]
      BY <1>3, <1>8, <2>1
    <3> QED BY <1>1, <1>8, <2>1, <3>1 DEF OnceInv, ApartInv
  <2>2. CASE g = f
    <3>1. item \in typed /\ item.kind # "comment"
      BY <1>1, <1>3, <1>8, <2>2 DEF Extraction, IsReviewComment
    <3>2. PICK h \in DOMAIN threads : item.of \in NamesIn(threads[h])
      BY <1>8 DEF InThreads
    <3> QED BY <3>1, <3>2 DEF OnceInv, NamesInv
  <2> QED BY <2>1, <2>2
<1> QED BY <1>1, <1>2, <1>5, <1>6, <1>7, <1>8, OnceRun

LEMMA WriteGroupOnce ==
  ASSUME ImportInv, CopiesInv, LossInv, OnceInv, Next, WriteGroup
  PROVE  OnceInv'
<1>1. /\ run \in Extraction /\ run.left # <<>> /\ InStage({"write"}) /\ InStage({"write"})'
      /\ run'.left = Tail(run.left) /\ run'.contents = run.contents /\ run'.undone = run.undone
  BY WriteGroupOf
<1>2. typed' = typed /\ source' = source /\ broken' = broken
  BY DEF WriteGroup
<1>3. Grouped /\ InStage({"lock", "write"}) /\ InStage({"write", "delete"})' /\ Grouped' /\ ~InStage({"read"}) /\ ~InStage({"read"})'
  BY <1>1 DEF Grouped, InStage
<1>4. NamesInv'
  BY NamesStep
<1>5. FilesInv'
  <2>1. Stale' = Stale /\ Stale = run.undone
    BY <1>1, <1>3 DEF Stale, InStage
  <2> QED BY <1>1, <1>2, <2>1 DEF OnceInv, FilesInv
<1>6. /\ run.left \in Seq(GroupRecords) /\ 1 \in DOMAIN run.left
      /\ \A i \in DOMAIN Tail(run.left) :
            /\ i + 1 \in DOMAIN run.left /\ i \in Nat /\ i # 0 /\ Tail(run.left)[i] = run.left[i + 1]
  BY <1>1 DEF Extraction
<1>7. \A i, j \in DOMAIN run.left : run.left[i].entries \cap run.left[j].entries # {} => i = j
  BY <1>3 DEF OnceInv, GroupsInv
<1>8. ASSUME NEW of \in ToWrite' PROVE of \in ToWrite /\ of \notin run.left[1].entries
  <2>1. PICK i \in DOMAIN Tail(run.left) : of \in Tail(run.left)[i].entries
    BY <1>1, <1>8 DEF ToWrite
  <2>2. i + 1 \in DOMAIN run.left /\ of \in run.left[i + 1].entries /\ i + 1 # 1
    BY <1>6, <2>1
  <2> QED BY <1>6, <1>7, <2>2 DEF ToWrite
<1>9. GroupsInv'
  <2>1. \A f \in Sources : (\E item \in run'.contents[f] : IsReviewComment(item)) => f \in run'.undone
    BY <1>1, <1>3 DEF OnceInv, GroupsInv
  <2>2. \A of \in ToWrite' : \E f \in Sources : \E item \in run'.contents[f] : item.kind = "comment" /\ item.of = of
    BY <1>1, <1>3, <1>8 DEF OnceInv, GroupsInv
  <2>3. ASSUME NEW i \in DOMAIN run'.left, NEW j \in DOMAIN run'.left,
               run'.left[i].entries \cap run'.left[j].entries # {}
        PROVE  i = j
    <3>1. i + 1 = j + 1 /\ i \in Nat /\ j \in Nat
      BY <1>1, <1>6, <1>7, <2>3
    <3> QED BY <3>1
  <2> QED BY <2>1, <2>2, <2>3 DEF GroupsInv
<1>10. ASSUME NEW of, of \in TypedNames, NEW f \in DOMAIN threads', of \in NamesIn(threads'[f])
       PROVE  \/ f \in DOMAIN threads /\ of \in NamesIn(threads[f])
              \/ f = GroupFile /\ of \in run.left[1].entries
  <2>1. PICK c \in threads'[f].comments : c.of = of
    BY <1>10 DEF NamesIn
  <2>2. CASE f \in DOMAIN threads /\ c \in threads[f].comments
    BY <2>1, <2>2 DEF NamesIn
  <2>3. CASE \E p \in Pullers : \E entry \in LeftOf(p) : c \in entry.thread.comments
    BY <1>10, <2>1, <2>3 DEF OnceInv, NamesInv, NamesIn
  <2>4. CASE c = Comment(Local)
    <3>1. of = Local /\ Local = <<"local", inputs>> /\ inputs \in Nat
      BY <2>1, <2>4 DEF Comment, Local, ImportInv, ImportTypeOK
    <3>2. of[2] < inputs
      BY <1>10 DEF TypedNames, LossInv, TypedInv
    <3> QED BY <3>1, <3>2
  <2>5. CASE f = GroupFile /\ \E x \in run.left[1].entries : c = Comment(x)
    BY <2>1, <2>5 DEF Comment
  <2> QED BY <2>2, <2>3, <2>4, <2>5, CommentsFrom
<1>11. \A item \in typed : item.of \in TypedNames
  BY DEF TypedNames
<1>12. ASSUME ~broken PROVE ApartInv'
  <2>1. /\ HomesApart /\ \A of \in ToWrite : ~InThreads(of)
        /\ \A f \in Sources : \A item \in source[f] : InThreads(item.of) =>
              f \in run.undone /\ item \in run.contents[f]
    BY <1>1, <1>12 DEF OnceInv, ApartInv
  <2>2. \A of \in run.left[1].entries : ~InThreads(of)
    BY <1>6, <2>1 DEF ToWrite
  <2>3. ASSUME NEW item \in typed, NEW f \in DOMAIN threads', NEW g \in DOMAIN threads',
               item.of \in NamesIn(threads'[f]), item.of \in NamesIn(threads'[g])
        PROVE  f = g
    <3>1. CASE item.of \in run.left[1].entries
      <4>1. \A h \in DOMAIN threads : item.of \notin NamesIn(threads[h])
        BY <2>2, <3>1 DEF InThreads
      <4> QED BY <1>10, <1>11, <2>3, <4>1
    <3>2. CASE item.of \notin run.left[1].entries
      <4>1. f \in DOMAIN threads /\ item.of \in NamesIn(threads[f])
        BY <1>10, <1>11, <2>3, <3>2
      <4>2. g \in DOMAIN threads /\ item.of \in NamesIn(threads[g])
        BY <1>10, <1>11, <2>3, <3>2
      <4> QED BY <2>1, <4>1, <4>2 DEF HomesApart
    <3> QED BY <3>1, <3>2
  <2>4. HomesApart'
    BY <1>2, <2>3 DEF HomesApart, NamesIn
  <2>5. ASSUME NEW of \in ToWrite' PROVE ~InThreads(of)'
    <3>1. of \in ToWrite /\ of \notin run.left[1].entries
      BY <1>8
    <3>2. PICK h \in Sources : \E item \in run.contents[h] : item.of = of
      BY <1>3, <3>1 DEF OnceInv, GroupsInv
    <3>3. of \in TypedNames
      BY <1>1, <3>2 DEF TypedNames, Extraction
    <3> SUFFICES ASSUME NEW f \in DOMAIN threads', of \in NamesIn(threads'[f]) PROVE FALSE
      BY DEF InThreads, NamesIn
    <3>4. f \in DOMAIN threads /\ of \in NamesIn(threads[f])
      BY <1>10, <3>1, <3>3
    <3> QED BY <2>1, <3>1, <3>4 DEF InThreads
  <2>6. ASSUME NEW f \in Sources, NEW item \in source[f], InThreads(item.of)'
        PROVE  f \in run.undone /\ item \in run.contents[f]
    <3>1. item \in typed /\ item.of \in TypedNames
      BY <1>11 DEF ImportInv, ImportTypeOK, RunTypeOK
    <3>2. PICK g \in DOMAIN threads' : item.of \in NamesIn(threads'[g])
      BY <2>6 DEF InThreads, NamesIn
    <3>3. CASE g \in DOMAIN threads /\ item.of \in NamesIn(threads[g])
      BY <2>1, <3>3 DEF InThreads
    <3>4. CASE item.of \in run.left[1].entries
      <4>1. PICK h \in Sources : \E other \in run.contents[h] \cap typed : other.kind = "comment" /\ other.of = item.of
        BY <3>4, FirstTyped DEF OnceInv
      <4>2. item \in run.contents[h] /\ item.kind = "comment"
        BY <3>1, <4>1 DEF LossInv, TypedInv
      <4>3. h \in run.undone
        BY <1>3, <4>2 DEF OnceInv, GroupsInv, IsReviewComment
      <4>4. item \in source[h]
        BY <1>1, <1>3, <4>2, <4>3 DEF OnceInv, FilesInv, Stale, InStage
      <4>5. h = f
        BY <4>4 DEF OnceInv, FilesInv
      <4> QED BY <4>2, <4>3, <4>5
    <3> QED BY <1>10, <3>1, <3>2, <3>3, <3>4
  <2> QED BY <1>1, <1>2, <1>3, <2>4, <2>5, <2>6 DEF ApartInv
<1> QED BY <1>2, <1>4, <1>5, <1>9, <1>12 DEF OnceInv

LEMMA InitOnce == ASSUME Init PROVE OnceInv
<1>1. /\ typed = {} /\ run = NoRun /\ source = [f \in Sources |-> {}] /\ threads = [f \in {} |-> {}]
      /\ \A p \in Pullers : LeftOf(p) = {}
  BY DEF Init, ExtractInit, DirInit, PullInit, Resting, LeftOf, At
<1>2. Stale = {} /\ ~Grouped /\ ~InStage({"lock", "write"}) /\ ~InStage({"write"})
  BY <1>1 DEF Stale, Grouped, InStage, NoRun
<1> QED BY <1>1, <1>2 DEF OnceInv, NamesInv, FilesInv, GroupsInv, ApartInv, HomesApart

LEMMA WriteGroupMoves == ASSUME ImportInv, WriteGroup PROVE run' # run
<1> DEFINE rest == Tail(run.left)
<1>1. run \in Extraction /\ run.left # <<>> /\ run'.left = rest
  BY WriteGroupOf
<1>2. Len(rest) = Len(run.left) - 1 /\ Len(run.left) \in Nat
  BY <1>1 DEF Extraction
<1> HIDE DEF rest
<1>3. rest # run.left
  BY <1>2
<1> QED BY <1>1, <1>3

LEMMA NextOnce ==
  ASSUME ImportInv, CopiesInv, LossInv, OnceInv, [Next]_allVars
  PROVE  OnceInv'
<1>1. CASE UNCHANGED extractVars \/ UNCHANGED allVars
  <2>1. run' = run /\ broken' = broken /\ source' = source
    BY <1>1 DEF extractVars, allVars
  <2> QED BY <2>1, WriteGroupMoves, OnceFrame
<1>2. CASE ExtractNext /\ Next
  <2>1. CASE Input /\ (Begin \/ Abort)
    BY <1>2, <2>1, EndOnce
  <2>2. ASSUME NEW f \in Sources, NEW kind, NEW name, Type(f, kind, name) PROVE OnceInv'
    <3>1. run' = run /\ broken' = broken
      BY <2>2 DEF Type
    <3>2. typed' = typed => source' = source
      <4>1. Local \notin TypedNames
        BY DEF TypedNames, Local, LossInv, TypedInv, ImportInv, ImportTypeOK
      <4>2. PICK item : item.of = Local /\ typed' = typed \cup {item}
        BY <2>2 DEF Type
      <4> QED BY <4>1, <4>2 DEF TypedNames
    <3> QED BY <3>1, <3>2, WriteGroupMoves, OnceFrame
  <2>3. CASE Group \/ LockDir \/ WriteGroup \/ UnlockDir \/ Finish
    BY <1>2, <2>3, GroupOnce, LockDirOnce, WriteGroupOnce, EndOnce
  <2>4. ASSUME NEW f \in Sources, ReadFile(f) \/ DeleteFile(f) PROVE OnceInv'
    BY <1>2, <2>4, ReadFileOnce, DeleteFileOnce
  <2> QED BY <1>2, <2>1, <2>2, <2>3, <2>4 DEF ExtractNext
<1> QED BY <1>1, <1>2 DEF Next, OtherCommand

LEMMA OnceInvariance == Spec => [](ImportInv /\ CopiesInv /\ LossInv /\ OnceInv)
<1>1. Init => LossInv /\ OnceInv
  BY InitLoss, InitOnce
<1>2. ImportInv /\ CopiesInv /\ LossInv /\ OnceInv /\ [Next]_allVars => (LossInv /\ OnceInv)'
  BY NextLoss, NextOnce
<1> QED BY <1>1, <1>2, CopiesInvariance, PTL DEF Spec

(* A typed comment is in at most one thread, and once an extraction has    *)
(* ended it is in a thread or in the sources, not in both, as long as no   *)
(* extraction has stopped half-way (Run, WriteThreadFilesTo).              *)
THEOREM ExtractTakesOnce == Spec => []ExtractedOnce
<1>1. ImportInv /\ LossInv /\ OnceInv => ExtractedOnce
  <2> SUFFICES ASSUME ImportInv, LossInv, OnceInv, ~broken, NEW item \in typed
               PROVE  LET homes == {f \in DOMAIN threads : item.of \in NamesIn(threads[f])}
                      IN  /\ Cardinality(homes) <= 1
                          /\ homes # {} /\ InStage({"idle"}) => ~InSources(item.of)
    BY DEF ExtractedOnce
  <2> DEFINE homes == {f \in DOMAIN threads : item.of \in NamesIn(threads[f])}
  <2>1. \A f, g \in homes : f = g
    BY DEF OnceInv, ApartInv, HomesApart
  <2>2. Cardinality(homes) <= 1
    <3>1. CASE homes = {}
      BY <3>1, FS_EmptySet
    <3>2. CASE homes # {}
      <4>1. PICK f \in homes : homes = {f}
        BY <2>1, <3>2
      <4> HIDE DEF homes
      <4>2. IsFiniteSet(homes) /\ \E x : homes = {x}
        BY <4>1, FS_Singleton
      <4>3. Cardinality(homes) = 1
        BY <4>2, FS_Singleton
      <4> QED BY <4>3
    <3> QED BY <3>1, <3>2
  <2>3. ASSUME homes # {}, InStage({"idle"}), InSources(item.of) PROVE FALSE
    <3>1. PICK f \in Sources : item.of \in {i.of : i \in source[f]}
      BY <2>3 DEF InSources
    <3>2. PICK i \in source[f] : i.of = item.of
      BY <3>1
    <3>3. i = item
      BY <3>2 DEF LossInv, TypedInv, ImportInv, ImportTypeOK, RunTypeOK
    <3>4. InThreads(item.of)
      BY <2>3 DEF InThreads
    <3>5. InStage({"write", "delete"})
      BY <3>2, <3>3, <3>4 DEF OnceInv, ApartInv
    <3> QED BY <2>3, <3>5 DEF InStage
  <2> HIDE DEF homes
  <2> QED BY <2>2, <2>3 DEF homes
<1> QED BY <1>1, OnceInvariance, PTL

=============================================================================
