------------------------------ MODULE ExtractRun ------------------------------
(***************************************************************************)
(* `nota extract --dir`: the review comments of the source files become    *)
(* threads and are then deleted from the files (pkg/extract/extract.go,    *)
(* pkg/grouper/grouper.go).  The files are read one by one by parallel     *)
(* workers, and written back, less the comments, from what was read.       *)
(*                                                                         *)
(* A file is a set of items: comments, with or without a group, references *)
(* (@see, @also) to a group, and code.  What SourceEdit says of bytes is   *)
(* taken for granted here.                                                 *)
(***************************************************************************)
EXTENDS SharedDir, SequencesExt

CONSTANTS
    Sources,    \* source files
    Extractor,  \* the process that extracts
    NoGroup,    \* the name of a comment without a group
    MaxTyped    \* bound on the items typed

ASSUME ExtractAssumption ==
    Extractor # Nobody /\ NoGroup \notin Groups /\ MaxTyped \in Nat

VARIABLES
    source,   \* source[f]: the items of f
    run,      \* how far the extraction is
    typed,    \* history: every item that was typed
    replaced, \* history: comments whose group's thread was written over
    broken    \* history: an extraction stopped after it had written a thread

extractVars == <<source, run, typed, replaced, broken>>

NoRun == [stage |-> "idle"]

ExtractInit ==
    /\ source = [f \in Sources |-> {}]
    /\ run = NoRun
    /\ typed = {}
    /\ replaced = {}
    /\ broken = FALSE

InStage(stages) == run.stage \in stages

IsReviewComment(item) == item.kind \in {"comment", "reference"}

HasReviewComments(f) == \E item \in run.contents[f] : IsReviewComment(item)

(* Files that the extraction has read, and has still to write.             *)
Stale == IF InStage({"read"}) THEN {f \in DOMAIN run.contents : HasReviewComments(f)}
         ELSE IF InStage({"lock", "write", "delete"}) THEN run.undone ELSE {}

(* A user types an item into a file.                                       *)
Type(f, kind, name) ==
    LET item == [of |-> Local, kind |-> kind, name |-> name]
    IN  /\ Cardinality(typed) < MaxTyped
        /\ source' = [source EXCEPT ![f] = @ \cup {item}]
        /\ typed' = typed \cup {item}
        /\ exposed' = IF f \in Stale THEN exposed \cup {Local} ELSE exposed
        /\ UNCHANGED <<run, replaced, broken, dirVars>>

-----------------------------------------------------------------------------
(* ProcessFiles and GroupComments.                                         *)

Begin ==
    /\ InStage({"idle"})
    /\ run' = [stage |-> "read", contents |-> [f \in {} |-> {}]]
    /\ UNCHANGED <<source, typed, replaced, broken, dirVars, exposed>>

(* processFile, by a worker; a file that cannot be read or decoded is      *)
(* skipped.                                                                *)
ReadFile(f) ==
    /\ InStage({"read"})
    /\ f \notin DOMAIN run.contents
    /\ \E items \in {source[f], {}} : run' = [run EXCEPT !.contents =
                  [g \in DOMAIN @ \cup {f} |-> IF g = f THEN items ELSE @[g]]]
    /\ UNCHANGED <<source, typed, replaced, broken, dirVars>>

(* The groups: named ones in the order of their names, then one group for  *)
(* each other comment.  A reference goes with its group, and nowhere when  *)
(* the run has no comment of that group.                                   *)
GroupComments(items) ==
    LET comments == {item \in items : item.kind = "comment"}
        Members(name) == {item.of : item \in {i \in comments : i.name = name}}
        References(name) == {item.of : item \in {i \in items : i.kind = "reference" /\ i.name = name}}
        named == {item.name : item \in comments} \ {NoGroup}
        Group(name) == [name |-> name, entries |-> Members(name), refs |-> References(name)]
        Single(of) == [name |-> NoGroup, entries |-> {of}, refs |-> {}]
    IN  [names |-> SetToSeq({Group(name) : name \in named}),
         singles |-> SetToSeq({Single(of) : of \in Members(NoGroup)})]

(* What GroupComments returns goes to WriteThreadFilesTo; the files that   *)
(* have review comments are to be written back.                            *)
Group ==
    /\ InStage({"read"})
    /\ DOMAIN run.contents = Sources
    /\ LET groups == GroupComments(UNION {run.contents[f] : f \in Sources})
       IN  run' = [stage |-> "lock", contents |-> run.contents, number |-> 0,
                   left |-> groups.names \o groups.singles,
                   undone |-> {f \in Sources : HasReviewComments(f)}]
    /\ UNCHANGED <<source, typed, replaced, broken, dirVars>>

-----------------------------------------------------------------------------
(* WriteThreadFilesTo.                                                     *)

LockDir ==
    /\ InStage({"lock"})
    /\ lock = Nobody
    /\ lock' = Extractor
    /\ run' = [run EXCEPT !.stage = "write", !.number = NextNumber]
    /\ UNCHANGED <<source, typed, replaced, broken, directory>>

(* groupToThread and WriteThread: a named group's thread is put over the   *)
(* one that was there.                                                     *)
WriteGroup ==
    /\ InStage({"write"})
    /\ run.left # <<>>
    /\ LET group == Head(run.left)
           named == group.name # NoGroup
           file == IF named THEN group.name ELSE NewFile
           thread == Thread(IF named THEN 0 ELSE run.number, Nobody,
                            {Comment(of) : of \in group.entries})
           old == IF file \in DOMAIN threads THEN NamesIn(threads[file]) ELSE {}
       IN  /\ threads' = Written(file, thread)
           /\ files' = IF named THEN files ELSE NewFile
           /\ replaced' = replaced \cup (old \ group.entries)
           /\ run' = [run EXCEPT !.left = Tail(@), !.number = IF named THEN @ ELSE @ + 1]
    /\ UNCHANGED <<source, typed, broken, lock, removed, revived>>

UnlockDir ==
    /\ InStage({"write"})
    /\ run.left = <<>>
    /\ lock' = Nobody
    /\ run' = [run EXCEPT !.stage = "delete"]
    /\ UNCHANGED <<source, typed, replaced, broken, directory>>

-----------------------------------------------------------------------------
(* DeleteFromFiles.                                                        *)

(* Mutant of DeleteFile: the comments go before the threads are written.   *)
DeleteFileEarly(f) ==
    /\ InStage({"lock", "write", "delete"})
    /\ f \in run.undone
    /\ source' = [source EXCEPT ![f] = {item \in run.contents[f] : ~IsReviewComment(item)}]
    /\ run' = [run EXCEPT !.undone = @ \ {f}]
    /\ UNCHANGED <<typed, replaced, broken, dirVars>>

(* Mutant of DeleteFile: the first file ends the loop.                     *)
DeleteFileOnly(f) ==
    /\ InStage({"delete"})
    /\ f \in run.undone
    /\ source' = [source EXCEPT ![f] = {item \in run.contents[f] : ~IsReviewComment(item)}]
    /\ run' = [run EXCEPT !.undone = {}]
    /\ UNCHANGED <<typed, replaced, broken, dirVars>>

(* The files in any order, each replaced by what was read of it, without   *)
(* its review comments.                                                    *)
DeleteFile(f) ==
    /\ InStage({"delete"})
    /\ f \in run.undone
    /\ source' = [source EXCEPT ![f] = {item \in run.contents[f] : ~IsReviewComment(item)}]
    /\ run' = [run EXCEPT !.undone = @ \ {f}]
    /\ UNCHANGED <<typed, replaced, broken, dirVars>>

Finish ==
    /\ InStage({"delete"})
    /\ run.undone = {}
    /\ run' = NoRun
    /\ UNCHANGED <<source, typed, replaced, broken, dirVars>>

(* An error, or the end of the process.                                    *)
Abort ==
    /\ ~InStage({"idle"})
    /\ run' = NoRun
    /\ lock' = IF lock = Extractor THEN Nobody ELSE lock
    /\ broken' = (broken \/ InStage({"write", "delete"}))
    /\ UNCHANGED <<source, typed, replaced, directory, exposed>>

ExtractNext ==
    \/ Input /\ (Begin \/ Abort)
    \/ Input /\ \E f \in Sources :
            \/ \E kind \in {"comment", "code"} : Type(f, kind, NoGroup)
            \/ \E kind \in {"comment", "reference"}, name \in Groups : Type(f, kind, name)
    \/ (Group \/ LockDir \/ WriteGroup \/ UnlockDir \/ Finish) /\ UNCHANGED <<inputs, exposed>>
    \/ (\E f \in Sources : ReadFile(f) \/ DeleteFile(f)) /\ UNCHANGED <<inputs, exposed>>

-----------------------------------------------------------------------------
(* Properties.                                                             *)

InSources(of) == \E f \in Sources : of \in {item.of : item \in source[f]}

(* What a user typed is in a source file, or in a thread if it is a        *)
(* comment, wherever extractions fail or die: except what was typed into   *)
(* a file while an extraction held the contents it then wrote back,        *)
(* comments whose group was extracted again (DeleteFromFiles,              *)
(* WriteThreadFilesTo), and those whose thread a user removed.             *)
NothingLost ==
    \A item \in typed :
        \/ InSources(item.of)
        \/ item.kind = "comment" /\ item.of \in {c.of : c \in AllComments}
        \/ item.kind = "reference"
        \/ item.of \in exposed \cup replaced \cup removed

(* A comment becomes one thread's, and is out of the sources once the run  *)
(* that took it has ended, unless a run stopped half-way (Run).            *)
ExtractedOnce ==
    ~broken => \A item \in typed :
        LET homes == {f \in DOMAIN threads : item.of \in NamesIn(threads[f])}
        IN  /\ Cardinality(homes) <= 1
            /\ homes # {} /\ InStage({"idle"}) => ~InSources(item.of)
=============================================================================
