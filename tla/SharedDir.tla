------------------------------ MODULE SharedDir ------------------------------
(***************************************************************************)
(* The thread directory as the importers see it: what `nota sync pull`     *)
(* (PullSync) and `nota extract` (ExtractRun) write into, beside the other *)
(* commands.  A locked command of another process is one step here, and    *)
(* the lock excludes: ThreadStoreProofs shows the first for as long as     *)
(* the second holds, and DirLock when it does not.                         *)
(***************************************************************************)
EXTENDS Integers, Sequences, FiniteSets, FiniteSetsExt, Functions

CONSTANTS
    Groups,     \* names of groups; extract writes group g to g.xml
    MaxInputs,  \* bound on what users and the remote side do
    Nobody      \* nobody holds the lock / no remote thread

(* The file of a thread with a number is itself a number here: its name    *)
(* has a random id in it, so it is no group's.                             *)
ASSUME SharedAssumption ==
    /\ MaxInputs \in Nat
    /\ Nobody \notin Groups
    /\ (Groups \cup {Nobody}) \cap Nat = {}

VARIABLES
    threads,  \* a function from the files there are to their threads
    files,    \* how many files with a number there have been
    lock,     \* the importer that holds the directory lock, or Nobody
    inputs,   \* how many inputs there have been
    exposed,  \* history: what was typed where an importer was to write over it
    removed,  \* history: the comments of the threads that users have removed
    revived   \* history: files that an importer wrote back after their removal

directory == <<threads, files, removed, revived>>

dirVars == <<directory, lock>>

DirInit ==
    /\ threads = [f \in {} |-> {}]
    /\ files = 0
    /\ lock = Nobody
    /\ inputs = 0
    /\ exposed = {}
    /\ removed = {}
    /\ revived = {}

(* A user or the remote side does something.                               *)
Input == inputs < MaxInputs /\ inputs' = inputs + 1

(* Something typed, which is the only one with this name.                  *)
Local == <<"local", inputs>>

-----------------------------------------------------------------------------
(* Comments and threads.                                                   *)

(* A comment has all its bodies, and the time of the remote comment that   *)
(* it is synchronised with.                                                *)
Comment(of) == [of |-> of, bodies |-> <<0>>, updated |-> 0]

Thread(number, remote, comments) ==
    [number |-> number, remote |-> remote, comments |-> comments]

NamesIn(thread) == {c.of : c \in thread.comments}

AllComments == UNION {threads[f].comments : f \in DOMAIN threads}

(* The file of a new thread: Filename has the thread's random id in it, so *)
(* it is not that of a thread there has been.                              *)
NewFile == 1 + files

(* NextNumber.                                                             *)
NextNumber == 1 + Max({0} \cup {threads[f].number : f \in DOMAIN threads})

(* WriteThread.                                                            *)
Written(file, thread) ==
    [f \in DOMAIN threads \cup {file} |-> IF f = file THEN thread ELSE threads[f]]

-----------------------------------------------------------------------------
(* Other commands.                                                         *)

Create ==
    /\ lock = Nobody
    /\ threads' = Written(NewFile, Thread(NextNumber, Nobody, {Comment(Local)}))
    /\ files' = NewFile
    /\ UNCHANGED <<lock, exposed, removed, revived>>

(* AddComment; `copied` are the files that an importer has read and is     *)
(* about to write.                                                         *)
AddComment(copied) ==
    \E f \in DOMAIN threads :
        /\ lock = Nobody
        /\ threads' = [threads EXCEPT ![f].comments = @ \cup {Comment(Local)}]
        /\ exposed' = IF f \in copied THEN exposed \cup {Local} ELSE exposed
        /\ UNCHANGED <<lock, files, removed, revived>>

(* `rm` of a thread, which asks for no lock.                               *)
RemoveThread(f) ==
    /\ f \in DOMAIN threads
    /\ threads' = Restrict(threads, DOMAIN threads \ {f})
    /\ removed' = removed \cup NamesIn(threads[f])
    /\ UNCHANGED <<files, lock, exposed, revived>>

-----------------------------------------------------------------------------
(* Properties.                                                             *)

(* "so a pulled, created, and extracted thread can never collide on        *)
(* number" (extract.go:298), whoever dies or fails half-way.  Except that  *)
(* a pull writes back a thread that was removed since it read the          *)
(* directory (writeThreads): its number may have been given out again.     *)
NumbersApart ==
    \A f, g \in DOMAIN threads \ revived :
        f # g => threads[f].number # threads[g].number \/ threads[f].number = 0
=============================================================================
