---------------------------- MODULE MCAlgorithms ----------------------------
(* The three algorithms on the text of a file, checked in one run: a walk  *)
(* through git histories, and beside it one through source files for the   *)
(* deletion of comments and one for the scanner.                           *)
EXTENDS LineTrace, SourceEdit, CommentScanner

MCChanges == <<2, 1, 1>>

MCDashes == {<<0, 2>>, <<1, 0>>}

MCPluses == {<<1, 1>>, <<1, 2>>}

MCNulls == {<<1, 0>>, <<1, 2>>}

Piece(kind, text) == [kind |-> kind, text |-> text]

Newline == Piece("code", <<"nl">>)

MCPieces ==
    [Rust |->
        {Newline, Piece("code", <<"cr", "nl">>), Piece("code", <<"wide">>),
         Piece("line", <<"/", "/", "dq">>), Piece("line", <<"/", "/", "/", "*">>),
         Piece("multi", <<"/", "*", "*", "/">>),
         Piece("multi", <<"/", "*", "/", "nl", "dq", "*", "/">>),
         Piece("code", <<"dq", "/", "/", "dq">>),
         Piece("code", <<"dq", "bs", "dq", "/", "*", "dq">>),
         Piece("code", <<"dq", "bs", "bs", "dq">>)},
     SQL |->
        {Newline, Piece("code", <<"x">>), Piece("line", <<"-", "-", "sq">>),
         Piece("multi", <<"/", "*", "nl", "*", "/">>),
         Piece("code", <<"sq", "-", "-", "sq">>), Piece("code", <<"dq", "dq">>),
         Piece("code", <<"sq", "sq", "sq", "/", "*", "sq">>)},
     OCaml |->
        {Newline, Piece("multi", <<"(", "*", "dq", "*", ")">>),
         Piece("multi", <<"(", "*", "(", "*", "nl", "*", ")", "x", "*", ")">>),
         Piece("multi", <<"(", "*", "(", "*", "*", ")", "*", ")">>),
         Piece("code", <<"dq", "(", "*", "dq">>), Piece("code", <<"sq", "bs", "sq", "sq">>)},
     Perl |->
        {Newline, Piece("code", <<"x">>), Piece("code", <<" ", "=">>), Piece("line", <<"#">>),
         Piece("line", <<"#", "=", "wide">>), Piece("code", <<"sq", "#", "sq">>),
         Piece("column", <<"=", "nl", "x", "=", "c", "u", "t", "nl", "=", "c", "u", "t">>)},
     Python |->
        {Newline, Piece("code", <<" ">>), Piece("line", <<"#", "x">>),
         Piece("code", <<"dq", "dq", "x">>), Piece("code", <<"x", "sq", "dq", "sq">>),
         Piece("multi", <<"dq", "dq", "dq", "#", "dq", "nl", "dq", "dq", "dq">>)},
     VimScript |->
        {Newline, Piece("code", <<"cr", "nl">>), Piece("line", <<"dq", "x", "sq">>),
         Piece("code", <<"dq", "sq", "dq">>), Piece("code", <<"dq", "bs", "dq", "x", "dq">>),
         Piece("code", <<"sq", "dq", "sq">>)},
     IgnoreList |->
        {Newline, Piece("code", <<" ">>), Piece("line", <<"#", "x">>),
         Piece("code", <<"x", "#", "nl">>)}]

allVars == <<traceVars, sourceVars, scanVars>>

Unwalked == traces = 0 /\ comment = <<>> /\ head = 1 /\ Len(commits) = 1
                /\ tree = commits[1].lines /\ home = <<0, 1>> /\ anchors[1].hash = NoHash

Unscanned == scan.in = "typing" /\ file = <<>>

(* The walks of the other two do not depend on lang: SQL stands for all.     *)
Init ==
    /\ TraceInit
    /\ SourceInit
    /\ ScannerInit

Next ==
    \/ typed = 0 /\ Unscanned /\ lang = "SQL" /\ TraceNext /\ UNCHANGED <<sourceVars, scanVars>>
    \/ Unwalked /\ Unscanned /\ lang = "SQL" /\ SourceNext /\ UNCHANGED <<traceVars, scanVars>>
    \/ Unwalked /\ typed = 0 /\ ScannerNext /\ UNCHANGED <<traceVars, sourceVars>>

Spec == Init /\ [][Next]_allVars
=============================================================================
