------------------------------ MODULE MCImport ------------------------------
(***************************************************************************)
(* Both importers on one directory, beside other commands.                 *)
(***************************************************************************)
EXTENDS PullSync, ExtractRun, TLC

CONSTANTS
    MaxMixed,      \* bound on the inputs of a behaviour with both importers
    MaxExtracting  \* bound on the inputs of one with an extraction

ASSUME ImportAssumption == Extractor \notin Pullers

allVars == <<dirVars, inputs, exposed, pullVars, extractVars>>

Init == DirInit /\ PullInit /\ ExtractInit

OtherCommand ==
    /\ Input
    /\ \/ Create /\ UNCHANGED pullVars
       \/ AddComment(UNION {Copied(p) : p \in Pullers}) /\ UNCHANGED pullVars
       \/ \E f \in DOMAIN threads : RemoveThread(f) /\ Forget(f)
    /\ UNCHANGED extractVars

Next ==
    \/ PullNext /\ UNCHANGED extractVars
    \/ ExtractNext /\ UNCHANGED pullVars
    \/ OtherCommand

Spec == Init /\ [][Next]_allVars

Pulling == Everything # {} \/ \E p \in Pullers : ~At(p, "idle")

Extracting == typed # {} \/ ~InStage({"idle"})

Bounded ==
    /\ Extracting => inputs <= MaxExtracting
    /\ Pulling /\ Extracting => inputs <= MaxMixed

Symmetry == Permutations(Sources) \cup Permutations(Pullers)
=============================================================================
