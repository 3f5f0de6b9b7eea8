---------------------- MODULE MCStreamingToolExecutor ----------------------
(***************************************************************************)
(* Instances of StreamingToolExecutor for TLC.                             *)
(***************************************************************************)
EXTENDS StreamingToolExecutor

Read == [known |-> TRUE, safe |-> TRUE, bash |-> FALSE]
BashRead == [known |-> TRUE, safe |-> TRUE, bash |-> TRUE]
BashWrite == [known |-> TRUE, safe |-> FALSE, bash |-> TRUE]
NoSuchTool == [known |-> FALSE, safe |-> TRUE, bash |-> FALSE]

MixedKinds == {BashRead, BashWrite, NoSuchTool}
AllKinds == {Read, BashRead, BashWrite, NoSuchTool}
KnownKinds == {Read, BashRead, BashWrite}
=============================================================================
