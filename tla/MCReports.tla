----------------------------- MODULE MCReports -----------------------------
(***************************************************************************)
(* The sets of events an executor may report, for the instances TLC        *)
(* checks.  Each picks the events one question needs, so that the state    *)
(* space stays small.                                                      *)
(***************************************************************************)
EXTENDS TaskTypes

CONSTANT a1

\* A turn that asks for credentials and then goes on to complete.
AuthReports ==
    {StatusUpdate("Working", FALSE), StatusUpdate("AuthRequired", TRUE),
     StatusUpdate("Completed", TRUE)}

\* A chat: the agent asks for input, or just answers.
ChatReports ==
    {StatusUpdate("Working", FALSE), StatusUpdate("InputRequired", TRUE),
     BareMessage}

\* The events that shape the record: a question, chunks, completion.
RecordReports ==
    {StatusUpdate("InputRequired", TRUE), StatusUpdate("Completed", FALSE),
     ArtifactUpdate(a1, TRUE), ArtifactUpdate(a1, FALSE)}

\* Nothing but progress.
ProgressReports == {StatusUpdate("Working", FALSE)}
=============================================================================
