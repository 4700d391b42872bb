--------------------------- MODULE MCNodeStatus ---------------------------
(* Small instances of NodeStatus for TLC.                                  *)
EXTENDS NodeStatus, TLC

CONSTANTS mine, foreign, unknown

OneMine == {mine}
OneForeign == {foreign}
OneUnknown == {unknown}
NoContainers == {}

Of(id, s) == [id |-> id, state |-> s]
Report(isReady, l) == [ready |-> isReady, containers |-> l]

\* A node that is not ready and lists nothing, one whose container runs, one
\* that lists it twice with an unknown one between, and one that lists it
\* before a container of another node.
FourContents ==
    { Report(FALSE, <<>>),
      Report(TRUE, << Of(mine, "running") >>),
      Report(TRUE, << Of(mine, "exited"), Of(unknown, "running"), Of(mine, "pending") >>),
      Report(TRUE, << Of(mine, "running"), Of(foreign, "running") >>) }
OnlyEmpty == { Report(isReady, <<>>) : isReady \in BOOLEAN }
============================================================================
