-------------------------------- MODULE Cutover --------------------------------
(***************************************************************************)
(* What `orc project migrate` promises (docs/configuration.md, the header  *)
(* of lib/projectMigration.ts), whatever it takes to keep the promise: an  *)
(* installation and its project are never both in use, the project appears *)
(* at once, with one whole version of the installation in it, and from     *)
(* then on its tasks only gain revisions.                                  *)
(***************************************************************************)
EXTENDS Naturals, Sequences

CONSTANTS
    Tasks,       \* task refs
    MaxVersions  \* bound: versions of the legacy installation

VARIABLES
    authority,  \* who is in use: the legacy installation or the project
    source,     \* the installation's version
    content     \* what a reader of the project finds

abstract == <<authority, source, content>>

\* Before the cutover there is no project to read.
Nothing == [tasks |-> [t \in Tasks |-> <<>>], history |-> {}, settings |-> {}]

\* Version v of the installation, whole: each task as its first revision.
Snapshot(v) == [tasks    |-> [t \in Tasks |-> <<[body |-> v, previous |-> 0]>>],
                history  |-> {v},
                settings |-> {v}]

Init == authority = "legacy" /\ source = 0 /\ content = Nothing

EditSource ==
    /\ authority = "legacy" /\ source < MaxVersions
    /\ source' = source + 1
    /\ UNCHANGED <<authority, content>>

CutOver ==
    /\ authority = "legacy"
    /\ authority' = "project"
    /\ \E v \in 0 .. source : content' = Snapshot(v)
    /\ UNCHANGED source

Extends(new, old) == Len(new) > Len(old) /\ SubSeq(new, 1, Len(old)) = old

EditProject ==
    /\ authority = "project"
    /\ content' = [content EXCEPT !.tasks = content'.tasks]
    /\ \A t \in Tasks : content'.tasks[t] = content.tasks[t] \/ Extends(content'.tasks[t], content.tasks[t])
    /\ UNCHANGED <<authority, source>>

Next == EditSource \/ CutOver \/ EditProject

Spec == Init /\ [][Next]_abstract

=============================================================================
