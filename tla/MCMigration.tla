------------------------------ MODULE MCMigration ------------------------------
(* One migrator, then two editors and a coordinator on the project.        *)
EXTENDS Migration

\* One process dies, before the cutover or after it.
OneDeath == crashes + stops <= 1

\* A project that is edited comes from a migration nothing disturbed.
Undisturbed == legacy = 0 /\ crashes = 0 /\ lock = [l \in Places |-> "none"] /\ \A m \in Migrators : pc[m] = "idle"
Untouched == edit = [e \in Editors |-> NoEdit] /\ \A t \in Tasks : Latest(t) <= 1

\* So many revisions in all after the imported ones.
Edits(n) == \A t, u \in Tasks : t # u => Latest(t) + Latest(u) <= 2 + n

\* Two editors that meet, with nothing else going on, or one whose task is
\* claimed, or who finds the coordinator gone, before its first edit or after it.
TwoEditors == stops = 0 /\ bound = [r \in Runs |-> NoRevision] /\ Edits(2)
OneEditor == Edits(1) /\ \A e \in Editors : e = (CHOOSE f \in Editors : TRUE) \/ (edit[e] = NoEdit /\ after[e] = Free)

Bounds == OneDeath /\ (Untouched \/ (Undisturbed /\ (TwoEditors \/ OneEditor)))

=============================================================================
