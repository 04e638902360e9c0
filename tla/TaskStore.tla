------------------------------- MODULE TaskStore -------------------------------
(***************************************************************************)
(* A project's task definitions: runtime.db keeps every revision of every  *)
(* task (lib/projectTaskStore.ts), editors create, edit and import them    *)
(* (lib/projectTasks.ts, lib/taskMarkdown.ts, the MCP tools and the CLI),  *)
(* and a run is bound to the revision that was the latest when it was      *)
(* claimed.  A write goes to the running coordinator, or is applied by the *)
(* editor's own process when there is none (lib/projectWriteDispatch.ts).  *)
(* What a commit leaves to do, its events and the backlog.json projection, *)
(* is done after it, by the process that made it, if that process lives.   *)
(*                                                                         *)
(* A body stands for everything a revision pins: title, Markdown, metadata *)
(* and dependencies.  Who may claim a task, and what becomes of the run,   *)
(* is RunLifecycle's.                                                      *)
(***************************************************************************)
EXTENDS Integers, Sequences, FiniteSets

CONSTANTS
    Tasks,         \* task refs
    Editors,       \* processes that edit tasks: CLI calls and MCP servers
    Bodies,        \* what a revision may say
    Runs,          \* runs that may be bound to a revision
    MaxRevisions,  \* bound: revisions of a task
    MaxStops,      \* bound: processes that stop or die
    NoTask

ASSUME StoreAssumption == NoTask \notin Tasks /\ IsFiniteSet(Tasks)
ASSUME StoreBounds == MaxRevisions \in Nat /\ MaxStops \in Nat

VARIABLES
    spec,    \* task_spec_revisions: the revisions of each task, none if it does not exist
    status,  \* tasks.status
    bound,   \* task_runs: the task and revision of each run
    told,    \* how often each revision was announced (task_added, task_updated)
    shown,   \* backlog.json: the revision it shows of each task
    coord,   \* the project's coordinator
    edit,    \* what each editor is about
    after,   \* what each process has left to do after its commit
    stops    \* processes stopped so far

store == <<spec, status, bound, told, shown, coord, edit, after, stops>>

Coordinator == "coordinator"
Processes == Editors \cup {Coordinator}
Numbers == 1 .. MaxRevisions

NoEdit == [at |-> "idle", kind |-> "write", files |-> {}, base |-> [t \in Tasks |-> 0], body |-> NoTask]
Free == [step |-> "none", news |-> {}, seen |-> [t \in Tasks |-> 0]]
NoRevision == [task |-> NoTask, revision |-> 0]

StoreInit ==
    /\ spec = [t \in Tasks |-> <<>>]
    /\ status = [t \in Tasks |-> "todo"]
    /\ bound = [r \in Runs |-> NoRevision]
    /\ told = [t \in Tasks |-> [i \in Numbers |-> 0]]
    /\ shown = [t \in Tasks |-> 0]
    /\ coord = "down"
    /\ edit = [e \in Editors |-> NoEdit]
    /\ after = [p \in Processes |-> Free]
    /\ stops = 0

Exists(t) == spec[t] # <<>>
Latest(t) == Len(spec[t])

-----------------------------------------------------------------------------
(* An editor reads and decides.                                            *)

\* orc project task create or edit, create_task, update_task: one task, on
\* the revision the editor has read, 0 to create it.
Drafts(e, t, b) ==
    /\ edit[e].at = "idle" /\ Latest(t) < MaxRevisions
    /\ edit' = [edit EXCEPT ![e] = [at |-> "asking", kind |-> "write", files |-> {t},
                  base |-> [NoEdit.base EXCEPT ![t] = Latest(t)], body |-> b]]
    /\ UNCHANGED <<spec, status, bound, told, shown, coord, after, stops>>

\* An exported file names the revision it was rendered from, ...
exportTaskMarkdown(t) == Latest(t)

\* ... and one that was written by hand none.
parseTaskMarkdown(t, exported) == IF exported THEN exportTaskMarkdown(t) ELSE 0

\* orc project task import; a file that does not parse refuses it as a whole.
readTaskMarkdownSources(e, files, b) ==
    /\ edit[e].at = "idle" /\ \A t \in files : Latest(t) < MaxRevisions
    /\ \E exported \in BOOLEAN :
          edit' = [edit EXCEPT ![e] = [at |-> "asking", kind |-> "import", files |-> files,
                     base |-> [t \in Tasks |-> parseTaskMarkdown(t, exported /\ t \in files)], body |-> b]]
    /\ UNCHANGED <<spec, status, bound, told, shown, coord, after, stops>>

-----------------------------------------------------------------------------
(* The write, in one transaction.                                          *)

\* The revision an edit expects: an import without one takes the latest.
expectedRevision(d, t) ==
    IF d.kind = "import" /\ d.base[t] = 0 THEN Latest(t) ELSE d.base[t]

\* Mutant: an edit is not asked which revision it was made on.
NeverStale(d, t) == FALSE

\* An edit that changes nothing is never refused.
RevisionConflict(d, t) ==
    /\ Exists(t)
    /\ \/ d.kind = "write" /\ d.base[t] = 0
       \/ d.body # spec[t][Latest(t)].body /\ expectedRevision(d, t) # Latest(t)

Refused(d) ==
    \E t \in d.files : RevisionConflict(d, t) \/ (~Exists(t) /\ d.kind = "write" /\ d.base[t] # 0)

Changed(d) == {t \in d.files : ~Exists(t) \/ d.body # spec[t][Latest(t)].body}

insertRevision(s, row) == Append(s, row)

\* Mutant: every file's event is on its way before the next file is looked at.
AnnouncesAtOnce(d) == {<<t, Latest(t) + 1>> : t \in {u \in Changed(d) : ~RevisionConflict(d, u)}}

\* withTaskAuthoringBatch: events wait for the commit.
pendingNotifications(d) == IF Refused(d) THEN {} ELSE {<<t, Latest(t) + 1>> : t \in Changed(d)}

\* createProjectTask, reviseProjectTask and importTaskMarkdownSources, by
\* process p: all files or none.
Applies(p, d) ==
    /\ after[p] = Free
    /\ spec' = [t \in Tasks |->
                  IF ~Refused(d) /\ t \in Changed(d)
                  THEN insertRevision(spec[t], [body |-> d.body, previous |-> expectedRevision(d, t)])
                  ELSE spec[t]]
    /\ after' = IF pendingNotifications(d) = {} THEN after
                ELSE [after EXCEPT ![p] = [Free EXCEPT !.step = "emit", !.news = pendingNotifications(d)]]
    /\ UNCHANGED <<status, bound, told, shown, stops>>

\* The bound on revisions.
Fits(d) == Refused(d) \/ \A t \in d.files : Latest(t) < MaxRevisions

\* The coordinator applies the request; an answer that does not come back in
\* time leaves the editor to ask again, for the same edit.
AppliesForClient(e) ==
    /\ edit[e].at = "asking" /\ coord = "up" /\ Fits(edit[e])
    /\ Applies(Coordinator, edit[e])
    /\ edit' \in {edit, [edit EXCEPT ![e] = NoEdit]}
    /\ UNCHANGED coord

\* Nobody answered and no live coordinator holds the pid lock.
routeToCoordinator(e) ==
    /\ edit[e].at = "asking" /\ coord = "down"
    /\ edit' = [edit EXCEPT ![e].at = "direct"]
    /\ UNCHANGED <<spec, status, bound, told, shown, coord, after, stops>>

AppliesDirectly(e) ==
    /\ edit[e].at = "direct" /\ Fits(edit[e])
    /\ Applies(e, edit[e])
    /\ edit' = [edit EXCEPT ![e] = NoEdit]
    /\ UNCHANGED coord

\* The edit is dropped.
GivesUp(e) ==
    /\ edit[e].at # "idle"
    /\ edit' = [edit EXCEPT ![e] = NoEdit]
    /\ UNCHANGED <<spec, status, bound, told, shown, coord, after, stops>>

-----------------------------------------------------------------------------
(* After the commit.                                                       *)

\* notify: one event after the other, then the projection.
notify(p) ==
    /\ after[p].step = "emit"
    /\ \E x \in after[p].news :
          /\ told' = [told EXCEPT ![x[1]][x[2]] = @ + 1]
          /\ after' = [after EXCEPT ![p].news = @ \ {x},
                                    ![p].step = IF after[p].news = {x} THEN "read" ELSE "emit"]
    /\ UNCHANGED <<spec, status, bound, shown, coord, edit, stops>>

readProjectBacklog(p) ==
    /\ after[p].step = "read"
    /\ after' = [after EXCEPT ![p] = [@ EXCEPT !.step = "write", !.seen = [t \in Tasks |-> Latest(t)]]]
    /\ UNCHANGED <<spec, status, bound, told, shown, coord, edit, stops>>

refreshBacklogProjection(p) ==
    /\ after[p].step = "write"
    /\ shown' = after[p].seen
    /\ after' = [after EXCEPT ![p] = Free]
    /\ UNCHANGED <<spec, status, bound, told, coord, edit, stops>>

-----------------------------------------------------------------------------
(* The coordinator.                                                        *)

\* claimTask binds the run to the latest revision.
claimTask(r, t) ==
    /\ coord = "up" /\ after[Coordinator] = Free
    /\ Exists(t) /\ status[t] = "todo" /\ bound[r] = NoRevision
    /\ status' = [status EXCEPT ![t] = "claimed"]
    /\ bound' = [bound EXCEPT ![r] = [task |-> t, revision |-> Latest(t)]]
    /\ after' = [after EXCEPT ![Coordinator] = [Free EXCEPT !.step = "read"]]
    /\ UNCHANGED <<spec, told, shown, coord, edit, stops>>

\* The run ends and its task is done or to do again.
applyTransition(t) ==
    /\ coord = "up" /\ after[Coordinator] = Free
    /\ status[t] = "claimed"
    /\ \E s \in {"todo", "done"} : status' = [status EXCEPT ![t] = s]
    /\ after' = [after EXCEPT ![Coordinator] = [Free EXCEPT !.step = "read"]]
    /\ UNCHANGED <<spec, bound, told, shown, coord, edit, stops>>

\* The pid lock is taken before the control API answers.
CoordinatorStarts ==
    /\ coord # "up"
    /\ coord' = IF coord = "down" THEN "starting" ELSE "up"
    /\ UNCHANGED <<spec, status, bound, told, shown, edit, after, stops>>

\* A process dies, and what it had left to do with it.
Stops(p) ==
    /\ stops < MaxStops
    /\ \/ p = Coordinator /\ coord # "down" /\ coord' = "down" /\ UNCHANGED edit
       \/ p \in Editors /\ edit[p].at # "idle" /\ edit' = [edit EXCEPT ![p] = NoEdit] /\ UNCHANGED coord
       \/ p \in Editors /\ after[p] # Free /\ edit' = [edit EXCEPT ![p] = NoEdit] /\ UNCHANGED coord
    /\ after' = [after EXCEPT ![p] = Free]
    /\ stops' = stops + 1
    /\ UNCHANGED <<spec, status, bound, told, shown>>

\* Edits, by whoever resolved the project as the active one.
Authoring ==
    \/ \E e \in Editors, b \in Bodies :
          \/ \E t \in Tasks : Drafts(e, t, b)
          \/ \E files \in SUBSET Tasks \ {{}} : readTaskMarkdownSources(e, files, b)
    \/ \E r \in Runs, t \in Tasks : claimTask(r, t)

\* What goes on once begun.
Progress ==
    \/ \E e \in Editors : AppliesForClient(e) \/ routeToCoordinator(e) \/ AppliesDirectly(e) \/ GivesUp(e)
    \/ \E p \in Processes : notify(p) \/ readProjectBacklog(p) \/ refreshBacklogProjection(p) \/ Stops(p)
    \/ \E t \in Tasks : applyTransition(t)

\* A project by itself, from the empty store `orc project add` leaves.
StoreNext == Authoring \/ Progress \/ CoordinatorStarts

StoreSpec == StoreInit /\ [][StoreNext]_store

-----------------------------------------------------------------------------
(* Properties.                                                             *)

Revision == [body : Bodies, previous : 0 .. MaxRevisions]

StoreTypeOK ==
    /\ \A t \in Tasks : Latest(t) <= MaxRevisions /\ \A i \in DOMAIN spec[t] : spec[t][i] \in Revision
    /\ status \in [Tasks -> {"todo", "claimed", "done"}]
    /\ bound \in [Runs -> [task : Tasks \cup {NoTask}, revision : 0 .. MaxRevisions]]
    /\ told \in [Tasks -> [Numbers -> Nat]]
    /\ shown \in [Tasks -> 0 .. MaxRevisions]
    /\ coord \in {"down", "starting", "up"}
    /\ \A p \in Processes : after[p].news \subseteq Tasks \X Numbers
    /\ stops \in 0 .. MaxStops

\* Concurrent editors do not overwrite each other: every revision was made
\* from the one before it, although an editor read it long before, through
\* another process, or asks again for want of an answer.
NoEditIsOverwritten ==
    \A t \in Tasks : \A i \in DOMAIN spec[t] : spec[t][i].previous = i - 1

\* Nothing is announced that was rolled back, and nothing twice.
AnnouncedIsCommitted ==
    \A t \in Tasks, i \in Numbers : told[t][i] > 0 => told[t][i] = 1 /\ i <= Latest(t)

=============================================================================
