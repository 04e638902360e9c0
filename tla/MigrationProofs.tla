---------------------------- MODULE MigrationProofs ----------------------------
(***************************************************************************)
(* Theorems about TaskStore, for any set of tasks, editors and bodies and  *)
(* any number of revisions and processes that die; and about Migration,    *)
(* for any number of versions and deaths, one migrator at a time.          *)
(*                                                                         *)
(* An editor's base is never ahead of the store, which matters where a     *)
(* task does not exist: its first revision is made from nothing.  Of the   *)
(* announcements, each is with one process at most, for a revision that    *)
(* is there and was not announced.                                         *)
(***************************************************************************)
EXTENDS Migration, SequenceTheorems, TLAPS

Rows == [body : Bodies \cup {NoTask}, previous : Nat]
Edits == [at : {"idle", "asking", "direct"}, kind : {"write", "import"}, files : SUBSET Tasks,
          base : [Tasks -> Nat], body : Bodies \cup {NoTask}]
Duties == [step : {"none", "emit", "read", "write"}, news : SUBSET (Tasks \X Numbers), seen : [Tasks -> Nat]]

StoreTypes ==
    /\ spec \in [Tasks -> Seq(Rows)]
    /\ told \in [Tasks -> [Numbers -> Nat]]
    /\ edit \in [Editors -> Edits]
    /\ after \in [Processes -> Duties]

\* What an editor read is still there.
BasesAreOld == \A e \in Editors, t \in Tasks : edit[e].base[t] <= Latest(t)

\* What a process is to announce is committed, and not announced yet.
News(p, t, i) == <<t, i>> \in after[p].news
NewsIsNew == \A p \in Processes, t \in Tasks, i \in Numbers : News(p, t, i) => i <= Latest(t) /\ told[t][i] = 0

\* No two processes are to announce the same revision.
NewsIsOnce == \A p, q \in Processes, t \in Tasks, i \in Numbers : News(p, t, i) /\ News(q, t, i) => p = q

StoreInv ==
    /\ StoreTypes /\ BasesAreOld /\ NoEditIsOverwritten
    /\ NewsIsNew /\ NewsIsOnce /\ AnnouncedIsCommitted

\* The length of a task's history.
LEMMA LatestType == ASSUME StoreTypes, NEW t \in Tasks PROVE Latest(t) \in Nat /\ DOMAIN spec[t] = 1 .. Latest(t)
<1>1. spec[t] \in Seq(Rows) BY DEF StoreTypes
<1> QED BY <1>1, LenProperties DEF Latest

\* The two records that mean nothing.
LEMMA Empties == NoEdit \in Edits /\ Free \in Duties /\ Free.news = {} /\ \A t \in Tasks : NoEdit.base[t] = 0
BY DEF NoEdit, Free, Edits, Duties

\* An empty project.
LEMMA StoreInitially == StoreInit => StoreInv
<1> SUFFICES ASSUME StoreInit PROVE StoreInv
  OBVIOUS
<1>1. \A t \in Tasks : spec[t] = <<>> BY DEF StoreInit
<1>2. spec \in [Tasks -> Seq(Rows)]
  <2>1. <<>> \in Seq(Rows) BY EmptySeq
  <2> QED BY <2>1 DEF StoreInit
<1>3. StoreTypes BY <1>2, Empties DEF StoreInit, StoreTypes
<1>4. \A t \in Tasks : Latest(t) = 0 /\ DOMAIN spec[t] = {}
  <2> TAKE t \in Tasks
  <2>1. Latest(t) = 0 BY <1>1 DEF Latest
  <2> QED BY <1>3, <2>1, LatestType
<1>5. BasesAreOld BY <1>4, Empties DEF StoreInit, BasesAreOld
<1>6. NoEditIsOverwritten BY <1>4 DEF NoEditIsOverwritten
<1>7. NewsIsNew /\ NewsIsOnce BY Empties DEF StoreInit, NewsIsNew, NewsIsOnce, News
<1>8. AnnouncedIsCommitted BY DEF StoreInit, AnnouncedIsCommitted
<1> QED BY <1>3, <1>5, <1>6, <1>7, <1>8 DEF StoreInv

-----------------------------------------------------------------------------
(* The write.                                                              *)

\* An edit that is applied was made on the latest revision, or on none where
\* there is none.
LEMMA AppliedOnLatest ==
    ASSUME StoreInv, NEW d \in Edits, NEW t \in Tasks, d.base[t] <= Latest(t), ~Refused(d), t \in Changed(d)
    PROVE  expectedRevision(d, t) = Latest(t)
<1>1. t \in d.files BY DEF Changed
<1>2. ~RevisionConflict(d, t) BY <1>1 DEF Refused
<1>3. Latest(t) \in Nat BY LatestType DEF StoreInv
<1>4. CASE Exists(t)
  <2>1. d.body # spec[t][Latest(t)].body BY <1>4 DEF Changed
  <2> QED BY <1>2, <1>4, <2>1 DEF RevisionConflict
<1>5. CASE ~Exists(t)
  <2>1. Latest(t) = 0 BY <1>5 DEF Exists, Latest
  <2>2. d.base[t] \in Nat BY DEF Edits
  <2>3. d.base[t] = 0 BY <2>1, <2>2
  <2> QED BY <2>1, <2>3 DEF expectedRevision
<1> QED BY <1>4, <1>5

\* A transaction of process p adds at most one revision to each task, made
\* from the one before, and leaves p what it added to announce.
LEMMA AppliesKeeps ==
    ASSUME StoreInv, NEW p \in Processes, NEW d \in Edits, Fits(d), Applies(p, d),
           \A t \in Tasks : d.base[t] <= Latest(t),
           NEW e \in Editors, edit' \in {edit, [edit EXCEPT ![e] = NoEdit]}
    PROVE  StoreInv'
<1> DEFINE Adds(t) == ~Refused(d) /\ t \in Changed(d)
           row(t) == [body |-> d.body, previous |-> expectedRevision(d, t)]
<1>1. StoreTypes /\ BasesAreOld /\ UNCHANGED told BY DEF StoreInv, Applies
<1>2. \A t \in Tasks : spec'[t] = IF Adds(t) THEN Append(spec[t], row(t)) ELSE spec[t]
  BY DEF Applies, insertRevision
<1>3. ASSUME NEW t \in Tasks
      PROVE  /\ spec'[t] \in Seq(Rows)
             /\ Latest(t)' = IF Adds(t) THEN Latest(t) + 1 ELSE Latest(t)
             /\ \A i \in DOMAIN spec'[t] : spec'[t][i].previous = i - 1
  <2>1. spec[t] \in Seq(Rows) /\ Latest(t) \in Nat /\ DOMAIN spec[t] = 1 .. Latest(t)
    BY <1>1, LatestType DEF StoreTypes
  <2>2. \A i \in 1 .. Latest(t) : spec[t][i].previous = i - 1 BY <2>1 DEF StoreInv, NoEditIsOverwritten
  <2>3. CASE ~Adds(t)
    <3>1. spec'[t] = spec[t] BY <1>2, <2>3
    <3> QED BY <2>1, <2>2, <2>3, <3>1 DEF Latest
  <2>4. CASE Adds(t)
    <3>1. expectedRevision(d, t) = Latest(t) BY <2>4, AppliedOnLatest
    <3>2. row(t) \in Rows /\ row(t).previous = Latest(t) BY <2>1, <3>1 DEF Rows, Edits
    <3>3. spec'[t] = Append(spec[t], row(t)) BY <1>2, <2>4
    <3> HIDE DEF row
    <3>4. /\ Append(spec[t], row(t)) \in Seq(Rows)
          /\ Len(Append(spec[t], row(t))) = Latest(t) + 1
          /\ \A i \in 1 .. Latest(t) : Append(spec[t], row(t))[i] = spec[t][i]
          /\ Append(spec[t], row(t))[Latest(t) + 1] = row(t)
      BY <2>1, <3>2, AppendProperties DEF Latest
    <3>5. DOMAIN spec'[t] = 1 .. Latest(t) + 1 BY <3>3, <3>4, LenProperties
    <3>6. \A i \in 1 .. Latest(t) + 1 : spec'[t][i].previous = i - 1
      <4> TAKE i \in 1 .. Latest(t) + 1
      <4>1. CASE i \in 1 .. Latest(t) BY <2>2, <3>3, <3>4, <4>1
      <4>2. CASE i = Latest(t) + 1 BY <2>1, <3>2, <3>3, <3>4, <4>2
      <4> QED BY <2>1, <4>1, <4>2
    <3>7. Latest(t)' = Latest(t) + 1 BY <3>3, <3>4 DEF Latest
    <3> QED BY <2>4, <3>3, <3>4, <3>5, <3>6, <3>7
  <2> QED BY <2>3, <2>4
<1> HIDE DEF Adds
<1>4. \A t \in Tasks : Latest(t) \in Nat /\ Latest(t)' \in Nat /\ Latest(t) <= Latest(t)'
  BY <1>1, <1>3, LatestType
<1>5. spec' \in [Tasks -> Seq(Rows)] BY <1>3 DEF Applies
<1>6. edit' \in [Editors -> Edits] /\ BasesAreOld'
  <2>1. edit' \in [Editors -> Edits] BY <1>1, Empties DEF StoreTypes
  <2>2. \A f \in Editors, t \in Tasks : edit'[f].base[t] \in {edit[f].base[t], 0}
    BY <1>1, Empties DEF StoreTypes
  <2>3. \A f \in Editors, t \in Tasks : edit[f].base[t] \in Nat BY <1>1 DEF StoreTypes, Edits
  <2>4. \A f \in Editors, t \in Tasks : edit'[f].base[t] <= Latest(t)'
    BY <1>1, <1>4, <2>2, <2>3 DEF BasesAreOld
  <2> QED BY <2>1, <2>4 DEF BasesAreOld
<1> DEFINE new == pendingNotifications(d)
<1>7. ASSUME NEW t \in Tasks, NEW i \in Numbers, <<t, i>> \in new PROVE i = Latest(t) + 1 /\ Adds(t)
  BY <1>7 DEF pendingNotifications, Adds
<1>8. new \subseteq Tasks \X Numbers
  <2>1. CASE Refused(d) BY <2>1 DEF pendingNotifications
  <2>2. CASE ~Refused(d)
    <3>1. \A t \in Changed(d) : t \in Tasks /\ Latest(t) + 1 \in Numbers
      <4> TAKE t \in Changed(d)
      <4>1. t \in d.files /\ d.files \subseteq Tasks BY DEF Changed, Edits
      <4>2. Latest(t) < MaxRevisions BY <2>2, <4>1 DEF Fits
      <4> QED BY <1>4, <4>1, <4>2, StoreBounds DEF Numbers
    <3> QED BY <3>1 DEF pendingNotifications
  <2> QED BY <2>1, <2>2
<1> HIDE DEF new
<1>9. /\ after' \in [Processes -> Duties]
      /\ \A q \in Processes, t \in Tasks, i \in Numbers :
            News(q, t, i)' => News(q, t, i) \/ (q = p /\ <<t, i>> \in new)
  <2>1. CASE after' = after BY <1>1, <2>1 DEF StoreTypes, News
  <2>2. CASE after' = [after EXCEPT ![p] = [Free EXCEPT !.step = "emit", !.news = new]]
    <3>1. [Free EXCEPT !.step = "emit"] \in Duties BY Empties DEF Duties
    <3>2. PICK g \in Duties : g = [Free EXCEPT !.step = "emit"] BY <3>1
    <3>3. [g EXCEPT !.news = new] \in Duties /\ [g EXCEPT !.news = new].news = new BY <1>8 DEF Duties
    <3>4. PICK f \in Duties : f = [g EXCEPT !.news = new] /\ f.news = new BY <3>3
    <3>5. after' = [after EXCEPT ![p] = f] BY <2>2, <3>2, <3>4
    <3> QED BY <1>1, <3>4, <3>5 DEF StoreTypes, News
  <2> QED BY <2>1, <2>2 DEF Applies, new
<1>10. StoreTypes' BY <1>1, <1>5, <1>6, <1>9 DEF StoreTypes
<1>11. NoEditIsOverwritten' BY <1>3 DEF NoEditIsOverwritten
<1>12. ASSUME NEW q \in Processes, NEW t \in Tasks, NEW i \in Numbers, News(q, t, i)
       PROVE  i <= Latest(t) /\ i <= Latest(t)' /\ told[t][i] = 0
  BY <1>4, <1>12 DEF StoreInv, NewsIsNew, Numbers
<1>13. ASSUME NEW t \in Tasks, NEW i \in Numbers, <<t, i>> \in new
       PROVE  i > Latest(t) /\ i <= Latest(t)' /\ told[t][i] = 0
  <2>1. i = Latest(t) + 1 /\ i > Latest(t) /\ i <= Latest(t)' BY <1>3, <1>4, <1>7, <1>13
  <2>2. ~(i <= Latest(t)) BY <1>4, <2>1
  <2>3. told[t][i] \in Nat BY <1>1 DEF StoreTypes
  <2>4. ~(told[t][i] > 0) BY <2>2 DEF StoreInv, AnnouncedIsCommitted
  <2> QED BY <2>1, <2>3, <2>4
<1>14. NewsIsNew' BY <1>1, <1>9, <1>12, <1>13 DEF NewsIsNew
<1>15. NewsIsOnce'
  <2> SUFFICES ASSUME NEW q \in Processes, NEW r \in Processes, NEW t \in Tasks, NEW i \in Numbers,
                      News(q, t, i)', News(r, t, i)'
               PROVE  q = r
    BY DEF NewsIsOnce
  <2>1. ~(News(q, t, i) \/ News(r, t, i)) \/ <<t, i>> \notin new
    <3>1. Latest(t) \in Nat /\ i \in Int BY <1>4 DEF Numbers
    <3> QED BY <1>12, <1>13, <3>1
  <2>2. CASE <<t, i>> \notin new BY <1>9, <2>2 DEF StoreInv, NewsIsOnce
  <2>3. CASE <<t, i>> \in new BY <1>9, <2>1, <2>3
  <2> QED BY <2>2, <2>3
<1>16. AnnouncedIsCommitted'
  <2> SUFFICES ASSUME NEW t \in Tasks, NEW i \in Numbers, told[t][i] > 0 PROVE told[t][i] = 1 /\ i <= Latest(t)'
    BY <1>1 DEF AnnouncedIsCommitted
  <2>1. told[t][i] = 1 /\ i <= Latest(t) BY DEF StoreInv, AnnouncedIsCommitted
  <2> QED BY <1>4, <2>1 DEF Numbers
<1> QED BY <1>6, <1>10, <1>11, <1>14, <1>15, <1>16 DEF StoreInv

-----------------------------------------------------------------------------
(* The other steps.                                                        *)

\* What an editor reads is what is there.
LEMMA EditKeeps ==
    ASSUME StoreInv, NEW e \in Editors, NEW d \in Edits, edit' = [edit EXCEPT ![e] = d],
           \A t \in Tasks : d.base[t] <= Latest(t), UNCHANGED <<spec, told, after>>
    PROVE  StoreInv'
<1>1. StoreTypes' BY DEF StoreInv, StoreTypes
<1>2. BasesAreOld' BY DEF StoreInv, StoreTypes, BasesAreOld, Latest
<1>3. NoEditIsOverwritten' /\ AnnouncedIsCommitted'
  BY DEF StoreInv, NoEditIsOverwritten, AnnouncedIsCommitted, Latest
<1>4. NewsIsNew' /\ NewsIsOnce' BY DEF StoreInv, NewsIsNew, NewsIsOnce, News, Latest
<1> QED BY <1>1, <1>2, <1>3, <1>4 DEF StoreInv

\* No edit has no base.
LEMMA DropKeeps ==
    ASSUME StoreInv, NEW e \in Editors, edit' = [edit EXCEPT ![e] = NoEdit], UNCHANGED <<spec, told, after>>
    PROVE  StoreInv'
<1>1. \A t \in Tasks : NoEdit.base[t] <= Latest(t) BY Empties, LatestType DEF StoreInv
<1> QED BY <1>1, Empties, EditKeeps

\* A process that has less to announce, or nothing.
LEMMA DutyKeeps ==
    ASSUME StoreInv, NEW p \in Processes, NEW f \in Duties, after' = [after EXCEPT ![p] = f],
           f.news \subseteq after[p].news, UNCHANGED <<spec, told, edit>>
    PROVE  StoreInv'
<1>1. StoreTypes' BY DEF StoreInv, StoreTypes
<1>2. BasesAreOld' /\ NoEditIsOverwritten' /\ AnnouncedIsCommitted'
  BY DEF StoreInv, BasesAreOld, NoEditIsOverwritten, AnnouncedIsCommitted, Latest
<1>3. \A q \in Processes, t \in Tasks, i \in Numbers : News(q, t, i)' => News(q, t, i)
  BY DEF StoreInv, StoreTypes, News
<1>4. NewsIsNew' /\ NewsIsOnce' BY <1>3 DEF StoreInv, NewsIsNew, NewsIsOnce, Latest
<1> QED BY <1>1, <1>2, <1>4 DEF StoreInv

\* What is announced is off the list of the only process that had it.
LEMMA NotifyKeeps ==
    ASSUME StoreInv, NEW p \in Processes, notify(p)
    PROVE  StoreInv'
<1>1. PICK x \in after[p].news :
          /\ told' = [told EXCEPT ![x[1]][x[2]] = @ + 1]
          /\ after' = [after EXCEPT ![p].news = @ \ {x},
                                    ![p].step = IF after[p].news = {x} THEN "read" ELSE "emit"]
  BY DEF notify
<1>2. UNCHANGED <<spec, edit>> BY DEF notify
<1>3. after[p] \in Duties /\ after[p].news \subseteq Tasks \X Numbers BY DEF StoreInv, StoreTypes, Duties
<1>4. PICK t \in Tasks, i \in Numbers : x = <<t, i>> BY <1>3
<1>5. told' = [told EXCEPT ![t][i] = @ + 1] BY <1>1, <1>4
<1>6. told[t][i] = 0 /\ i <= Latest(t) BY <1>4 DEF StoreInv, NewsIsNew, News
<1>7. /\ told' \in [Tasks -> [Numbers -> Nat]] /\ told'[t][i] = 1
      /\ \A u \in Tasks, j \in Numbers : <<u, j>> # <<t, i>> => told'[u][j] = told[u][j]
  BY <1>5, <1>6 DEF StoreInv, StoreTypes
<1>8. /\ after' \in [Processes -> Duties]
      /\ after'[p].news = after[p].news \ {x}
      /\ \A q \in Processes : q # p => after'[q] = after[q]
  <2>1. PICK s \in {"read", "emit"} : s = IF after[p].news = {x} THEN "read" ELSE "emit" OBVIOUS
  <2>2. after' = [after EXCEPT ![p].news = @ \ {x}, ![p].step = s] BY <1>1, <2>1
  <2> QED BY <1>3, <2>2 DEF StoreInv, StoreTypes, Duties
<1>9. \A q \in Processes, u \in Tasks, j \in Numbers :
         News(q, u, j)' => News(q, u, j) /\ <<u, j>> # <<t, i>>
  <2> SUFFICES ASSUME NEW q \in Processes, NEW u \in Tasks, NEW j \in Numbers, News(q, u, j)'
               PROVE  News(q, u, j) /\ <<u, j>> # <<t, i>>
    OBVIOUS
  <2>1. CASE q = p BY <1>4, <1>8, <2>1 DEF News
  <2>2. CASE q # p
    <3>1. News(q, u, j) BY <1>8, <2>2 DEF News
    <3>2. News(p, t, i) BY <1>4 DEF News
    <3> QED BY <2>2, <3>1, <3>2 DEF StoreInv, NewsIsOnce
  <2> QED BY <2>1, <2>2
<1>10. StoreTypes' BY <1>2, <1>7, <1>8 DEF StoreInv, StoreTypes
<1>11. BasesAreOld' /\ NoEditIsOverwritten' BY <1>2 DEF StoreInv, BasesAreOld, NoEditIsOverwritten, Latest
<1>12. NewsIsNew' /\ NewsIsOnce'
  <2>1. ASSUME NEW q \in Processes, NEW u \in Tasks, NEW j \in Numbers, News(q, u, j)'
        PROVE  j <= Latest(u)' /\ told'[u][j] = 0
    <3>1. News(q, u, j) /\ <<u, j>> # <<t, i>> BY <1>9, <2>1
    <3>2. told'[u][j] = told[u][j] BY <1>7, <3>1
    <3> QED BY <1>2, <3>1, <3>2 DEF StoreInv, NewsIsNew, Latest
  <2>2. NewsIsNew' BY <2>1 DEF NewsIsNew
  <2>3. NewsIsOnce' BY <1>9 DEF StoreInv, NewsIsOnce
  <2> QED BY <2>2, <2>3
<1>13. AnnouncedIsCommitted'
  <2> SUFFICES ASSUME NEW u \in Tasks, NEW j \in Numbers, told'[u][j] > 0
               PROVE  told'[u][j] = 1 /\ j <= Latest(u)
    BY <1>2 DEF AnnouncedIsCommitted, Latest
  <2>1. CASE u = t /\ j = i BY <1>6, <1>7, <2>1
  <2>2. CASE <<u, j>> # <<t, i>> BY <1>7, <2>2 DEF StoreInv, AnnouncedIsCommitted
  <2> QED BY <2>1, <2>2
<1> QED BY <1>10, <1>11, <1>12, <1>13 DEF StoreInv

\* The coordinator is to refresh the projection.
LEMMA RefreshDue ==
    ASSUME StoreInv, after' = [after EXCEPT ![Coordinator] = [Free EXCEPT !.step = "read"]],
           UNCHANGED <<spec, told, edit>>
    PROVE  StoreInv'
<1>1. [Free EXCEPT !.step = "read"] \in Duties /\ [Free EXCEPT !.step = "read"].news = {} BY DEF Free, Duties
<1>2. Coordinator \in Processes BY DEF Processes
<1> QED BY <1>1, <1>2, DutyKeeps

\* A process dies: its edit and what it had to announce are gone.
LEMMA StopsKeeps ==
    ASSUME StoreInv, NEW p \in Processes, Stops(p)
    PROVE  StoreInv'
<1>1. /\ after' = [after EXCEPT ![p] = Free] /\ UNCHANGED <<spec, told>>
      /\ edit' = edit \/ edit' = [edit EXCEPT ![p] = NoEdit]
  BY DEF Stops
<1>2. edit' \in [Editors -> Edits] /\ BasesAreOld'
  <2>1. CASE edit' = edit BY <1>1, <2>1 DEF StoreInv, StoreTypes, BasesAreOld, Latest
  <2>2. CASE edit' = [edit EXCEPT ![p] = NoEdit]
    <3>1. edit' \in [Editors -> Edits] BY <2>2, Empties DEF StoreInv, StoreTypes
    <3>2. \A t \in Tasks : Latest(t) \in Nat BY LatestType DEF StoreInv
    <3>3. \A e \in Editors, t \in Tasks : edit'[e].base[t] <= Latest(t)
      BY <2>2, <3>2, Empties DEF StoreInv, StoreTypes, BasesAreOld
    <3> QED BY <1>1, <3>1, <3>3 DEF BasesAreOld, Latest
  <2> QED BY <1>1, <2>1, <2>2
<1>3. StoreTypes' BY <1>1, <1>2, Empties DEF StoreInv, StoreTypes
<1>4. \A q \in Processes, t \in Tasks, i \in Numbers : News(q, t, i)' => News(q, t, i)
  BY <1>1, Empties DEF StoreInv, StoreTypes, News
<1>5. NewsIsNew' /\ NewsIsOnce' BY <1>1, <1>4 DEF StoreInv, NewsIsNew, NewsIsOnce, Latest
<1>6. NoEditIsOverwritten' /\ AnnouncedIsCommitted'
  BY <1>1 DEF StoreInv, NoEditIsOverwritten, AnnouncedIsCommitted, Latest
<1> QED BY <1>2, <1>3, <1>5, <1>6 DEF StoreInv

\* An editor starts to edit.
LEMMA AuthoringKeeps == StoreInv /\ Authoring => StoreInv'
<1> SUFFICES ASSUME StoreInv, Authoring PROVE StoreInv'
  OBVIOUS
<1>0. \A t \in Tasks : Latest(t) \in Nat BY LatestType DEF StoreInv
<1>1. ASSUME NEW e \in Editors, NEW b \in Bodies, NEW t \in Tasks, Drafts(e, t, b) PROVE StoreInv'
  <2> DEFINE base == [NoEdit.base EXCEPT ![t] = Latest(t)]
             d == [at |-> "asking", kind |-> "write", files |-> {t}, base |-> base, body |-> b]
  <2>1. edit' = [edit EXCEPT ![e] = d] /\ UNCHANGED <<spec, told, after>> BY <1>1 DEF Drafts
  <2>2. base \in [Tasks -> Nat] /\ \A u \in Tasks : base[u] <= Latest(u) BY <1>0 DEF NoEdit
  <2> HIDE DEF base
  <2>3. d \in Edits /\ \A u \in Tasks : d.base[u] <= Latest(u) BY <2>2 DEF Edits
  <2> HIDE DEF d
  <2> QED BY <2>1, <2>3, EditKeeps
<1>2. ASSUME NEW e \in Editors, NEW b \in Bodies, NEW files \in SUBSET Tasks \ {{}},
             readTaskMarkdownSources(e, files, b)
      PROVE  StoreInv'
  <2>1. PICK exported \in BOOLEAN :
          edit' = [edit EXCEPT ![e] = [at |-> "asking", kind |-> "import", files |-> files,
                     base |-> [t \in Tasks |-> parseTaskMarkdown(t, exported /\ t \in files)], body |-> b]]
    BY <1>2 DEF readTaskMarkdownSources
  <2> DEFINE base == [t \in Tasks |-> parseTaskMarkdown(t, exported /\ t \in files)]
             d == [at |-> "asking", kind |-> "import", files |-> files, base |-> base, body |-> b]
  <2>2. edit' = [edit EXCEPT ![e] = d] /\ UNCHANGED <<spec, told, after>>
    BY <1>2, <2>1 DEF readTaskMarkdownSources
  <2>3. base \in [Tasks -> Nat] /\ \A u \in Tasks : base[u] <= Latest(u)
    BY <1>0 DEF parseTaskMarkdown, exportTaskMarkdown
  <2> HIDE DEF base
  <2>4. d \in Edits /\ \A u \in Tasks : d.base[u] <= Latest(u) BY <2>3 DEF Edits
  <2> HIDE DEF d
  <2> QED BY <2>2, <2>4, EditKeeps
<1>3. ASSUME NEW r \in Runs, NEW t \in Tasks, claimTask(r, t) PROVE StoreInv'
  BY <1>3, RefreshDue DEF claimTask
<1> QED BY <1>1, <1>2, <1>3 DEF Authoring

\* What was begun goes on, by the coordinator or by the editor itself.
LEMMA ProgressKeeps == StoreInv /\ Progress => StoreInv'
<1> SUFFICES ASSUME StoreInv, Progress PROVE StoreInv'
  OBVIOUS
<1>1. ASSUME NEW e \in Editors PROVE edit[e] \in Edits /\ \A t \in Tasks : edit[e].base[t] <= Latest(t)
  BY DEF StoreInv, StoreTypes, BasesAreOld
<1>2. ASSUME NEW e \in Editors, AppliesForClient(e) PROVE StoreInv'
  <2>1. /\ Fits(edit[e]) /\ Applies(Coordinator, edit[e])
        /\ edit' \in {edit, [edit EXCEPT ![e] = NoEdit]}
    BY <1>2 DEF AppliesForClient
  <2>2. Coordinator \in Processes BY DEF Processes
  <2> QED BY <1>1, <2>1, <2>2, AppliesKeeps
<1>3. ASSUME NEW e \in Editors, AppliesDirectly(e) PROVE StoreInv'
  <2>1. /\ Fits(edit[e]) /\ Applies(e, edit[e])
        /\ edit' \in {edit, [edit EXCEPT ![e] = NoEdit]}
    BY <1>3 DEF AppliesDirectly
  <2>2. e \in Processes BY DEF Processes
  <2> QED BY <1>1, <2>1, <2>2, AppliesKeeps
<1>4. ASSUME NEW e \in Editors, routeToCoordinator(e) PROVE StoreInv'
  <2> DEFINE d == [edit[e] EXCEPT !.at = "direct"]
  <2>1. edit' = [edit EXCEPT ![e] = d] /\ UNCHANGED <<spec, told, after>> BY <1>4 DEF routeToCoordinator
  <2>2. d \in Edits /\ \A t \in Tasks : d.base[t] <= Latest(t) BY <1>1 DEF Edits
  <2> HIDE DEF d
  <2> QED BY <2>1, <2>2, EditKeeps
<1>5. ASSUME NEW e \in Editors, GivesUp(e) PROVE StoreInv' BY <1>5, DropKeeps DEF GivesUp
<1>6. ASSUME NEW p \in Processes, readProjectBacklog(p) PROVE StoreInv'
  <2> DEFINE seen == [t \in Tasks |-> Latest(t)]
             f == [after[p] EXCEPT !.step = "write", !.seen = seen]
  <2>1. after' = [after EXCEPT ![p] = f] /\ UNCHANGED <<spec, told, edit>> BY <1>6 DEF readProjectBacklog
  <2>2. seen \in [Tasks -> Nat] BY LatestType DEF StoreInv
  <2>3. after[p] \in Duties BY DEF StoreInv, StoreTypes
  <2> HIDE DEF seen
  <2>4. PICK g \in Duties : g = [after[p] EXCEPT !.step = "write"] /\ g.news = after[p].news
    <3>1. [after[p] EXCEPT !.step = "write"] \in Duties BY <2>3 DEF Duties
    <3>2. [after[p] EXCEPT !.step = "write"].news = after[p].news BY <2>3 DEF Duties
    <3> QED BY <3>1, <3>2
  <2>5. f = [g EXCEPT !.seen = seen] BY <2>4
  <2> HIDE DEF f
  <2>6. f \in Duties /\ f.news = after[p].news BY <2>2, <2>4, <2>5 DEF Duties
  <2> QED BY <2>1, <2>6, DutyKeeps
<1>7. ASSUME NEW p \in Processes, refreshBacklogProjection(p) PROVE StoreInv'
  BY <1>7, Empties, DutyKeeps DEF refreshBacklogProjection
<1>8. ASSUME NEW p \in Processes, notify(p) \/ Stops(p) PROVE StoreInv' BY <1>8, NotifyKeeps, StopsKeeps
<1>9. ASSUME NEW t \in Tasks, applyTransition(t) PROVE StoreInv' BY <1>9, RefreshDue DEF applyTransition
<1> QED BY <1>2, <1>3, <1>4, <1>5, <1>6, <1>7, <1>8, <1>9 DEF Progress

\* Nothing the invariant speaks of changes.
LEMMA StoreUnchanged == StoreInv /\ UNCHANGED <<spec, told, edit, after>> => StoreInv'
BY DEF StoreInv, StoreTypes, BasesAreOld, NoEditIsOverwritten, NewsIsNew, NewsIsOnce, News, AnnouncedIsCommitted, Latest

-----------------------------------------------------------------------------
(* The theorems.                                                           *)

\* Every reachable state of a project's store satisfies the invariant.
THEOREM StoreInvariant == StoreSpec => []StoreInv
<1>1. StoreInv /\ [StoreNext]_store => StoreInv'
  BY AuthoringKeeps, ProgressKeeps, StoreUnchanged DEF StoreNext, store, CoordinatorStarts
<1> QED BY <1>1, StoreInitially, PTL DEF StoreSpec

\* reviseProjectTask: whoever edits from whichever process, every revision
\* was made from the one before it.
THEOREM EditsAreKept == StoreSpec => []NoEditIsOverwritten
<1>1. StoreInv => NoEditIsOverwritten BY DEF StoreInv
<1> QED BY <1>1, StoreInvariant, PTL

\* withTaskAuthoringBatch: an event is emitted at most once, and for a
\* revision that was committed.
THEOREM AnnouncementsAreTrue == StoreSpec => []AnnouncedIsCommitted
<1>1. StoreInv => AnnouncedIsCommitted BY DEF StoreInv
<1> QED BY <1>1, StoreInvariant, PTL

-----------------------------------------------------------------------------
(* The migration: the invariant.                                           *)

\* The migration with one migrator, and an inventory nobody disturbs.
OneMigrator == QuietInventory /\ \A m, n \in Migrators : m = n

\* From the fingerprint to the verification of what was imported.
Planned == {"legacy", "project", "replace legacy", "replace project", "register", "backup", "wipe", "copy",
            "import", "settings", "list", "verify"}
Filling == {"import", "settings", "list", "verify"}
Points == Planned \cup {"idle", "inventory", "release", "mark", "cut"}
Plans == [tasks : 0 .. MaxVersions, fingerprint : 0 .. MaxVersions, idle : BOOLEAN, existing : BOOLEAN, held : SUBSET Places]

MigrationTypes ==
    /\ legacy \in 0 .. MaxVersions /\ marker \in BOOLEAN
    /\ pc \in [Migrators -> Points] /\ plan \in [Migrators -> Plans]

\* The project holds one version of the installation, and nothing else.
Whole ==
    \E v \in 0 .. legacy :
        /\ spec = [t \in Tasks |-> <<[body |-> v, previous |-> 0]>>]
        /\ history = {v} /\ settings = {v}

\* Nobody uses the project before the cutover.
Unused ==
    ~Active =>
        /\ coord = "down"
        /\ \A e \in Editors : edit[e] = NoEdit
        /\ \A p \in Processes : after[p] = Free
        /\ \A t \in Tasks, i \in Numbers : told[t][i] = 0

\* The tasks a migrator has read are of the version it took the fingerprint
\* of; the history it has copied is of that version or a later one.
PlanAgrees(m) ==
    /\ pc[m] = "inventory" => plan[m].tasks = legacy
    /\ pc[m] \in Planned => plan[m].tasks = plan[m].fingerprint /\ plan[m].fingerprint <= legacy /\ ~marker
    /\ pc[m] \in Filling => \E h \in 0 .. legacy : history = {h} /\ plan[m].fingerprint <= h
    /\ pc[m] = "mark" => ~marker /\ Whole
    /\ pc[m] = "cut" => marker

\* The marker is written once the project is whole, and before the cutover.
MarkedIsWhole == (marker /\ ~Active => Whole) /\ (Active => marker)

MigrationInv ==
    /\ StoreInv /\ MigrationTypes /\ Unused /\ MarkedIsWhole
    /\ \A m \in Migrators : PlanAgrees(m)

\* An installation that nobody has migrated.
LEMMA MigrationInitially == Init => MigrationInv
<1> SUFFICES ASSUME Init PROVE MigrationInv
  OBVIOUS
<1>1. StoreInv
  BY StoreInitially DEF Init
<1>2. NoPlan \in Plans
  BY MigrationAssumption DEF NoPlan, Plans
<1>3. MigrationTypes
  <2>1. legacy = 0 /\ marker = FALSE /\ pc = [m \in Migrators |-> "idle"] /\ plan = [m \in Migrators |-> NoPlan]
    BY DEF Init
  <2>2. "idle" \in Points /\ 0 \in 0 .. MaxVersions
    BY MigrationAssumption DEF Points
  <2>3. pc \in [Migrators -> Points] /\ plan \in [Migrators -> Plans]
    BY <1>2, <2>1, <2>2
  <2> QED BY <2>1, <2>2, <2>3 DEF MigrationTypes
<1>4. Unused
  BY DEF Init, StoreInit, Unused
<1>5. MarkedIsWhole /\ \A m \in Migrators : PlanAgrees(m)
  BY DEF Init, MarkedIsWhole, PlanAgrees, Active, Planned, Filling
<1> QED BY <1>1, <1>3, <1>4, <1>5 DEF MigrationInv

\* LegacyEdit makes a later version; what was read of the earlier ones stays.
LEMMA LegacyEditKeeps == ASSUME OneMigrator, MigrationInv, LegacyEdit PROVE MigrationInv'
<1>1. StoreInv /\ MigrationTypes /\ Unused /\ MarkedIsWhole /\ \A m \in Migrators : PlanAgrees(m)
  BY DEF MigrationInv
<1>2. UNCHANGED <<spec, status, bound, told, shown, coord, edit, after, stops, marker, record, history, settings, pc, plan>>
  BY DEF LegacyEdit, store
<1>3. legacy \in 0 .. MaxVersions /\ legacy' = legacy + 1 /\ legacy' \in 0 .. MaxVersions /\ MaxVersions \in Nat
  BY <1>1, MigrationAssumption DEF LegacyEdit, MigrationTypes
<1>4. \A m \in Migrators : pc[m] # "inventory"
  BY DEF LegacyEdit, OneMigrator
<1>5. 0 .. legacy \subseteq 0 .. legacy'
  BY <1>3
<1>6. Whole => Whole'
  BY <1>2, <1>5 DEF Whole
<1>7. StoreInv' /\ Unused' /\ MigrationTypes'
  BY <1>1, <1>2, <1>3, StoreUnchanged DEF Unused, MigrationTypes, Active
<1>8. MarkedIsWhole'
  BY <1>1, <1>2, <1>6 DEF MarkedIsWhole, Active
<1>9. ASSUME NEW m \in Migrators PROVE PlanAgrees(m)'
  <2>1. plan[m].fingerprint \in 0 .. MaxVersions /\ PlanAgrees(m)
    BY <1>1 DEF MigrationTypes, Plans
  <2>2. plan[m].fingerprint <= legacy => plan[m].fingerprint <= legacy'
    BY <1>3, <2>1
  <2> QED BY <1>2, <1>4, <1>5, <1>6, <2>1, <2>2 DEF PlanAgrees
<1> QED BY <1>7, <1>8, <1>9 DEF MigrationInv

\* The old coordinator touches nothing the invariant speaks of.
LEMMA LegacyCoordinatorKeeps == ASSUME MigrationInv, LegacyCoordinator \/ UNCHANGED vars PROVE MigrationInv'
<1>1. UNCHANGED <<spec, told, coord, edit, after, legacy, marker, record, history, settings, pc, plan>>
  BY DEF LegacyCoordinator, store, vars, migration
<1> QED BY <1>1, StoreUnchanged DEF MigrationInv, MigrationTypes, Unused, MarkedIsWhole, PlanAgrees, Whole, Active

\* A project nobody uses does nothing by itself.
LEMMA UnusedRests == ASSUME MigrationInv, ~Active PROVE ~Progress
<1>1. /\ coord = "down" /\ \A e \in Editors : edit[e] = NoEdit
      /\ \A p \in Processes : after[p] = Free
  BY DEF MigrationInv, Unused
<1>2. NoEdit.at = "idle" /\ Free.step = "none"
  BY DEF NoEdit, Free
<1>3. ASSUME NEW e \in Editors PROVE ~(AppliesForClient(e) \/ routeToCoordinator(e) \/ AppliesDirectly(e) \/ GivesUp(e))
  BY <1>1, <1>2 DEF AppliesForClient, routeToCoordinator, AppliesDirectly, GivesUp
<1>4. ASSUME NEW p \in Processes PROVE ~(notify(p) \/ readProjectBacklog(p) \/ refreshBacklogProjection(p) \/ Stops(p))
  BY <1>1, <1>2 DEF notify, readProjectBacklog, refreshBacklogProjection, Stops, Processes
<1>5. ASSUME NEW t \in Tasks PROVE ~applyTransition(t)
  BY <1>1 DEF applyTransition
<1> QED BY <1>3, <1>4, <1>5 DEF Progress

\* The project in use is TaskStore's.
LEMMA ProjectKeeps == ASSUME MigrationInv, Project PROVE MigrationInv' /\ Active /\ StoreNext
<1>1. Active /\ StoreNext
  BY UnusedRests DEF Project, StoreNext
<1>2. UNCHANGED <<legacy, marker, record, history, settings, pc, plan>>
  BY DEF Project, migration
<1>3. StoreInv'
  BY <1>1, AuthoringKeeps, ProgressKeeps, StoreUnchanged DEF MigrationInv, StoreNext, CoordinatorStarts
<1>4. MigrationTypes' /\ Unused' /\ MarkedIsWhole'
  BY <1>1, <1>2 DEF MigrationInv, MigrationTypes, Unused, MarkedIsWhole, Active
<1>5. ASSUME NEW m \in Migrators PROVE PlanAgrees(m)'
  <2>1. marker /\ PlanAgrees(m)
    BY <1>1 DEF MigrationInv, MarkedIsWhole
  <2> QED BY <1>2, <2>1 DEF PlanAgrees
<1> QED BY <1>1, <1>3, <1>4, <1>5 DEF MigrationInv

-----------------------------------------------------------------------------
(* The migrator's steps.                                                   *)

\* One that leaves the store and the installation alone.
LEMMA MigratorKeeps ==
    ASSUME OneMigrator, MigrationInv, NEW m \in Migrators, NEW x \in Points, Go(m, x),
           plan' \in [Migrators -> Plans], marker' \in BOOLEAN, Active => Active', UNCHANGED <<store, legacy>>,
           PlanAgrees(m)', MarkedIsWhole'
    PROVE  MigrationInv'
<1>1. StoreInv' /\ Unused'
  BY StoreUnchanged DEF MigrationInv, Unused, store
<1>2. MigrationTypes'
  BY DEF MigrationInv, MigrationTypes, Go
<1>3. \A n \in Migrators : n = m
  BY DEF OneMigrator
<1> QED BY <1>1, <1>2, <1>3 DEF MigrationInv

\* What a migrator plans: fields of one record.
LEMMA PlanRow ==
    ASSUME NEW d \in Plans, NEW v \in 0 .. MaxVersions, NEW a \in BOOLEAN
    PROVE  /\ [d EXCEPT !.fingerprint = v, !.existing = a] \in Plans
           /\ [d EXCEPT !.fingerprint = v, !.existing = a].tasks = d.tasks
           /\ [d EXCEPT !.fingerprint = v, !.existing = a].fingerprint = v
           /\ [d EXCEPT !.tasks = v, !.idle = a] \in Plans
           /\ [d EXCEPT !.tasks = v, !.idle = a].tasks = v
<1>1. PICK e \in Plans : e = [d EXCEPT !.fingerprint = v] /\ e.fingerprint = v /\ e.tasks = d.tasks
  <2>1. [d EXCEPT !.fingerprint = v] \in Plans
    BY DEF Plans
  <2> QED BY <2>1 DEF Plans
<1>2. PICK f \in Plans : f = [d EXCEPT !.tasks = v] /\ f.tasks = v
  <2>1. [d EXCEPT !.tasks = v] \in Plans
    BY DEF Plans
  <2> QED BY <2>1 DEF Plans
<1>3. [e EXCEPT !.existing = a] \in Plans /\ [e EXCEPT !.existing = a].tasks = d.tasks /\ [e EXCEPT !.existing = a].fingerprint = v
  BY <1>1 DEF Plans
<1>4. [f EXCEPT !.idle = a] \in Plans /\ [f EXCEPT !.idle = a].tasks = v
  BY <1>2 DEF Plans
<1> QED BY <1>1, <1>2, <1>3, <1>4

\* The inventory: tasks first, fingerprint last, nobody edits in between.
LEMMA PlanningKeeps ==
    ASSUME OneMigrator, MigrationInv, NEW m \in Migrators, planMigration(m) \/ sourceFingerprint(m)
    PROVE  MigrationInv'
<1>1. StoreInv /\ MigrationTypes /\ Unused /\ MarkedIsWhole /\ PlanAgrees(m)
  BY DEF MigrationInv
<1>2. /\ legacy \in 0 .. MaxVersions /\ pc \in [Migrators -> Points] /\ plan \in [Migrators -> Plans] /\ marker \in BOOLEAN
      /\ legacy <= legacy
  BY <1>1 DEF MigrationTypes
<1>3. NoPlan \in Plans
  BY MigrationAssumption DEF NoPlan, Plans
<1>4. UNCHANGED <<store, legacy, marker, history, settings>>
  BY DEF planMigration, sourceFingerprint
<1>5. Whole' <=> Whole
  BY <1>4 DEF Whole, store
<1>6. CASE planMigration(m)
  <2>1. PICK d \in Plans : d = [NoPlan EXCEPT !.tasks = legacy, !.idle = ~busy] /\ d.tasks = legacy
    <3>1. PICK a \in BOOLEAN : a = ~busy
      OBVIOUS
    <3>2. PICK v \in 0 .. MaxVersions : v = legacy
      BY <1>2
    <3>3. PICK c \in Plans : c = NoPlan
      BY <1>3
    <3>4. [c EXCEPT !.tasks = v, !.idle = a] \in Plans
      BY PlanRow
    <3>5. [c EXCEPT !.tasks = v, !.idle = a].tasks = v
      BY DEF Plans
    <3> QED BY <3>1, <3>2, <3>3, <3>4, <3>5
  <2>2. plan' \in [Migrators -> Plans] /\ plan'[m].tasks = legacy
    <3>1. plan' = [plan EXCEPT ![m] = d]
      BY <1>6, <2>1 DEF planMigration
    <3> QED BY <1>2, <2>1, <3>1
  <2>3. Go(m, "inventory") /\ UNCHANGED record /\ "inventory" \in Points /\ pc'[m] = "inventory"
    BY <1>2, <1>6 DEF planMigration, Go, Points
  <2>4. PlanAgrees(m)' /\ MarkedIsWhole'
    BY <1>1, <1>4, <1>5, <2>2, <2>3 DEF PlanAgrees, MarkedIsWhole, Active, Planned, Filling
  <2> QED BY <1>2, <1>4, <2>2, <2>3, <2>4, MigratorKeeps DEF Active
<1>7. CASE sourceFingerprint(m) /\ (migrated_to \/ blocking(m))
  <2>1. plan' \in [Migrators -> Plans]
    BY <1>2, <1>3, <1>7 DEF sourceFingerprint
  <2>2. /\ Go(m, "idle") /\ "idle" \in Points /\ pc'[m] = "idle"
        /\ record' = IF marker THEN "cut_over" ELSE record
    BY <1>2, <1>7 DEF sourceFingerprint, Go, Points, migrated_to
  <2>3. PlanAgrees(m)' /\ MarkedIsWhole'
    BY <1>1, <1>4, <1>5, <2>2 DEF PlanAgrees, MarkedIsWhole, Active, Planned, Filling
  <2> QED BY <1>2, <1>4, <2>1, <2>2, <2>3, MigratorKeeps DEF Active
<1>8. CASE sourceFingerprint(m) /\ ~(migrated_to \/ blocking(m))
  <2>1. PICK d \in Plans : /\ d = [plan[m] EXCEPT !.fingerprint = legacy, !.existing = (record # "none")]
                          /\ d.fingerprint = legacy /\ d.tasks = plan[m].tasks
    <3>1. PICK a \in BOOLEAN : a = (record # "none")
      OBVIOUS
    <3>2. plan[m] \in Plans
      BY <1>2
    <3>3. PICK v \in 0 .. MaxVersions : v = legacy
      BY <1>2
    <3>4. PICK c \in Plans : c = plan[m]
      BY <3>2
    <3>5. [c EXCEPT !.fingerprint = v, !.existing = a] \in Plans
      BY PlanRow
    <3>6. [c EXCEPT !.fingerprint = v, !.existing = a].tasks = c.tasks /\ [c EXCEPT !.fingerprint = v, !.existing = a].fingerprint = v
      BY PlanRow
    <3> QED BY <3>1, <3>3, <3>4, <3>5, <3>6
  <2>2. plan' = [plan EXCEPT ![m] = d]
    BY <1>2, <1>8, <2>1 DEF sourceFingerprint
  <2>3. plan' \in [Migrators -> Plans] /\ plan'[m] = d
    BY <1>2, <2>2
  <2>4. Go(m, "legacy") /\ UNCHANGED record /\ "legacy" \in Points /\ pc'[m] = "legacy" /\ ~marker
    BY <1>2, <1>8 DEF sourceFingerprint, Go, Points, Planned, migrated_to
  <2>5. plan[m].tasks = legacy
    BY <1>1, <1>8 DEF PlanAgrees, sourceFingerprint
  <2>6. PlanAgrees(m)' /\ MarkedIsWhole'
    BY <1>1, <1>2, <1>4, <1>5, <2>1, <2>3, <2>4, <2>5 DEF PlanAgrees, MarkedIsWhole, Active, Planned, Filling
  <2> QED BY <1>2, <1>4, <2>3, <2>4, <2>6, MigratorKeeps DEF Active
<1> QED BY <1>6, <1>7, <1>8

\* The locks: a migrator goes on with its plan, or ends.
LEMMA LockingKeeps ==
    ASSUME OneMigrator, MigrationInv, NEW m \in Migrators, NEW l \in Places,
           acquireMigrationLock(m, l) \/ replaceLock(m, l) \/ releaseLocks(m) \/ Crash(m)
    PROVE  MigrationInv'
<1>1. StoreInv /\ MigrationTypes /\ Unused /\ MarkedIsWhole /\ PlanAgrees(m)
  BY DEF MigrationInv
<1>2. legacy \in 0 .. MaxVersions /\ pc \in [Migrators -> Points] /\ plan \in [Migrators -> Plans] /\ marker \in BOOLEAN
  BY <1>1 DEF MigrationTypes
<1>3. NoPlan \in Plans
  BY MigrationAssumption DEF NoPlan, Plans
<1>4. UNCHANGED <<store, legacy, marker, record, history, settings>>
  BY DEF acquireMigrationLock, replaceLock, releaseLocks, Crash
<1>5. Whole' <=> Whole
  BY <1>4 DEF Whole, store
<1>6. ASSUME NEW x \in {"idle", "release"}, Go(m, x), plan' \in [Migrators -> Plans]
      PROVE  MigrationInv'
  <2>1. x \in Points /\ pc'[m] = x
    BY <1>2, <1>6 DEF Go, Points
  <2>2. PlanAgrees(m)' /\ MarkedIsWhole'
    BY <1>1, <1>4, <1>5, <2>1 DEF PlanAgrees, MarkedIsWhole, Active, Planned, Filling
  <2> QED BY <1>2, <1>4, <1>6, <2>1, <2>2, MigratorKeeps DEF Active
<1>7. ASSUME NEW x \in Planned \ Filling, Go(m, x), plan' \in [Migrators -> Plans], pc[m] \in Planned,
             plan'[m].tasks = plan[m].tasks, plan'[m].fingerprint = plan[m].fingerprint
      PROVE  MigrationInv'
  <2>1. x \in Points /\ pc'[m] = x
    BY <1>2, <1>7 DEF Go, Points
  <2>2. x # "inventory" /\ x # "mark" /\ x # "cut"
    BY DEF Planned
  <2>3. PlanAgrees(m)' /\ MarkedIsWhole'
    BY <1>1, <1>4, <1>5, <1>7, <2>1, <2>2 DEF PlanAgrees, MarkedIsWhole, Active
  <2> QED BY <1>2, <1>4, <1>7, <2>1, <2>3, MigratorKeeps DEF Active
<1>8. ASSUME Takes(m, l), pc[m] \in Planned PROVE MigrationInv'
  <2>1. PICK d \in Plans : d = [plan[m] EXCEPT !.held = plan[m].held \cup {l}] /\ d.tasks = plan[m].tasks /\ d.fingerprint = plan[m].fingerprint
    <3>1. plan[m] \in Plans /\ plan[m].held \cup {l} \in SUBSET Places
      BY <1>2 DEF Plans
    <3>2. [plan[m] EXCEPT !.held = plan[m].held \cup {l}] \in Plans
      BY <3>1 DEF Plans
    <3> QED BY <3>1, <3>2 DEF Plans
  <2>2. plan' = [plan EXCEPT ![m] = d]
    BY <1>2, <1>8, <2>1 DEF Takes
  <2>3. plan' \in [Migrators -> Plans] /\ plan'[m] = d
    BY <1>2, <2>2
  <2>4. PICK x \in {"project", "register"} : Go(m, x)
    BY <1>8 DEF Takes, AfterLock
  <2>5. x \in Planned \ Filling
    BY <2>4 DEF Planned, Filling
  <2> QED BY <1>7, <1>8, <2>1, <2>3, <2>4, <2>5
<1>9. CASE acquireMigrationLock(m, l)
  <2>1. pc[m] \in Planned /\ Replacing(l) \in Planned \ Filling
    BY <1>9 DEF acquireMigrationLock, Planned, Filling, Replacing, Places
  <2>2. CASE Go(m, "release") /\ UNCHANGED plan
    BY <1>2, <1>6, <2>2
  <2>3. CASE Go(m, Replacing(l)) /\ UNCHANGED plan
    BY <1>2, <1>7, <2>1, <2>3
  <2>4. CASE Takes(m, l)
    BY <1>8, <2>1, <2>4
  <2> QED BY <1>9, <2>2, <2>3, <2>4 DEF acquireMigrationLock
<1>10. CASE replaceLock(m, l)
  <2>1. pc[m] \in Planned /\ Takes(m, l)
    BY <1>10 DEF replaceLock, Planned, Replacing
  <2> QED BY <1>8, <2>1
<1>11. CASE releaseLocks(m)
  <2>1. Go(m, "idle") /\ plan' \in [Migrators -> Plans]
    BY <1>2, <1>3, <1>11 DEF releaseLocks
  <2> QED BY <1>6, <2>1
<1>12. CASE Crash(m)
  <2>1. Go(m, "idle") /\ plan' \in [Migrators -> Plans]
    BY <1>2, <1>3, <1>12 DEF Crash
  <2> QED BY <1>6, <2>1
<1> QED BY <1>9, <1>10, <1>11, <1>12

\* Execution, as far as it leaves the store and the plan alone.
LEMMA ExecutionKeeps ==
    ASSUME OneMigrator, MigrationInv, NEW m \in Migrators,
           \/ register(m) \/ backupInstallation(m) \/ copyHistory(m) \/ importSettings(m) \/ listSettings(m)
           \/ verify(m) \/ writeMarker(m) \/ cutOver(m)
    PROVE  MigrationInv'
<1>1. StoreInv /\ MigrationTypes /\ Unused /\ MarkedIsWhole /\ PlanAgrees(m)
  BY DEF MigrationInv
<1>2. /\ legacy \in 0 .. MaxVersions /\ pc \in [Migrators -> Points] /\ plan \in [Migrators -> Plans] /\ marker \in BOOLEAN
      /\ plan[m].fingerprint \in 0 .. MaxVersions /\ plan[m].tasks \in 0 .. MaxVersions
  BY <1>1 DEF MigrationTypes, Plans
<1>3. UNCHANGED <<store, legacy, plan>> /\ UNCHANGED <<spec>>
  BY DEF register, backupInstallation, copyHistory, importSettings, listSettings, verify, writeMarker, cutOver, store
<1>4. ASSUME NEW x, Go(m, x) PROVE pc'[m] = x
  BY <1>2, <1>4 DEF Go
<1>5. ASSUME marker' \in BOOLEAN, Active => Active', NEW x \in Points, Go(m, x), PlanAgrees(m)', MarkedIsWhole'
      PROVE  MigrationInv'
  BY <1>2, <1>3, <1>5, MigratorKeeps
<1>6. Active => pc[m] \notin Planned /\ pc[m] # "mark"
  BY <1>1 DEF MarkedIsWhole, PlanAgrees
<1>7. CASE register(m)
  <2>1. pc[m] = "register" /\ UNCHANGED <<marker, history, settings>> /\ ~marker /\ ~Active
    BY <1>1, <1>6, <1>7 DEF register, PlanAgrees, Planned
  <2>2. PICK x \in {"backup", "release"} : Go(m, x)
    BY <1>7 DEF register
  <2>3. x \in Points /\ pc'[m] = x
    BY <1>4, <2>2 DEF Points, Planned
  <2>4. record' # "cut_over"
    BY <1>7, <2>1 DEF register, Active
  <2>5. PlanAgrees(m)' /\ MarkedIsWhole'
    BY <1>1, <1>3, <2>1, <2>3, <2>4 DEF PlanAgrees, MarkedIsWhole, Active, Planned, Filling
  <2> QED BY <1>2, <1>5, <2>1, <2>2, <2>3, <2>5
<1>8. CASE backupInstallation(m)
  <2>1. pc[m] = "backup" /\ UNCHANGED <<marker, record, history, settings>> /\ Go(m, "wipe")
    BY <1>8 DEF backupInstallation
  <2>2. "wipe" \in Points /\ pc'[m] = "wipe"
    BY <1>4, <2>1 DEF Points, Planned
  <2>3. PlanAgrees(m)' /\ MarkedIsWhole'
    BY <1>1, <1>3, <2>1, <2>2 DEF PlanAgrees, MarkedIsWhole, Active, Planned, Filling, Whole
  <2> QED BY <1>2, <1>5, <2>1, <2>2, <2>3 DEF Active
<1>9. CASE copyHistory(m)
  <2>1. pc[m] = "copy" /\ UNCHANGED <<marker, record, settings>> /\ Go(m, "import") /\ history' = {legacy} /\ ~marker /\ ~Active
    BY <1>1, <1>6, <1>9 DEF copyHistory, PlanAgrees, Planned
  <2>2. "import" \in Points /\ pc'[m] = "import"
    BY <1>4, <2>1 DEF Points, Planned
  <2>3. legacy \in 0 .. legacy
    BY <1>2
  <2>4. PlanAgrees(m)' /\ MarkedIsWhole'
    BY <1>1, <1>3, <2>1, <2>2, <2>3 DEF PlanAgrees, MarkedIsWhole, Active, Planned, Filling
  <2> QED BY <1>2, <1>5, <2>1, <2>2, <2>4
<1>10. CASE importSettings(m)
  <2>1. pc[m] = "settings" /\ UNCHANGED <<marker, record, history>> /\ Go(m, "list") /\ ~marker /\ ~Active
    BY <1>1, <1>6, <1>10 DEF importSettings, PlanAgrees, Planned
  <2>2. "list" \in Points /\ pc'[m] = "list"
    BY <1>4, <2>1 DEF Points, Planned
  <2>3. PlanAgrees(m)' /\ MarkedIsWhole'
    BY <1>1, <1>3, <2>1, <2>2 DEF PlanAgrees, MarkedIsWhole, Active, Planned, Filling
  <2> QED BY <1>2, <1>5, <2>1, <2>2, <2>3
<1>11. CASE listSettings(m)
  <2>1. pc[m] = "list" /\ UNCHANGED <<marker, record, history, settings>> /\ Go(m, "verify") /\ ~marker /\ ~Active
    BY <1>1, <1>6, <1>11 DEF listSettings, PlanAgrees, Planned
  <2>2. "verify" \in Points /\ pc'[m] = "verify"
    BY <1>4, <2>1 DEF Points, Planned
  <2>3. PlanAgrees(m)' /\ MarkedIsWhole'
    BY <1>1, <1>3, <2>1, <2>2 DEF PlanAgrees, MarkedIsWhole, Active, Planned, Filling
  <2> QED BY <1>2, <1>5, <2>1, <2>2, <2>3
<1>12. CASE verify(m)
  <2>1. pc[m] = "verify" /\ UNCHANGED <<marker, history, settings>> /\ ~marker /\ ~Active /\ record' # "cut_over"
    BY <1>1, <1>6, <1>12 DEF verify, PlanAgrees, Planned
  <2>2. CASE verifyParity(m)
    <3>1. Go(m, "mark") /\ "mark" \in Points /\ pc'[m] = "mark"
      BY <1>4, <1>12, <2>2 DEF verify, Points
    <3>2. PICK h \in 0 .. legacy : history = {h} /\ plan[m].fingerprint <= h
      BY <1>1, <2>1 DEF PlanAgrees, Filling
    <3>3. plan[m].tasks = plan[m].fingerprint /\ legacy = plan[m].fingerprint
      BY <1>1, <2>1, <2>2 DEF PlanAgrees, Planned, verifyParity
    <3>4. h = legacy /\ legacy \in 0 .. legacy
      BY <1>2, <3>2, <3>3
    <3>5. spec = [t \in Tasks |-> <<[body |-> legacy, previous |-> 0]>>] /\ settings = {legacy}
      <4>1. spec \in [Tasks -> Seq(Rows)]
        BY <1>1 DEF StoreInv, StoreTypes
      <4>2. (\A t \in Tasks : spec[t] = <<[body |-> legacy, previous |-> 0]>>) /\ settings = {legacy}
        BY <2>2, <3>3 DEF verifyParity, SameContent
      <4> QED BY <4>1, <4>2
    <3>6. Whole'
      BY <1>3, <2>1, <3>2, <3>4, <3>5 DEF Whole
    <3>7. PlanAgrees(m)' /\ MarkedIsWhole'
      BY <1>3, <2>1, <3>1, <3>6 DEF PlanAgrees, MarkedIsWhole, Active, Planned, Filling
    <3> QED BY <1>2, <1>5, <2>1, <3>1, <3>7
  <2>3. CASE ~verifyParity(m)
    <3>1. Go(m, "release") /\ "release" \in Points /\ pc'[m] = "release"
      BY <1>4, <1>12, <2>3 DEF verify, Points
    <3>2. PlanAgrees(m)' /\ MarkedIsWhole'
      BY <1>3, <2>1, <3>1 DEF PlanAgrees, MarkedIsWhole, Active, Planned, Filling
    <3> QED BY <1>2, <1>5, <2>1, <3>1, <3>2
  <2> QED BY <2>2, <2>3
<1>13. CASE writeMarker(m)
  <2>1. pc[m] = "mark" /\ marker' = TRUE /\ UNCHANGED <<record, history, settings>> /\ Go(m, "cut") /\ Whole
    BY <1>1, <1>13 DEF writeMarker, PlanAgrees
  <2>2. "cut" \in Points /\ pc'[m] = "cut"
    BY <1>4, <2>1 DEF Points
  <2>3. Whole'
    BY <1>3, <2>1 DEF Whole
  <2>4. PlanAgrees(m)' /\ MarkedIsWhole'
    BY <2>1, <2>2, <2>3 DEF PlanAgrees, MarkedIsWhole, Active, Planned, Filling
  <2> QED BY <1>5, <2>1, <2>2, <2>4 DEF Active
<1>14. CASE cutOver(m)
  <2>1. pc[m] = "cut" /\ record' = "cut_over" /\ UNCHANGED <<marker, history, settings>> /\ Go(m, "release")
    BY <1>14 DEF cutOver
  <2>2. "release" \in Points /\ pc'[m] = "release"
    BY <1>4, <2>1 DEF Points
  <2>3. marker
    BY <1>1, <2>1 DEF PlanAgrees
  <2>4. PlanAgrees(m)' /\ MarkedIsWhole'
    BY <2>1, <2>2, <2>3 DEF PlanAgrees, MarkedIsWhole, Active, Planned, Filling
  <2> QED BY <1>2, <1>5, <2>1, <2>2, <2>4 DEF Active
<1> QED BY <1>7, <1>8, <1>9, <1>10, <1>11, <1>12, <1>13, <1>14

\* What is removed and what is imported: a store that nobody uses yet.
LEMMA RebuiltStore ==
    ASSUME MigrationInv, ~Active, UNCHANGED <<edit, after>>, told' \in [Tasks -> [Numbers -> Nat]],
           \A t \in Tasks, i \in Numbers : told'[t][i] = 0, spec' \in [Tasks -> Seq(Rows)],
           \A t \in Tasks : \A i \in DOMAIN spec'[t] : spec'[t][i].previous = i - 1
    PROVE  StoreInv'
<1>1. /\ \A e \in Editors : edit[e] = NoEdit
      /\ \A p \in Processes : after[p] = Free
  BY DEF MigrationInv, Unused
<1>2. StoreTypes'
  BY DEF MigrationInv, StoreInv, StoreTypes
<1>3. BasesAreOld'
  <2>1. \A t \in Tasks : Len(spec'[t]) \in Nat
    BY LenProperties
  <2> QED BY <1>1, <2>1, Empties DEF BasesAreOld, Latest
<1>4. NoEditIsOverwritten'
  BY DEF NoEditIsOverwritten
<1>5. NewsIsNew' /\ NewsIsOnce'
  BY <1>1, Empties DEF NewsIsNew, NewsIsOnce, News
<1>6. AnnouncedIsCommitted'
  BY DEF AnnouncedIsCommitted
<1> QED BY <1>2, <1>3, <1>4, <1>5, <1>6 DEF StoreInv

\* wipe and importPlannedTasks: both before the cutover.
LEMMA ImportKeeps ==
    ASSUME OneMigrator, MigrationInv, NEW m \in Migrators, wipe(m) \/ importPlannedTasks(m)
    PROVE  MigrationInv'
<1>1. StoreInv /\ MigrationTypes /\ Unused /\ MarkedIsWhole /\ PlanAgrees(m)
  BY DEF MigrationInv
<1>2. /\ legacy \in 0 .. MaxVersions /\ pc \in [Migrators -> Points] /\ plan \in [Migrators -> Plans] /\ marker \in BOOLEAN
      /\ plan[m].tasks \in 0 .. MaxVersions
  BY <1>1 DEF MigrationTypes, Plans
<1>3. pc[m] \in Planned /\ ~marker /\ ~Active
  BY <1>1 DEF wipe, importPlannedTasks, Planned, PlanAgrees, MarkedIsWhole
<1>4. UNCHANGED <<coord, edit, after, legacy, marker, record, settings, plan>>
  BY DEF wipe, importPlannedTasks
<1>5. \A n \in Migrators : n = m
  BY DEF OneMigrator
<1>6. ASSUME NEW x \in Points, Go(m, x), PlanAgrees(m)', StoreInv', \A t \in Tasks, i \in Numbers : told'[t][i] = 0
      PROVE  MigrationInv'
  <2>1. MigrationTypes'
    BY <1>1, <1>4, <1>6 DEF MigrationTypes, Go
  <2>2. Unused' /\ MarkedIsWhole'
    BY <1>1, <1>3, <1>4, <1>6 DEF Unused, MarkedIsWhole, Active
  <2> QED BY <1>5, <1>6, <2>1, <2>2 DEF MigrationInv
<1>7. CASE wipe(m)
  <2>1. Go(m, "copy") /\ "copy" \in Points /\ pc'[m] = "copy"
    BY <1>2, <1>7 DEF wipe, Go, Points, Planned
  <2>2. told' \in [Tasks -> [Numbers -> Nat]] /\ \A t \in Tasks, i \in Numbers : told'[t][i] = 0
    BY <1>7 DEF wipe
  <2>3. spec' \in [Tasks -> Seq(Rows)] /\ \A t \in Tasks : spec'[t] = <<>>
    <3>1. <<>> \in Seq(Rows)
      BY EmptySeq
    <3> QED BY <1>7, <3>1 DEF wipe
  <2>4. \A t \in Tasks : DOMAIN spec'[t] = {}
    BY <2>3
  <2>5. StoreInv'
    BY <1>3, <1>4, <2>2, <2>3, <2>4, RebuiltStore
  <2>6. PlanAgrees(m)'
    BY <1>1, <1>3, <1>4, <2>1 DEF PlanAgrees, Planned, Filling
  <2> QED BY <1>6, <2>1, <2>2, <2>5, <2>6
<1>8. CASE importPlannedTasks(m)
  <2>1. Go(m, "settings") /\ "settings" \in Points /\ pc'[m] = "settings" /\ pc[m] = "import" /\ UNCHANGED <<told, history>>
    BY <1>2, <1>8 DEF importPlannedTasks, Go, Points, Planned
  <2>2. told' \in [Tasks -> [Numbers -> Nat]] /\ \A t \in Tasks, i \in Numbers : told'[t][i] = 0
    BY <1>1, <1>3, <2>1 DEF Unused, StoreInv, StoreTypes
  <2>3. PICK row \in Rows : row = [body |-> plan[m].tasks, previous |-> 0] /\ row.previous = 0
    <3>1. plan[m].tasks \in Bodies
      BY <1>2, MigrationAssumption
    <3>2. [body |-> plan[m].tasks, previous |-> 0] \in Rows
      BY <3>1 DEF Rows
    <3> QED BY <3>2
  <2>4. spec' \in [Tasks -> Seq(Rows)] /\ \A t \in Tasks : spec'[t] = <<row>>
    <3>1. <<row>> \in Seq(Rows)
      OBVIOUS
    <3> QED BY <1>8, <2>3, <3>1 DEF importPlannedTasks
  <2>5. \A t \in Tasks : \A i \in DOMAIN spec'[t] : spec'[t][i].previous = i - 1
    <3>1. \A i \in DOMAIN <<row>> : i = 1 /\ <<row>>[i] = row
      OBVIOUS
    <3> QED BY <2>3, <2>4, <3>1
  <2>6. StoreInv'
    BY <1>3, <1>4, <2>2, <2>4, <2>5, RebuiltStore
  <2>7. PlanAgrees(m)'
    BY <1>1, <1>3, <1>4, <2>1 DEF PlanAgrees, Planned, Filling
  <2> QED BY <1>6, <2>1, <2>2, <2>6, <2>7
<1> QED BY <1>7, <1>8

\* Every step keeps the invariant.
LEMMA MigrationStep == OneMigrator /\ MigrationInv /\ [Next]_vars => MigrationInv'
<1> SUFFICES ASSUME OneMigrator, MigrationInv, [Next]_vars PROVE MigrationInv'
  OBVIOUS
<1>1. CASE LegacyEdit
  BY <1>1, LegacyEditKeeps
<1>2. CASE LegacyCoordinator \/ UNCHANGED vars
  BY <1>2, LegacyCoordinatorKeeps
<1>3. CASE Project
  BY <1>3, ProjectKeeps
<1>4. ASSUME NEW m \in Migrators, migrateLegacyInstallation(m) PROVE MigrationInv'
  <2>1. CASE planMigration(m) \/ sourceFingerprint(m)
    BY <2>1, PlanningKeeps
  <2>2. ASSUME NEW l \in Places, acquireMigrationLock(m, l) \/ replaceLock(m, l) PROVE MigrationInv'
    BY <2>2, LockingKeeps
  <2>3. CASE releaseLocks(m) \/ Crash(m)
    <3>1. "legacy" \in Places
      BY DEF Places
    <3> QED BY <2>3, <3>1, LockingKeeps
  <2>4. CASE executeMigration(m)
    BY <2>4, ExecutionKeeps, ImportKeeps DEF executeMigration
  <2> QED BY <1>4, <2>1, <2>2, <2>3, <2>4 DEF migrateLegacyInstallation
<1> QED BY <1>1, <1>2, <1>3, <1>4 DEF Next

-----------------------------------------------------------------------------
(* The migration implements Cutover.                                       *)

\* Nothing a reader of the installation or the project can tell.
LEMMA CutoverStutters ==
    ASSUME UNCHANGED legacy, Active' <=> Active, Active => UNCHANGED <<spec, history, settings>>
    PROVE  UNCHANGED C!abstract
BY DEF C!abstract, Found

\* The installation and nothing of the project.
LEMMA CutoverInitially == Init => C!Init
BY DEF Init, C!Init, C!Nothing, Found, Active

\* A write of the store adds revisions and touches none that is there.
LEMMA RevisionsOnlyAdded ==
    ASSUME StoreInv, StoreNext
    PROVE  \A t \in Tasks : spec'[t] = spec[t] \/ C!Extends(spec'[t], spec[t])
<1>1. spec \in [Tasks -> Seq(Rows)]
  BY DEF StoreInv, StoreTypes
<1>2. ASSUME NEW p \in Processes, NEW e \in Editors, Applies(p, edit[e]), NEW t \in Tasks
      PROVE  spec'[t] = spec[t] \/ C!Extends(spec'[t], spec[t])
  <2> DEFINE row == [body |-> edit[e].body, previous |-> expectedRevision(edit[e], t)]
  <2>1. spec'[t] = spec[t] \/ spec'[t] = Append(spec[t], row)
    BY <1>2 DEF Applies, insertRevision
  <2> HIDE DEF row
  <2>2. CASE spec'[t] = Append(spec[t], row)
    <3>1. PICK s \in Seq(Rows \cup {row}) : s = spec[t]
      BY <1>1
    <3>2. Len(Append(s, row)) = Len(s) + 1 /\ \A i \in 1 .. Len(s) : Append(s, row)[i] = s[i]
      BY AppendProperties
    <3>3. Append(s, row) \in Seq(Rows \cup {row}) /\ Len(s) \in Nat
      BY AppendProperties, LenProperties
    <3>4. Append(s, row) # s /\ SubSeq(Append(s, row), 1, Len(s)) = s
      BY <3>2, <3>3
    <3>5. Len(Append(s, row)) > Len(s)
      BY <3>2, <3>3
    <3> QED BY <2>2, <3>1, <3>4, <3>5 DEF C!Extends
  <2> QED BY <2>1, <2>2
<1>3. (\A e \in Editors : e \in Processes) /\ Coordinator \in Processes
  BY DEF Processes
<1>4. ASSUME NEW e \in Editors, AppliesForClient(e) \/ AppliesDirectly(e), NEW t \in Tasks
      PROVE  spec'[t] = spec[t] \/ C!Extends(spec'[t], spec[t])
  BY <1>2, <1>3, <1>4 DEF AppliesForClient, AppliesDirectly
<1>5. CASE Authoring \/ CoordinatorStarts
  BY <1>5 DEF Authoring, Drafts, readTaskMarkdownSources, claimTask, CoordinatorStarts
<1>6. CASE Progress
  <2>1. ASSUME NEW e \in Editors, routeToCoordinator(e) \/ GivesUp(e) PROVE spec' = spec
    BY <2>1 DEF routeToCoordinator, GivesUp
  <2>2. ASSUME NEW p \in Processes, notify(p) \/ readProjectBacklog(p) \/ refreshBacklogProjection(p) \/ Stops(p)
        PROVE  spec' = spec
    BY <2>2 DEF notify, readProjectBacklog, refreshBacklogProjection, Stops
  <2>3. ASSUME NEW t \in Tasks, applyTransition(t) PROVE spec' = spec
    BY <2>3 DEF applyTransition
  <2> QED BY <1>4, <1>6, <2>1, <2>2, <2>3 DEF Progress
<1> QED BY <1>5, <1>6 DEF StoreNext

\* The project in use takes EditProject's steps.
LEMMA ProjectEdits == ASSUME MigrationInv, Project PROVE C!EditProject
<1>1. Active /\ StoreNext
  BY ProjectKeeps
<1>2. UNCHANGED <<legacy, record, history, settings>>
  BY DEF Project, migration
<1>3. Active'
  BY <1>1, <1>2 DEF Active
<1>4. Found = [tasks |-> spec, history |-> history, settings |-> settings]
  BY <1>1 DEF Found
<1>5. Found' = [tasks |-> spec', history |-> history, settings |-> settings]
  BY <1>2, <1>3 DEF Found
<1>6. \A t \in Tasks : spec'[t] = spec[t] \/ C!Extends(spec'[t], spec[t])
  BY <1>1, RevisionsOnlyAdded DEF MigrationInv
<1>7. Found' = [Found EXCEPT !.tasks = Found'.tasks]
  BY <1>4, <1>5
<1>8. Found'.tasks = spec' /\ Found.tasks = spec
  BY <1>4, <1>5
<1> QED BY <1>1, <1>2, <1>3, <1>6, <1>7, <1>8 DEF C!EditProject

\* A project that is marked goes into use with the version it holds.
LEMMA WholeIsCutOver ==
    ASSUME MigrationInv, marker, ~Active, Active', UNCHANGED <<store, legacy, history, settings>>
    PROVE  C!CutOver
<1>1. PICK v \in 0 .. legacy : /\ spec = [t \in Tasks |-> <<[body |-> v, previous |-> 0]>>]
                               /\ history = {v} /\ settings = {v}
  BY DEF MigrationInv, MarkedIsWhole, Whole
<1>2. Found' = [tasks |-> spec, history |-> history, settings |-> settings]
  BY DEF Found, store
<1>3. Found' = C!Snapshot(v)
  BY <1>1, <1>2 DEF C!Snapshot
<1> QED BY <1>3 DEF C!CutOver

\* A migrator takes the step of the cutover or none.
LEMMA MigratorCutsOver ==
    ASSUME OneMigrator, MigrationInv, NEW m \in Migrators, migrateLegacyInstallation(m)
    PROVE  C!CutOver \/ UNCHANGED C!abstract
<1>1. MarkedIsWhole /\ PlanAgrees(m)
  BY DEF MigrationInv
<1>2. CASE planMigration(m) \/ releaseLocks(m) \/ Crash(m) \/ listSettings(m) \/ backupInstallation(m) \/ writeMarker(m)
  <2>1. UNCHANGED <<legacy, record, spec, history, settings>>
    BY <1>2 DEF planMigration, releaseLocks, Crash, listSettings, backupInstallation, writeMarker, store
  <2> QED BY <2>1, CutoverStutters DEF Active
<1>3. ASSUME NEW l \in Places, acquireMigrationLock(m, l) \/ replaceLock(m, l) PROVE UNCHANGED C!abstract
  <2>1. UNCHANGED <<legacy, record, spec, history, settings>>
    BY <1>3 DEF acquireMigrationLock, replaceLock, store
  <2> QED BY <2>1, CutoverStutters DEF Active
<1>4. CASE wipe(m) \/ copyHistory(m) \/ importPlannedTasks(m) \/ importSettings(m)
  <2>1. pc[m] \in Planned /\ UNCHANGED <<legacy, record>>
    BY <1>4 DEF wipe, copyHistory, importPlannedTasks, importSettings, Planned
  <2>2. ~Active
    BY <1>1, <2>1 DEF MarkedIsWhole, PlanAgrees
  <2> QED BY <2>1, <2>2, CutoverStutters DEF Active
<1>5. CASE register(m) \/ verify(m)
  <2>1. pc[m] \in Planned /\ UNCHANGED legacy
    BY <1>5 DEF register, verify, Planned
  <2>2. ~Active
    BY <1>1, <2>1 DEF MarkedIsWhole, PlanAgrees
  <2>3. ~Active'
    BY <1>5, <2>2 DEF register, verify, Active
  <2> QED BY <2>1, <2>2, <2>3, CutoverStutters
<1>6. CASE sourceFingerprint(m) \/ cutOver(m)
  <2>1. UNCHANGED <<store, legacy, marker, history, settings>> /\ (record' = record \/ (record' = "cut_over" /\ marker))
    BY <1>1, <1>6 DEF sourceFingerprint, cutOver, migrated_to, PlanAgrees
  <2>2. CASE Active <=> Active'
    BY <2>1, <2>2, CutoverStutters DEF store
  <2>3. CASE ~(Active <=> Active')
    <3>1. marker /\ ~Active /\ Active'
      BY <2>1, <2>3 DEF Active
    <3> QED BY <2>1, <3>1, WholeIsCutOver
  <2> QED BY <2>2, <2>3
<1> QED BY <1>2, <1>3, <1>4, <1>5, <1>6 DEF migrateLegacyInstallation, executeMigration

\* Every step of the migration is one of the cutover or none.
LEMMA CutoverStep == OneMigrator /\ MigrationInv /\ [Next]_vars => [C!Next]_(C!abstract)
<1> SUFFICES ASSUME OneMigrator, MigrationInv, [Next]_vars PROVE C!Next \/ UNCHANGED C!abstract
  OBVIOUS
<1>1. CASE LegacyEdit
  <2>1. /\ ~Active /\ ~Active' /\ legacy < MaxVersions /\ legacy' = legacy + 1
        /\ Found' = Found
    BY <1>1 DEF LegacyEdit, Active, Found
  <2> QED BY <2>1 DEF C!Next, C!EditSource
<1>2. CASE LegacyCoordinator \/ UNCHANGED vars
  <2>1. UNCHANGED <<legacy, record, spec, history, settings>>
    BY <1>2 DEF LegacyCoordinator, vars, migration, store
  <2> QED BY <2>1, CutoverStutters DEF Active
<1>3. CASE Project
  BY <1>3, ProjectEdits DEF C!Next
<1>4. ASSUME NEW m \in Migrators, migrateLegacyInstallation(m) PROVE C!Next \/ UNCHANGED C!abstract
  BY <1>4, MigratorCutsOver DEF C!Next
<1> QED BY <1>1, <1>2, <1>3, <1>4 DEF Next

-----------------------------------------------------------------------------
(* The theorems about the migration.                                       *)

\* lib/projectMigration.ts: the plan a migrator goes by is of one version,
\* the marker is written when the project holds one version whole, and a
\* project is not used before its cutover, however often the migrator dies.
THEOREM MigrationInvariant == ASSUME OneMigrator PROVE Spec => []MigrationInv
<1>1. MigrationInv /\ [Next]_vars => MigrationInv'
  BY MigrationStep
<1> QED BY <1>1, MigrationInitially, PTL DEF Spec

\* migrateLegacyInstallation: a migration is one atomic cutover to one
\* whole version of the installation, after which revisions are only added.
THEOREM MigrationIsCutover == ASSUME OneMigrator PROVE Spec => ImplementsCutover
<1>1. MigrationInv /\ [Next]_vars => [C!Next]_(C!abstract)
  BY CutoverStep
<1> QED BY <1>1, CutoverInitially, MigrationInvariant, PTL DEF Spec, ImplementsCutover, C!Spec

\* isActivatable: a project that is in use stays in use.
THEOREM CutOverStays == ASSUME OneMigrator PROVE Spec => CutOverIsFinal
<1>1. MigrationInv /\ [Next]_vars => [Active => Active']_vars
  <2> SUFFICES ASSUME MigrationInv, [Next]_vars, Active PROVE Active'
    OBVIOUS
  <2>1. [C!Next]_(C!abstract)
    BY CutoverStep
  <2> QED BY <2>1 DEF C!Next, C!EditSource, C!CutOver, C!EditProject, C!abstract
<1> QED BY <1>1, MigrationInvariant, PTL DEF Spec, CutOverIsFinal

\* reviseProjectTask, in a project that was migrated: every revision, the
\* imported ones included, was made from the one before it.
THEOREM MigratedEditsAreKept == ASSUME OneMigrator PROVE Spec => []NoEditIsOverwritten
<1>1. MigrationInv => NoEditIsOverwritten
  BY DEF MigrationInv, StoreInv
<1> QED BY <1>1, MigrationInvariant, PTL

\* withTaskAuthoringBatch, in a project that was migrated: what is announced
\* was committed, and is announced once.
THEOREM MigratedAnnouncementsAreTrue == ASSUME OneMigrator PROVE Spec => []AnnouncedIsCommitted
<1>1. MigrationInv => AnnouncedIsCommitted
  BY DEF MigrationInv, StoreInv
<1> QED BY <1>1, MigrationInvariant, PTL

=============================================================================
